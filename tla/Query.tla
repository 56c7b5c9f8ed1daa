-------------------------------- MODULE Query --------------------------------
(***************************************************************************)
(* What a SELECT computes: the expressions of executor/expr_eval.cpp, the  *)
(* choice of an index in executor.cpp, and the operators that ExecuteSelect*)
(* chains.  A tuple is the sequence of values of a row.                    *)
(***************************************************************************)
EXTENDS Parser, RecordCodec

CONSTANTS LiteralValue(_)   \* what ParseLiteral makes of a literal token

Bool(b) == <<"bool", IF b THEN 1 ELSE 0>>
True == Bool(TRUE)
False == Bool(FALSE)

\* Schema::IndexOf, 0 for an unknown column.
IndexOf(col) == SelectInSeq(Schema, LAMBDA c : c.name = col)

\* ToDouble has a value for the numeric types.
Class(v) == IF v[1] \in {"int32", "int64", "double"} THEN "number" ELSE v[1]
Comparable(a, b) == Class(a) = Class(b) /\ Class(a) \in {"number", "string", "bool"}

StringLess(s, t) ==
  \/ Len(s) < Len(t) /\ SubSeq(t, 1, Len(s)) = s
  \/ \E i \in 1 .. Len(s) : i <= Len(t) /\ s[i] < t[i] /\ SubSeq(s, 1, i - 1) = SubSeq(t, 1, i - 1)
Less(a, b) == IF Class(a) = "string" THEN StringLess(a[2], b[2]) ELSE a[2] < b[2]

ValuesEqual(a, b) ==
  IF IsNull(a) \/ IsNull(b) THEN False
  ELSE IF Comparable(a, b) THEN Bool(a[2] = b[2]) ELSE Error

Negated(v) == IF v = Error THEN Error ELSE Bool(v = False)

CompareOrdered(op, a, b) ==
  IF IsNull(a) \/ IsNull(b) THEN False
  ELSE IF ~Comparable(a, b) THEN Error
  ELSE CASE op = "<" -> Bool(Less(a, b)) [] op = "<=" -> Bool(~Less(b, a))
         [] op = ">" -> Bool(Less(b, a)) [] op = ">=" -> Bool(~Less(a, b))

RECURSIVE Evaluate(_, _)
Evaluate(e, row) ==
  CASE e.kind = "column" -> IF IndexOf(e.name) = 0 THEN Error ELSE row[IndexOf(e.name)]
    [] e.kind = "literal" -> LiteralValue(e.token)
    [] e.kind = "binary" ->
         LET left == Evaluate(e.left, row)
             right == Evaluate(e.right, row)
         IN  IF left = Error THEN Error
             ELSE IF e.op \in {"AND", "OR"}
             THEN IF left[1] # "bool" THEN Error
                  ELSE IF left = Bool(e.op = "OR") THEN left
                  ELSE IF right[1] # "bool" THEN Error ELSE right
             ELSE IF right = Error THEN Error
             ELSE IF e.op = "=" THEN ValuesEqual(left, right)
             ELSE IF e.op = "!=" THEN Negated(ValuesEqual(left, right))
             ELSE CompareOrdered(e.op, left, right)

EvaluatePredicate(where, row) ==
  IF where = <<>> THEN True
  ELSE LET v == Evaluate(where[1], row) IN IF v[1] = "bool" THEN v ELSE Error
-----------------------------------------------------------------------------
(* The choice of an index. *)

RECURSIVE FlattenAnd(_)
FlattenAnd(e) ==
  IF e.kind = "binary" /\ e.op = "AND" THEN FlattenAnd(e.left) \o FlattenAnd(e.right) ELSE <<e>>

\* Mutant: the operands are swapped, the operator is not.
NotFlipped(op) == op

FlipComparisonOp(op) ==
  CASE op = "<" -> ">" [] op = ">" -> "<" [] op = "<=" -> ">=" [] op = ">=" -> "<=" [] OTHER -> op

\* A sequence of no or one conjunct.
ExtractIndexableConjunct(e) ==
  LET IsKey(x) == x.kind = "literal" /\ LiteralValue(x.token)[1] = "int64"
      Conjunct(col, op, lit) == <<[column |-> col.name, op |-> op, key |-> LiteralValue(lit.token)[2]]>>
  IN  IF e.kind # "binary" THEN <<>>
      ELSE IF e.op = "OR" THEN <<>>
      ELSE IF e.left.kind = "column" /\ IsKey(e.right) THEN Conjunct(e.left, e.op, e.right)
      ELSE IF e.right.kind = "column" /\ IsKey(e.left) THEN Conjunct(e.right, FlipComparisonOp(e.op), e.left)
      ELSE <<>>

\* The first equality on an indexed column, else the first comparison.
ChosenConjunct(where, indexed) ==
  LET top_is_or == where # <<>> /\ where[1].kind = "binary" /\ where[1].op = "OR"
      conjuncts == IF where = <<>> \/ top_is_or THEN <<>> ELSE FlattenAnd(where[1])
      candidates == SelectSeq(FlattenSeq([i \in DOMAIN conjuncts |-> ExtractIndexableConjunct(conjuncts[i])]),
                              LAMBDA c : c.column \in indexed)
      equalities == SelectSeq(candidates, LAMBDA c : c.op = "=")
  IN  IF equalities # <<>> THEN <<equalities[1]>>
      ELSE IF candidates # <<>> THEN <<candidates[1]>> ELSE <<>>

InRange(key, c) ==
  CASE c.op = "=" -> key = c.key [] c.op = "<" -> key < c.key [] c.op = "<=" -> key <= c.key
    [] c.op = ">" -> key > c.key [] c.op = ">=" -> key >= c.key [] OTHER -> TRUE

\* SeqScan reads the rows in their order.  IndexScan reads them in the order of
\* their keys; rows without a key are not in the index.
Candidates(tuples, chosen) ==
  IF chosen = <<>> THEN tuples
  ELSE LET col == IndexOf(chosen[1].column)
           Key(i) == tuples[i][col][2]
           hits == {i \in DOMAIN tuples : ~IsNull(tuples[i][col]) /\ InRange(Key(i), chosen[1])}
           order == SetToSortSeq(hits, LAMBDA i, j : Key(i) < Key(j) \/ (Key(i) = Key(j) /\ i < j))
       IN  [n \in DOMAIN order |-> tuples[order[n]]]
-----------------------------------------------------------------------------
(* The operators above the scan. *)

\* SortOperator: NULL first, last when descending; stable.
SortsBefore(v, w, descending) ==
  IF IsNull(v) # IsNull(w) THEN (IF descending THEN IsNull(w) ELSE IsNull(v))
  ELSE ~IsNull(v) /\ (IF descending THEN Less(w, v) ELSE Less(v, w))

\* Mutant: the other way round where values are equal.
SortedUnstably(tuples, col, descending) ==
  LET Before(i, j) == SortsBefore(tuples[i][col], tuples[j][col], descending)
      order == SetToSortSeq(DOMAIN tuples, LAMBDA i, j : Before(i, j) \/ (~Before(j, i) /\ i > j))
  IN  [n \in DOMAIN order |-> tuples[order[n]]]

Sorted(tuples, col, descending) ==
  LET Before(i, j) == SortsBefore(tuples[i][col], tuples[j][col], descending)
      order == SetToSortSeq(DOMAIN tuples, LAMBDA i, j : Before(i, j) \/ (~Before(j, i) /\ i < j))
  IN  [n \in DOMAIN order |-> tuples[order[n]]]

\* ProjectOperator: * or the columns up to one that is unknown; Open clears
\* the error that the constructor has set for it.
ColumnPlan(items) ==
  IF items[1].column = "*" THEN [i \in 1 .. Len(Schema) |-> i]
  ELSE LET indices == [i \in DOMAIN items |-> IndexOf(items[i].column)]
           unknown == SelectInSeq(indices, LAMBDA i : i = 0)
       IN  IF unknown = 0 THEN indices ELSE SubSeq(indices, 1, unknown - 1)

Project(tuple, items) ==
  LET indices == ColumnPlan(items) IN [i \in DOMAIN indices |-> tuple[indices[i]]]

\* One row into one accumulator of AggregateOperator.
Accumulate(acc, v) ==
  [count |-> acc.count + 1,
   sum |-> IF Class(v) = "number" THEN acc.sum + v[2] ELSE acc.sum,
   min |-> IF IsNull(acc.min) \/ Less(v, acc.min) THEN v ELSE acc.min,
   max |-> IF IsNull(acc.max) \/ Less(acc.max, v) THEN v ELSE acc.max]

NoRows == [count |-> 0, sum |-> 0, min |-> NullValue, max |-> NullValue]

Takes(v, item) == ~IsNull(v) \/ item.column = "*"

AggregateValue(item, tuples) ==
  LET ValueIn(t) == IF item.column = "*" THEN NullValue ELSE t[IndexOf(item.column)]
      acc == FoldLeft(LAMBDA a, t : IF Takes(ValueIn(t), item) THEN Accumulate(a, ValueIn(t)) ELSE a,
                      NoRows, tuples)
  IN  CASE item.func = "COUNT" -> <<"int64", acc.count>>
        [] item.func = "SUM" -> IF acc.count = 0 THEN NullValue ELSE <<"double", acc.sum>>
        [] item.func = "AVG" -> IF acc.count = 0 THEN NullValue ELSE <<"ratio", <<acc.sum, acc.count>>>>
        [] item.func = "MIN" -> acc.min
        [] item.func = "MAX" -> acc.max

\* Unknown columns are noticed before the first row for SUM and AVG, which also
\* want a number, and at the first row for the others.
AggregateFails(item, tuples) ==
  /\ item.column # "*"
  /\ LET col == IndexOf(item.column)
     IN  IF item.func \in {"SUM", "AVG"}
         THEN col = 0 \/ Schema[col].type \notin {"INT", "BIGINT", "DOUBLE"}
         ELSE col = 0 /\ tuples # <<>>
=============================================================================
