-------------------------------- MODULE MCRepl -------------------------------
(* Repl for TLC: a table of a nullable INT, a BOOLEAN and a VARCHAR(1).      *)
EXTENDS Repl

MCSchema ==
  <<[name |-> "a", type |-> "INT", nullable |-> TRUE, stubborn |-> FALSE, max |-> 255],
    [name |-> "b", type |-> "BOOLEAN", nullable |-> FALSE, stubborn |-> FALSE, max |-> 255],
    [name |-> "c", type |-> "VARCHAR", nullable |-> TRUE, stubborn |-> FALSE, max |-> 1]>>

MCLiteralValue(tok) ==
  CASE tok = "NULL" -> NullValue
    [] tok = "TRUE" -> True [] tok = "FALSE" -> False
    [] tok = "1" -> <<"int64", 1>> [] tok = "2" -> <<"int64", 2>>
    [] tok = "''" -> <<"string", <<>>>> [] tok = "'x'" -> <<"string", <<1>>>>

MCTables ==
  {<<>>,
   <<<<"NULL", "TRUE", "'x'">>, <<"2", "FALSE", "NULL">>, <<"1", "TRUE", "''">>>>,
   <<<<"2", "TRUE", "''">>, <<"1", "FALSE", "'x'">>, <<"2", "FALSE", "NULL">>>>}

Where(items) == <<"SELECT">> \o items \o <<"FROM", "t", "WHERE">>
MCSessions ==
  {\* characters
   [head |-> <<>>, chars |-> TRUE, stubborn |-> FALSE, max |-> 6, words |-> {"x", "'", ";", "-", " ", "\n"}],
   [head |-> <<>>, chars |-> TRUE, stubborn |-> FALSE, max |-> 5,
    words |-> {"x", "1", ".", "<", ">", "=", "!"}],
   \* the shape of expressions
   [head |-> <<"DELETE", "FROM", "t", "WHERE">>, chars |-> FALSE, stubborn |-> TRUE, max |-> 6,
    words |-> {"a", "=", "AND", "OR", "(", ")"}],
   [head |-> <<"DELETE", "FROM", "t", "WHERE">>, chars |-> FALSE, stubborn |-> FALSE, max |-> 7,
    words |-> {"a", "1", "=", "AND", "OR", "(", ")"}],
   \* the other statements
   [head |-> <<>>, chars |-> FALSE, stubborn |-> FALSE, max |-> 6,
    words |-> {"a", "t", "SELECT", "INSERT", "UPDATE", "DELETE", "CREATE", "DROP", "TABLE", "INDEX", "SET",
               "INTO", "VALUES", "FROM", "ON", "=", "1", "(", ")", ",", "INT", "*", "COUNT", "AS", ";"}],
   [head |-> <<"CREATE", "TABLE", "t", "(", "a">>, chars |-> FALSE, stubborn |-> FALSE, max |-> 6,
    words |-> {"b", "INT", "VARCHAR", "NOT", "NULL", "1", "(", ")", ",", ";"}],
   [head |-> <<"INSERT", "INTO", "t">>, chars |-> FALSE, stubborn |-> FALSE, max |-> 7,
    words |-> {"a", "VALUES", "1", "NULL", "(", ")", ","}],
   [head |-> <<"UPDATE", "t", "SET", "a">>, chars |-> FALSE, stubborn |-> FALSE, max |-> 6,
    words |-> {"b", "=", "1", "NULL", "WHERE", "a", ",", ";"}],
   \* queries
   [head |-> Where(<<"*">>), chars |-> FALSE, stubborn |-> FALSE, max |-> 6,
    words |-> {"a", "b", "1", "2", "=", "<", "!=", "AND", "OR", ";"}],
   [head |-> Where(<<"*">>), chars |-> FALSE, stubborn |-> FALSE, max |-> 8,
    words |-> {"a", "b", "1", "2", "=", "<", "AND", ";"}],
   [head |-> Where(<<"a", ",", "c">>), chars |-> FALSE, stubborn |-> FALSE, max |-> 4,
    words |-> {"a", "c", "NULL", "'x'", "1", "=", "<", ">=", ";"}],
   [head |-> <<"SELECT", "*", "FROM", "t">>, chars |-> FALSE, stubborn |-> FALSE, max |-> 7,
    words |-> {"WHERE", "a", "b", "ORDER", "BY", "DESC", "ASC", "LIMIT", "1", ";"}],
   [head |-> <<"SELECT", "COUNT", "(", "a", ")", ",">>, chars |-> FALSE, stubborn |-> FALSE, max |-> 10,
    words |-> {"SUM", "MAX", "MIN", "AVG", "(", ")", "a", "b", "FROM", "t", "WHERE", ";"}],
   [head |-> <<"SELECT", "COUNT", "(", "*", ")", "FROM", "t", "WHERE">>, chars |-> FALSE, stubborn |-> FALSE, max |-> 6,
    words |-> {"1", "<=", ">", "a", "b", "OR", ";"}]}
=============================================================================
