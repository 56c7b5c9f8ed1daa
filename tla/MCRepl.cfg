CONSTANTS
  Idents = {"a", "b", "c", "t"}
  Literals = {"NULL", "TRUE", "FALSE", "1", "2", "''", "'x'"}
  IntLiterals = {"1", "2"}
  Int32Max = 2
  Schema <- MCSchema
  LiteralValue <- MCLiteralValue
  TableName = "t"
  Sessions <- MCSessions
  Tables <- MCTables
  IndexedColumns = {"a"}
SPECIFICATION Spec
INVARIANTS ParserExact NothingIgnored  TerminatorExact RecordsReadBack AnswerExact ErrorsExact SortedStably
CHECK_DEADLOCK FALSE
