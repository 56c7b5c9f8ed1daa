------------------------------- MODULE Database ------------------------------
(***************************************************************************)
(* The database under its SQL statements: database.hpp, TableManager,      *)
(* RecordManager, and the statements of executor/executor.cpp that change  *)
(* it, with the indexes they maintain.  Statements run one at a time; the  *)
(* rows of a statement are steps of their own, in which it may fail or the *)
(* process die.                                                            *)
(*                                                                         *)
(* heaps[p] is the heap file whose first page is p: the record store that  *)
(* HeapFile implements, here of one page.  A record id <<p, s>> can be     *)
(* read whatever table asks.  trees[m] is the bag of entries that the B+   *)
(* tree with meta page m holds, which is what BPlusTree shows of trees     *)
(* without a leaf full of one key.  A row is a nullable key and a length.  *)
(***************************************************************************)
EXTENDS Catalog, Sequences

CONSTANTS Keys, Null,
          Lengths, TooLong,  \* lengths of rows; TooLong does not fit a page
          Slots,             \* bound: records of a heap file
          Inserts,           \* the VALUES of INSERT: sequences of rows
          MaxHeaps, MaxTrees, MaxStatements,
          MaxWriteBacks      \* bound: pages evicted between two flushes

VARIABLES heaps, trees, stmt, count, disk, writes, stale, crashed, safe

dbVars == <<catalogVars, heaps, trees, stmt, count, disk, writes, stale, crashed, safe>>

Rows == [key : Keys \cup {Null}, len : Lengths]

ASSUME DatabaseAssumption ==
  /\ Null \notin Keys
  /\ TooLong \in Lengths
  /\ Slots \subseteq Nat \ {0}
  /\ Inserts \subseteq Seq(Rows) \ {<<>>}

Idle == [kind |-> "none"]

HeapOf(n) == heaps[tables[n].first]

\* A table whose only page was lost in a crash is not used again here.
Usable(n) == n \in DOMAIN tables /\ Readable(HeapOf(n))

\* TableManager::Scan, and GetRow, which does not ask whose page it is.
TableRids(n) == {<<tables[n].first, s>> : s \in Rids(HeapOf(n))}
HasRow(rid) == rid[2] \in Rids(heaps[rid[1]])
GetRow(rid) == heaps[rid[1]][rid[2]]

Init ==
  /\ EmptyCatalog
  /\ heaps = <<>>
  /\ trees = <<>>
  /\ stmt = Idle
  /\ count = 0
  /\ disk = [table_rows |-> NoPage, index_rows |-> NoPage, heaps |-> <<>>]
  /\ writes = 0
  /\ stale = {}
  /\ crashed = FALSE
  /\ safe = {}

Begin ==
  /\ stmt = Idle
  /\ count < MaxStatements
  /\ count' = count + 1

\* The heap file is made before the name is looked up: if the table exists,
\* its page is never used.
ExecuteCreateTable(n) ==
  /\ Begin
  /\ Len(heaps) < MaxHeaps
  /\ heaps' = Append(heaps, <<>>)
  /\ disk' = [disk EXCEPT !.heaps = Append(@, NoPage)]
  /\ \/ /\ n \in DOMAIN tables
        /\ UNCHANGED <<tables, table_rows, next_table_id>>
     \/ /\ n \notin DOMAIN tables
        /\ AddTable(n, Len(heaps) + 1)
  /\ UNCHANGED <<indexes, index_rows, next_index_id, trees, stmt, writes, stale, crashed, safe>>

\* The indexes of the table stay in the catalog.
ExecuteDropTable(n) ==
  /\ Begin
  /\ RemoveTable(n)
  /\ stale' = stale \cup {indexes[i].root : i \in IndexesForTable(n)}
  /\ safe' = {r \in safe : r.table # n}
  /\ UNCHANGED <<indexes, index_rows, next_table_id, next_index_id, heaps, trees, stmt, disk, writes, crashed>>

Indexed(rids) == {rid \in rids : GetRow(rid).key # Null}

\* BPlusTree::Insert and Delete of a row's key with its record id.  Delete of
\* an entry that is not there changes nothing.
Entered(t, rid, row) ==
  LET e == <<row.key, rid>>
  IN  With(t, e, IF e \in DOMAIN t THEN t[e] + 1 ELSE 1)
Removed(t, rid, row) ==
  LET e == <<row.key, rid>>
  IN  IF e \in DOMAIN t /\ t[e] > 1 THEN [t EXCEPT ![e] = @ - 1] ELSE Without(t, {e})

\* The tree is built before the name is looked up.
ExecuteCreateIndex(i, n) ==
  /\ Begin
  /\ Usable(n)
  /\ Len(trees) < MaxTrees
  /\ trees' = Append(trees, [e \in {<<GetRow(rid).key, rid>> : rid \in Indexed(TableRids(n))} |-> 1])
  /\ \/ /\ i \in DOMAIN indexes
        /\ UNCHANGED <<indexes, index_rows, next_index_id>>
     \/ /\ i \notin DOMAIN indexes
        /\ AddIndex(i, n, Len(trees) + 1)
  /\ UNCHANGED <<tables, table_rows, next_table_id, heaps, stmt, disk, writes, stale, crashed, safe>>

ExecuteDropIndex(i) ==
  /\ Begin
  /\ RemoveIndex(i)
  /\ UNCHANGED <<tables, table_rows, next_table_id, next_index_id, heaps, trees, stmt, disk, writes, stale,
                 crashed, safe>>

\* Every index of the table with a key in the row, one entry each.
MaintainedBy(n, row) ==
  IF row.key = Null THEN {} ELSE {indexes[i].root : i \in IndexesForTable(n)}

\* Mutant: only rows with a new key are entered.
OnInsertOnlyNewKeys(ts, n, row, rid) ==
  [m \in DOMAIN ts |->
     IF m \in MaintainedBy(n, row) /\ ~\E e \in DOMAIN ts[m] : e[1] = row.key
     THEN Entered(ts[m], rid, row) ELSE ts[m]]

MaintainIndexesOnInsert(ts, n, row, rid) ==
  [m \in DOMAIN ts |-> IF m \in MaintainedBy(n, row) THEN Entered(ts[m], rid, row) ELSE ts[m]]

MaintainIndexesOnDelete(ts, n, row, rid) ==
  [m \in DOMAIN ts |-> IF m \in MaintainedBy(n, row) THEN Removed(ts[m], rid, row) ELSE ts[m]]

ExecuteInsert(n, rows) ==
  /\ Begin
  /\ Usable(n)
  /\ stmt' = [kind |-> "insert", table |-> n, todo |-> rows]
  /\ UNCHANGED <<catalogVars, heaps, trees, disk, writes, stale, crashed, safe>>

FreeSlots(p) == Slots \ DOMAIN heaps[p]

Done(s) == IF Tail(s.todo) = <<>> THEN Idle ELSE [s EXCEPT !.todo = Tail(@)]

\* One row of INSERT.  Rows before one that fails stay.
InsertRow ==
  LET n == stmt.table
      row == Head(stmt.todo)
      p == tables[n].first
  IN  /\ stmt.kind = "insert"
      /\ \/ /\ row.len # TooLong
            /\ \E s \in FreeSlots(p) :
                 /\ heaps' = [heaps EXCEPT ![p] = With(@, s, row)]
                 /\ trees' = MaintainIndexesOnInsert(trees, n, row, <<p, s>>)
            /\ stmt' = Done(stmt)
         \/ /\ row.len = TooLong
            /\ stmt' = Idle
            /\ UNCHANGED <<heaps, trees>>
      /\ UNCHANGED <<catalogVars, count, disk, writes, stale, crashed, safe>>

\* The rows that UPDATE and DELETE work on are collected first, and then taken
\* in the order of the scan.
Matches(n, where) == {rid \in TableRids(n) : GetRow(rid).key \in where}

NextMatch(s) == CHOOSE rid \in s.todo : \A q \in s.todo : rid[2] <= q[2]

DoneMatch(s, rid) == IF s.todo = {rid} THEN Idle ELSE [s EXCEPT !.todo = @ \ {rid}]

ExecuteUpdate(n, where, set) ==
  LET matches == Matches(n, where)
  IN  /\ Begin
      /\ stmt' = IF matches = {} THEN Idle
                 ELSE [kind |-> "update", table |-> n, todo |-> matches, set |-> set]
      /\ UNCHANGED <<catalogVars, heaps, trees, disk, writes, stale, crashed, safe>>

Assigned(row, set) == [f \in DOMAIN row |-> IF f \in DOMAIN set THEN set[f] ELSE row[f]]

Unsafe(rid) == {r \in safe : r.rid # rid}

\* Mutant: the new row is entered, the old entry stays.
MovedOnlyAdds(n, old, old_rid, new, rid) == MaintainIndexesOnInsert(trees, n, new, rid)

MovedEntries(n, old, old_rid, new, rid) ==
  MaintainIndexesOnInsert(MaintainIndexesOnDelete(trees, n, old, old_rid), n, new, rid)

\* One row of UPDATE: in place if it is not longer, else deleted and inserted
\* elsewhere.  If the insert fails the row is gone, the statement ends, and
\* its index entries stay.
UpdateRow ==
  LET n == stmt.table
      old_rid == NextMatch(stmt)
      p == old_rid[1]
      old == GetRow(old_rid)
      new == Assigned(old, stmt.set)
  IN  /\ stmt.kind = "update"
      /\ \/ /\ new.len <= old.len
            /\ heaps' = [heaps EXCEPT ![p] = With(@, old_rid[2], new)]
            /\ trees' = MovedEntries(n, old, old_rid, new, old_rid)
            /\ stmt' = DoneMatch(stmt, old_rid)
            /\ UNCHANGED stale
         \/ /\ new.len > old.len /\ new.len # TooLong
            /\ \E s \in FreeSlots(p) \cup {old_rid[2]} :
                 /\ heaps' = [heaps EXCEPT ![p] = With(Without(@, {old_rid[2]}), s, new)]
                 /\ trees' = MovedEntries(n, old, old_rid, new, <<p, s>>)
            /\ stmt' = DoneMatch(stmt, old_rid)
            /\ UNCHANGED stale
         \/ /\ new.len > old.len /\ new.len = TooLong
            /\ heaps' = [heaps EXCEPT ![p] = Without(@, {old_rid[2]})]
            /\ stale' = stale \cup MaintainedBy(n, old)
            /\ stmt' = Idle
            /\ UNCHANGED trees
      /\ safe' = Unsafe(old_rid)
      /\ UNCHANGED <<catalogVars, count, disk, writes, crashed>>

ExecuteDelete(n, where) ==
  LET matches == Matches(n, where)
  IN  /\ Begin
      /\ stmt' = IF matches = {} THEN Idle ELSE [kind |-> "delete", table |-> n, todo |-> matches]
      /\ UNCHANGED <<catalogVars, heaps, trees, disk, writes, stale, crashed, safe>>

DeleteRow ==
  LET rid == NextMatch(stmt)
  IN  /\ stmt.kind = "delete"
      /\ heaps' = [heaps EXCEPT ![rid[1]] = Without(@, {rid[2]})]
      /\ trees' = MaintainIndexesOnDelete(trees, stmt.table, GetRow(rid), rid)
      /\ stmt' = DoneMatch(stmt, rid)
      /\ safe' = Unsafe(rid)
      /\ UNCHANGED <<catalogVars, count, disk, writes, stale, crashed>>
-----------------------------------------------------------------------------
(* What reaches the files. *)

\* A buffer pool evicts a page.
WriteBack ==
  /\ writes < MaxWriteBacks
  /\ writes' = writes + 1
  /\ \/ disk' = [disk EXCEPT !.table_rows = table_rows]
     \/ disk' = [disk EXCEPT !.index_rows = index_rows]
     \/ \E p \in DOMAIN heaps : disk' = [disk EXCEPT !.heaps[p] = heaps[p]]
  /\ UNCHANGED <<catalogVars, heaps, trees, stmt, count, stale, crashed, safe>>

AllRows == UNION {{[table |-> n, rid |-> rid, row |-> GetRow(rid)] : rid \in TableRids(n)} : n \in DOMAIN tables}

\* Mutant: only the catalog is flushed.
FlushedCatalogOnly == [disk EXCEPT !.table_rows = table_rows, !.index_rows = index_rows]

Flushed == [table_rows |-> table_rows, index_rows |-> index_rows, heaps |-> heaps]

\* Database::FlushAll to its end; ended earlier it is some write-backs.
FlushAll ==
  /\ stmt = Idle
  /\ disk' = Flushed
  /\ writes' = 0
  /\ safe' = AllRows
  /\ UNCHANGED <<catalogVars, heaps, trees, stmt, count, stale, crashed>>

\* The process ends after FlushAll and starts again ...
Restart ==
  /\ stmt = Idle
  /\ LoadCatalog(table_rows, index_rows)
  /\ disk' = Flushed
  /\ writes' = 0
  /\ safe' = AllRows
  /\ UNCHANGED <<heaps, trees, stmt, count, stale, crashed>>

\* ... or anywhere without.  Nothing is said of the B+ trees then.
Crash ==
  /\ LoadCatalog(disk.table_rows, disk.index_rows)
  /\ heaps' = disk.heaps
  /\ trees' = [m \in DOMAIN trees |-> <<>>]
  /\ stmt' = Idle
  /\ crashed' = TRUE
  /\ UNCHANGED <<count, disk, writes, stale, safe>>

Wheres == {Keys \cup {Null}} \cup {{k} : k \in Keys}
Sets == {[key |-> k] : k \in Keys \cup {Null}} \cup {[len |-> l] : l \in Lengths}

Next ==
  \/ \E n \in TableNames :
       \/ ExecuteCreateTable(n)
       \/ ExecuteDropTable(n)
       \/ \E i \in IndexNames : ExecuteCreateIndex(i, n)
       \/ \E rows \in Inserts : ExecuteInsert(n, rows)
       \/ Usable(n) /\ \E where \in Wheres : ExecuteDelete(n, where)
       \/ Usable(n) /\ \E where \in Wheres, set \in Sets : ExecuteUpdate(n, where, set)
  \/ \E i \in IndexNames : ExecuteDropIndex(i)
  \/ InsertRow \/ UpdateRow \/ DeleteRow
  \/ WriteBack \/ FlushAll \/ Restart \/ Crash

Spec == Init /\ [][Next]_dbVars
-----------------------------------------------------------------------------
\* Type invariant.
Metas == [id : Nat, name : TableNames, first : Nat, rid : Nat]
IndexMetas == [id : Nat, name : IndexNames, table : TableNames, root : Nat, rid : Nat]
Heaps == {NoPage} \cup UNION {[S -> Rows] : S \in SUBSET Slots}
Trees == UNION {[S -> Nat \ {0}] : S \in SUBSET (Keys \X (Nat \X Slots))}

TypeOK ==
  /\ heaps \in Seq(Heaps) /\ disk.heaps \in Seq(Heaps)
  /\ trees \in Seq(Trees)
  /\ tables \in [DOMAIN tables -> Metas] /\ DOMAIN tables \subseteq TableNames
  /\ indexes \in [DOMAIN indexes -> IndexMetas] /\ DOMAIN indexes \subseteq IndexNames
  /\ next_table_id \in Nat \ {0} /\ next_index_id \in Nat \ {0}
  /\ \/ stmt = Idle
     \/ stmt.kind = "insert" /\ stmt.todo \in Seq(Rows) \ {<<>>}
     \/ stmt.kind \in {"update", "delete"} /\ stmt.todo \subseteq TableRids(stmt.table)

KeyRows(n, key) == {rid \in TableRids(n) : GetRow(rid).key = key}

\* IndexScan for a key, with the filter on top: rids whose row cannot be read
\* are skipped.
IndexScan(i, key) ==
  LET t == trees[indexes[i].root]
      hits == {e \in DOMAIN t : e[1] = key /\ HasRow(e[2]) /\ GetRow(e[2]).key = key}
  IN  [rid \in {e[2] : e \in hits} |-> t[<<key, rid>>]]

\* A query through an index misses no row that a sequential scan finds: after
\* any statements, statements that failed half way, rows that moved, and
\* tables dropped and created again over a surviving index
\* (executor.cpp:84-106, 182-289).
IndexMissesNothing ==
  stmt = Idle /\ ~crashed =>
    \A n \in DOMAIN tables : \A i \in IndexesForTable(n) : \A key \in Keys :
       KeyRows(n, key) \subseteq DOMAIN IndexScan(i, key)

\* As long as the index's table was not dropped and no UPDATE failed in it,
\* the query returns these rows and no other, each once
\* (executor.cpp:84-106, 143-172, 252-253).
IndexAddsNothing ==
  stmt = Idle /\ ~crashed =>
    \A n \in DOMAIN tables : \A i \in IndexesForTable(n) : indexes[i].root \notin stale =>
       \A key \in Keys : IndexScan(i, key) = [rid \in KeyRows(n, key) |-> 1]

\* Rows that were there at the end of a FlushAll, in tables not dropped since,
\* and that no UPDATE or DELETE has touched, are found after any crash, between
\* the writes of two files too (database.hpp:33-48).
FlushedRowsSurvive == safe \subseteq AllRows
=============================================================================
