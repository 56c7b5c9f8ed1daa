------------------------------- MODULE Catalog -------------------------------
(***************************************************************************)
(* CatalogManager (catalog/catalog_manager.cpp): tables and indexes in     *)
(* memory, and the rows of the two heap files of catalog.db that a restart *)
(* loads them from.                                                        *)
(*                                                                         *)
(* table_rows and index_rows are those heap files as the record stores     *)
(* that HeapFile implements: functions from record ids to metadata.  A     *)
(* row's encoding keeps all its fields.  A heap file whose first page was  *)
(* never written is NoPage after a restart: it reads as empty, and inserts *)
(* fail for good.                                                          *)
(***************************************************************************)
EXTENDS Integers, Functions

CONSTANTS TableNames, IndexNames,
          CatalogRids   \* bound: record ids of a catalog heap file

ASSUME CatalogAssumption == CatalogRids \subseteq Nat \ {0}

VARIABLES tables, indexes, table_rows, index_rows, next_table_id, next_index_id

catalogVars == <<tables, indexes, table_rows, index_rows, next_table_id, next_index_id>>

Without(m, keys) == Restrict(m, DOMAIN m \ keys)
With(m, key, v) == [k \in DOMAIN m \cup {key} |-> IF k = key THEN v ELSE m[k]]

\* There is no slot 0.
NoPage == [s \in {0} |-> 0]
Readable(rows) == 0 \notin DOMAIN rows
Rids(rows) == DOMAIN rows \ {0}

Named(rows, n) == {r \in Rids(rows) : rows[r].name = n}
LastOf(S) == CHOOSE r \in S : \A q \in S : q <= r

\* LoadTablesFromDisk and LoadIndexesFromDisk: of two rows with one name the
\* one that the scan sees last wins.
LoadedFrom(rows) ==
  [n \in {rows[r].name : r \in Rids(rows)} |->
     LET last == LastOf(Named(rows, n))
     IN  [rows[last] EXCEPT !.rid = last]]

NextIdAfter(rows) == LastOf({rows[r].id : r \in Rids(rows)} \cup {0}) + 1

EmptyCatalog ==
  /\ tables = <<>> /\ indexes = <<>>
  /\ table_rows = <<>> /\ index_rows = <<>>
  /\ next_table_id = 1 /\ next_index_id = 1

\* CreateTable, after the check of the name.  The row goes to some free
\* record id; the field rid is not part of the encoding.
AddTable(n, first_page) ==
  LET meta == [id |-> next_table_id, name |-> n, first |-> first_page, rid |-> 0]
  IN  /\ next_table_id' = next_table_id + 1
      /\ \/ /\ Readable(table_rows)
            /\ \E rid \in CatalogRids \ DOMAIN table_rows :
                 /\ table_rows' = With(table_rows, rid, meta)
                 /\ tables' = With(tables, n, [meta EXCEPT !.rid = rid])
         \/ /\ ~Readable(table_rows)
            /\ UNCHANGED <<table_rows, tables>>

\* Mutant: the row of a dropped table stays in the heap file.
KeepTableRow(n) == table_rows

TableRowsWithout(n) == Without(table_rows, {tables[n].rid})

RemoveTable(n) ==
  /\ n \in DOMAIN tables
  /\ table_rows' = TableRowsWithout(n)
  /\ tables' = Without(tables, {n})

AddIndex(i, n, meta_page) ==
  LET meta == [id |-> next_index_id, name |-> i, table |-> n, root |-> meta_page, rid |-> 0]
  IN  /\ next_index_id' = next_index_id + 1
      /\ \/ /\ Readable(index_rows)
            /\ \E rid \in CatalogRids \ DOMAIN index_rows :
                 /\ index_rows' = With(index_rows, rid, meta)
                 /\ indexes' = With(indexes, i, [meta EXCEPT !.rid = rid])
         \/ /\ ~Readable(index_rows)
            /\ UNCHANGED <<index_rows, indexes>>

RemoveIndex(i) ==
  /\ i \in DOMAIN indexes
  /\ index_rows' = Without(index_rows, {indexes[i].rid})
  /\ indexes' = Without(indexes, {i})

\* The constructor over existing heap files.
LoadCatalog(trows, irows) ==
  /\ table_rows' = trows
  /\ index_rows' = irows
  /\ tables' = LoadedFrom(trows)
  /\ indexes' = LoadedFrom(irows)
  /\ next_table_id' = NextIdAfter(trows)
  /\ next_index_id' = NextIdAfter(irows)

\* GetIndexesForTable goes by the name.
IndexesForTable(n) == {i \in DOMAIN indexes : indexes[i].table = n}
-----------------------------------------------------------------------------
\* The tables and indexes in memory are those a restart would load from the
\* catalog's heap files, under the record ids by which they can be dropped,
\* and the ids to be given out next are larger than all in use, after any
\* creations, drops and restarts (catalog_manager.cpp:117-165, 234-285).
CatalogReloads ==
  /\ tables = LoadedFrom(table_rows)
  /\ indexes = LoadedFrom(index_rows)
  /\ \A n \in DOMAIN tables : tables[n].id < next_table_id
  /\ \A n, m \in DOMAIN tables : tables[n].id = tables[m].id => n = m
  /\ \A i \in DOMAIN indexes : indexes[i].id < next_index_id
  /\ \A i, j \in DOMAIN indexes : indexes[i].id = indexes[j].id => i = j
=============================================================================
