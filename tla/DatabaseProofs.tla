---------------------------- MODULE DatabaseProofs ---------------------------
(***************************************************************************)
(* The catalog, the flushed rows and the indexes of Database.tla, for all  *)
(* names, rows and numbers of statements.                                  *)
(*                                                                         *)
(* First the inductive invariant and what a row inserted, updated or       *)
(* deleted by a statement does to it, then the other statements, the       *)
(* flushes and the restarts.                                               *)
(***************************************************************************)
EXTENDS Database, WellFoundedInduction, TLAPS

(***************************************************************************)
(* The inductive invariant.                                                *)
(***************************************************************************)

\* A heap file of the catalog: rows of a table of metadata, with their own
\* names and ids, all ids below `next'.
CatalogFile(rows, metas, next) ==
  /\ rows = NoPage \/ (rows \in [DOMAIN rows -> metas] /\ DOMAIN rows \subseteq CatalogRids)
  /\ \A r, q \in Rids(rows) :
       rows[r].name = rows[q].name \/ rows[r].id = rows[q].id => r = q
  /\ \A r \in Rids(rows) : rows[r].id < next

\* Every table has a heap file of its own, and every index a tree.
OwnHeaps(rows, hs) ==
  /\ \A r \in Rids(rows) : rows[r].first \in DOMAIN hs
  /\ \A r, q \in Rids(rows) : rows[r].first = rows[q].first => r = q

OwnTrees(rows, ts) ==
  /\ \A r \in Rids(rows) : rows[r].root \in DOMAIN ts
  /\ \A r, q \in Rids(rows) : rows[r].root = rows[q].root => r = q

CatalogInv ==
  /\ tables = LoadedFrom(table_rows) /\ indexes = LoadedFrom(index_rows)
  /\ next_table_id \in Nat \ {0} /\ next_index_id \in Nat \ {0}
  /\ CatalogFile(table_rows, Metas, next_table_id)
  /\ CatalogFile(index_rows, IndexMetas, next_index_id)
  /\ CatalogFile(disk.table_rows, Metas, next_table_id)
  /\ CatalogFile(disk.index_rows, IndexMetas, next_index_id)

\* The pages that the catalog names exist, in memory and on disk.
FileInv ==
  /\ disk = [table_rows |-> disk.table_rows, index_rows |-> disk.index_rows,
             heaps |-> disk.heaps]
  /\ heaps \in Seq(Heaps) /\ disk.heaps \in Seq(Heaps) /\ Len(disk.heaps) = Len(heaps)
  /\ trees \in Seq(Trees)
  /\ OwnHeaps(table_rows, heaps) /\ OwnHeaps(disk.table_rows, heaps)
  /\ OwnTrees(index_rows, trees) /\ OwnTrees(disk.index_rows, trees)

\* What a statement still has to do is there.
StatementInv ==
  \/ stmt = Idle
  \/ /\ stmt.kind = "insert"
     /\ stmt = [kind |-> "insert", table |-> stmt.table, todo |-> stmt.todo]
     /\ Usable(stmt.table) /\ stmt.todo \in Seq(Rows) \ {<<>>}
  \/ /\ stmt.kind = "update"
     /\ stmt = [kind |-> "update", table |-> stmt.table, todo |-> stmt.todo, set |-> stmt.set]
     /\ stmt.table \in DOMAIN tables
     /\ stmt.todo \subseteq TableRids(stmt.table) /\ stmt.todo # {}
     /\ stmt.set \in Sets
  \/ /\ stmt.kind = "delete"
     /\ stmt = [kind |-> "delete", table |-> stmt.table, todo |-> stmt.todo]
     /\ stmt.table \in DOMAIN tables
     /\ stmt.todo \subseteq TableRids(stmt.table) /\ stmt.todo # {}

\* Row r is found through the catalog rows and the heap files hs.
Found(r, rows, hs) ==
  \E k \in Rids(rows) :
    /\ rows[k].name = r.table
    /\ r.rid[1] = rows[k].first
    /\ r.rid[2] \in Rids(hs[r.rid[1]])
    /\ r.row = hs[r.rid[1]][r.rid[2]]

SafeInv ==
  \A r \in safe :
    /\ r = [table |-> r.table, rid |-> <<r.rid[1], r.rid[2]>>, row |-> r.row]
    /\ Found(r, table_rows, heaps)
    /\ Found(r, disk.table_rows, disk.heaps)

\* Tree t has an entry for every row with a key of heap file h at page p ...
Covers(t, h, p) ==
  \A s \in Rids(h) : h[s].key # Null => <<h[s].key, <<p, s>>>> \in DOMAIN t

\* ... and no other, each once.
Exact(t, h, p) ==
  \A e \in DOMAIN t :
    t[e] = 1 /\ \E s \in Rids(h) : h[s].key # Null /\ e = <<h[s].key, <<p, s>>>>

\* Every index covers its table, if there is one; it is exact until the table
\* is dropped or an UPDATE fails in it.
IndexInv ==
  ~crashed => \A i \in DOMAIN indexes :
    LET n == indexes[i].table
        t == trees[indexes[i].root]
    IN  /\ n \in DOMAIN tables => Covers(t, HeapOf(n), tables[n].first)
        /\ indexes[i].root \notin stale =>
             n \in DOMAIN tables /\ Exact(t, HeapOf(n), tables[n].first)

DBInv == CatalogInv /\ FileInv /\ StatementInv /\ SafeInv /\ IndexInv

-----------------------------------------------------------------------------
(* Maps, and the rows of the catalog. *)

\* A map with one entry less.
LEMMA WithoutFacts ==
  ASSUME NEW m, NEW k
  PROVE  /\ \A x : x \in DOMAIN Without(m, {k}) <=> x \in DOMAIN m /\ x # k
         /\ \A x \in DOMAIN m : x # k => Without(m, {k})[x] = m[x]
BY Zenon DEF Without, Restrict

\* A set of natural numbers has a least element, and a greatest one if it is
\* bounded.
LEMMA LeastExists ==
  ASSUME NEW T, T \subseteq Nat, T # {}
  PROVE  \E s \in T : \A t \in T : s <= t
<1>1. PICK x \in T : \A y \in T : ~(<<y, x>> \in OpToRel(<, Nat))
  BY NatLessThanWellFounded, WFMin, Zenon
<1>2. \A y \in T : ~(y < x)
  BY <1>1, Zenon DEF OpToRel
<1> QED
  BY <1>2

\* A bounded set of numbers has a last one, which LastOf finds: the row that a
\* scan of the catalog sees last.
LEMMA LastOfBounded ==
  ASSUME NEW S, S \subseteq Nat, S # {}, NEW b \in Nat, \A x \in S : x <= b
  PROVE  LastOf(S) \in S /\ \A x \in S : x <= LastOf(S)
<1> DEFINE U == {n \in Nat : \A x \in S : x <= n}
<1>1. b \in U /\ U \subseteq Nat
  BY Zenon
<1>2. PICK l \in U : \A u \in U : l <= u
  BY <1>1, LeastExists, Zenon
<1>3. l \in S
  <2>1. SUFFICES ASSUME l \notin S PROVE FALSE
    BY Zenon
  <2>2. \A x \in S : x < l
    BY <1>2, <2>1
  <2>3. l - 1 \in Nat
    <3>1. PICK x \in S : TRUE
      BY Zenon
    <3>2. x \in Nat /\ x < l /\ l \in Nat
      BY <1>2, <2>2, <3>1, Zenon
    <3> QED BY <3>2
  <2>4. l - 1 \in U
    BY <2>2, <2>3
  <2> QED
    BY <1>2, <2>3, <2>4
<1>4. \E r \in S : \A q \in S : q <= r
  BY <1>2, <1>3, Zenon
<1> QED
  BY <1>4, Zenon DEF LastOf

\* The heap files of the catalog have no slot 0.
LEMMA RidsAreNat ==
  ASSUME NEW rows, NEW metas, NEW next, CatalogFile(rows, metas, next)
  PROVE  /\ Rids(rows) \subseteq Nat
         /\ Rids(rows) \subseteq CatalogRids
         /\ Rids(rows) \subseteq DOMAIN rows
         /\ \A r \in Rids(rows) : rows[r] \in metas
         /\ Readable(rows) => Rids(rows) = DOMAIN rows
<1>1. CASE rows = NoPage
  BY <1>1, Zenon DEF NoPage, Rids, Readable
<1>2. CASE rows # NoPage
  BY <1>2, CatalogAssumption, Zenon DEF CatalogFile, Rids, Readable
<1> QED BY <1>1, <1>2, Zenon

\* What the constructor loads: the rows under their names.
LEMMA LoadedRows ==
  ASSUME NEW rows, NEW metas, NEW next, CatalogFile(rows, metas, next)
  PROVE  /\ \A n : n \in DOMAIN LoadedFrom(rows) <=> \E r \in Rids(rows) : n = rows[r].name
         /\ \A r \in Rids(rows) :
              LoadedFrom(rows)[rows[r].name] = [rows[r] EXCEPT !.rid = r]
<1>1. Rids(rows) \subseteq Nat
  BY RidsAreNat, Zenon
<1>2. ASSUME NEW r \in Rids(rows)
      PROVE  LastOf(Named(rows, rows[r].name)) = r
  <2>1. Named(rows, rows[r].name) = {r}
    BY <1>2, Zenon DEF Named, CatalogFile
  <2> QED BY <1>1, <2>1 DEF LastOf
<1> QED BY <1>2, Zenon DEF LoadedFrom

\* A row more, of a new name.
LEMMA LoadedWith ==
  ASSUME NEW rows, NEW metas, NEW next, CatalogFile(rows, metas, next),
         NEW k, NEW m, NEW last, k \notin DOMAIN rows, k # 0,
         CatalogFile(With(rows, k, m), metas, last)
  PROVE  LoadedFrom(With(rows, k, m)) = With(LoadedFrom(rows), m.name, [m EXCEPT !.rid = k])
<1> DEFINE new == With(rows, k, m)
<1>0. /\ DOMAIN new = DOMAIN rows \cup {k} /\ new[k] = m
      /\ \A r \in DOMAIN rows : r # k => new[r] = rows[r]
  BY Zenon DEF With
<1>1. Rids(new) = Rids(rows) \cup {k} /\ new[k] = m /\ \A r \in Rids(rows) : new[r] = rows[r]
  BY <1>0, Zenon DEF Rids
<1> HIDE DEF new
<1>2. CatalogFile(new, metas, last)
  BY Zenon DEF new
<1>3. ASSUME NEW r \in Rids(rows) PROVE rows[r].name # m.name
  BY <1>1, <1>2, <1>3, Zenon DEF CatalogFile, Rids
<1>4. DOMAIN LoadedFrom(new) = DOMAIN LoadedFrom(rows) \cup {m.name}
  <2>1. ASSUME NEW n PROVE n \in DOMAIN LoadedFrom(new) <=> \E r \in Rids(new) : n = new[r].name
    BY <1>2, LoadedRows, Zenon
  <2>2. ASSUME NEW n PROVE n \in DOMAIN LoadedFrom(rows) <=> \E r \in Rids(rows) : n = rows[r].name
    BY LoadedRows, Zenon
  <2>3. ASSUME NEW n \in DOMAIN LoadedFrom(new) PROVE n \in DOMAIN LoadedFrom(rows) \cup {m.name}
    <3>1. PICK r \in Rids(new) : n = new[r].name
      BY <2>1, <2>3, Zenon
    <3>2. CASE r = k
      BY <1>1, <3>1, <3>2, Zenon
    <3>3. CASE r # k
      <4>1. r \in Rids(rows) /\ n = rows[r].name
        BY <1>1, <3>1, <3>3, Zenon
      <4> QED BY <2>2, <4>1, Zenon
    <3> QED BY <3>2, <3>3, Zenon
  <2>4. ASSUME NEW n \in DOMAIN LoadedFrom(rows) PROVE n \in DOMAIN LoadedFrom(new)
    BY <1>1, <2>1, <2>2, <2>4
  <2>5. m.name \in DOMAIN LoadedFrom(new)
    BY <1>1, <2>1, Zenon
  <2> QED BY <2>3, <2>4, <2>5, Zenon
<1>5. LoadedFrom(new)[m.name] = [m EXCEPT !.rid = k]
  BY <1>1, <1>2, LoadedRows, Zenon
<1>6. ASSUME NEW n \in DOMAIN LoadedFrom(rows)
      PROVE  LoadedFrom(new)[n] = LoadedFrom(rows)[n] /\ n # m.name
  <2>1. PICK r \in Rids(rows) : n = rows[r].name
    BY LoadedRows, Zenon
  <2>2. r \in Rids(new) /\ new[r] = rows[r] /\ n # m.name
    BY <1>1, <1>3, <2>1, Zenon
  <2>3. LoadedFrom(new)[new[r].name] = [new[r] EXCEPT !.rid = r]
    BY <1>2, <2>2, LoadedRows, Zenon
  <2>4. LoadedFrom(rows)[rows[r].name] = [rows[r] EXCEPT !.rid = r]
    BY LoadedRows, Zenon
  <2> QED BY <2>1, <2>2, <2>3, <2>4, Zenon
<1>7. LoadedFrom(new) = [n \in DOMAIN LoadedFrom(new) |-> LoadedFrom(new)[n]]
  BY Zenon DEF LoadedFrom
<1>8. LoadedFrom(new) = With(LoadedFrom(rows), m.name, [m EXCEPT !.rid = k])
  BY <1>4, <1>5, <1>6, <1>7, Zenon DEF With
<1> QED BY <1>8, Zenon DEF new

\* A row less.
LEMMA LoadedWithout ==
  ASSUME NEW rows, NEW metas, NEW next, CatalogFile(rows, metas, next),
         NEW k \in Rids(rows)
  PROVE  /\ CatalogFile(Without(rows, {k}), metas, next)
         /\ Rids(Without(rows, {k})) = Rids(rows) \ {k}
         /\ LoadedFrom(Without(rows, {k})) = Without(LoadedFrom(rows), {rows[k].name})
<1> DEFINE new == Without(rows, {k})
<1>1. Rids(new) = Rids(rows) \ {k} /\ \A r \in Rids(new) : new[r] = rows[r]
  BY Zenon DEF Rids, Without, Restrict
<1>2. rows # NoPage
  BY Zenon DEF NoPage, Rids
<1>3. rows \in [DOMAIN rows -> metas] /\ DOMAIN rows \subseteq CatalogRids
  BY <1>2, Zenon DEF CatalogFile
<1>4. new \in [DOMAIN new -> metas] /\ DOMAIN new \subseteq CatalogRids
  BY <1>3, WithoutFacts, Zenon DEF Without, Restrict
<1> HIDE DEF new
<1>5. CatalogFile(new, metas, next)
  BY <1>1, <1>4, Zenon DEF CatalogFile
<1>6. \A r \in Rids(rows) : rows[r].name = rows[k].name => r = k
  BY Zenon DEF CatalogFile
<1>7. DOMAIN LoadedFrom(new) = DOMAIN LoadedFrom(rows) \ {rows[k].name}
  <2>1. ASSUME NEW n PROVE n \in DOMAIN LoadedFrom(new) <=> \E r \in Rids(new) : n = new[r].name
    BY <1>5, LoadedRows, Zenon
  <2>2. ASSUME NEW n PROVE n \in DOMAIN LoadedFrom(rows) <=> \E r \in Rids(rows) : n = rows[r].name
    BY LoadedRows, Zenon
  <2>3. ASSUME NEW n \in DOMAIN LoadedFrom(new)
        PROVE  n \in DOMAIN LoadedFrom(rows) /\ n # rows[k].name
    <3>1. PICK r \in Rids(new) : n = new[r].name
      BY <2>1, <2>3, Zenon
    <3>2. r \in Rids(rows) /\ r # k /\ n = rows[r].name
      BY <1>1, <3>1, Zenon
    <3> QED BY <1>6, <2>2, <3>2, Zenon
  <2>4. ASSUME NEW n \in DOMAIN LoadedFrom(rows), n # rows[k].name
        PROVE  n \in DOMAIN LoadedFrom(new)
    <3>1. PICK r \in Rids(rows) : n = rows[r].name
      BY <2>2, <2>4, Zenon
    <3>2. r \in Rids(new) /\ n = new[r].name
      BY <1>1, <2>4, <3>1, Zenon
    <3> QED BY <2>1, <3>2, Zenon
  <2> QED BY <2>3, <2>4, Zenon
<1>8. ASSUME NEW n \in DOMAIN LoadedFrom(new)
      PROVE  LoadedFrom(new)[n] = LoadedFrom(rows)[n]
  <2>1. PICK r \in Rids(new) : n = new[r].name
    BY <1>5, LoadedRows, Zenon
  <2>2. r \in Rids(rows) /\ new[r] = rows[r]
    BY <1>1, <2>1, Zenon
  <2>3. LoadedFrom(new)[new[r].name] = [new[r] EXCEPT !.rid = r]
    BY <1>5, <2>1, LoadedRows, Zenon
  <2>4. LoadedFrom(rows)[rows[r].name] = [rows[r] EXCEPT !.rid = r]
    BY <2>2, LoadedRows, Zenon
  <2> QED BY <2>1, <2>2, <2>3, <2>4, Zenon
<1>9. LoadedFrom(new) = [n \in DOMAIN LoadedFrom(new) |-> LoadedFrom(new)[n]]
  BY Zenon DEF LoadedFrom
<1>10. LoadedFrom(new) = Without(LoadedFrom(rows), {rows[k].name})
  BY <1>7, <1>8, <1>9, Zenon DEF Without, Restrict
<1> QED BY <1>1, <1>5, <1>10, Zenon DEF new

\* The ids given out next are above those in the file.
LEMMA NextIdFacts ==
  ASSUME NEW rows, NEW metas, NEW next \in Nat \ {0}, CatalogFile(rows, metas, next),
         \A m \in metas : m.id \in Nat
  PROVE  /\ NextIdAfter(rows) \in Nat \ {0}
         /\ CatalogFile(rows, metas, NextIdAfter(rows))
<1> DEFINE ids == {rows[r].id : r \in Rids(rows)} \cup {0}
<1>1. \A r \in Rids(rows) : rows[r].id \in Nat /\ rows[r].id < next
  BY RidsAreNat, Zenon DEF CatalogFile
<1>2. ids \subseteq Nat /\ ids # {} /\ \A x \in ids : x <= next
  BY <1>1
<1> HIDE DEF ids
<1>3. LastOf(ids) \in ids /\ \A x \in ids : x <= LastOf(ids)
  BY <1>2, LastOfBounded, Zenon
<1>4. NextIdAfter(rows) = LastOf(ids) + 1
  BY Zenon DEF NextIdAfter, ids
<1>5. ASSUME NEW r \in Rids(rows) PROVE rows[r].id < NextIdAfter(rows)
  <2>1. rows[r].id \in ids
    BY Zenon DEF ids
  <2>2. rows[r].id \in Nat /\ LastOf(ids) \in Nat
    BY <1>2, <1>3, <2>1, Zenon
  <2>3. rows[r].id <= LastOf(ids)
    BY <1>3, <2>1, Zenon
  <2> QED BY <1>4, <2>2, <2>3
<1> QED BY <1>2, <1>3, <1>4, <1>5 DEF CatalogFile

\* A row more: a name and an id that are not there yet.
LEMMA RowAdded ==
  ASSUME NEW rows, NEW metas, NEW next \in Nat, CatalogFile(rows, metas, next), Readable(rows),
         NEW k \in CatalogRids \ DOMAIN rows, NEW m \in metas, m.id = next,
         m.name \notin DOMAIN LoadedFrom(rows), \A x \in metas : x.id \in Nat
  PROVE  /\ CatalogFile(With(rows, k, m), metas, next + 1)
         /\ \A r : r \in Rids(With(rows, k, m)) <=> r \in Rids(rows) \/ r = k
         /\ With(rows, k, m)[k] = m
         /\ \A r \in Rids(rows) : With(rows, k, m)[r] = rows[r] /\ r # k
         /\ LoadedFrom(With(rows, k, m)) = With(LoadedFrom(rows), m.name, [m EXCEPT !.rid = k])
<1> DEFINE new == With(rows, k, m)
<1>1. rows # NoPage /\ k # 0 /\ 0 \notin DOMAIN rows
  BY CatalogAssumption, Zenon DEF NoPage, Readable
<1>2. rows \in [DOMAIN rows -> metas] /\ DOMAIN rows \subseteq CatalogRids
  BY <1>1, Zenon DEF CatalogFile
<1>3. /\ new \in [DOMAIN new -> metas] /\ DOMAIN new = DOMAIN rows \cup {k} /\ new[k] = m
      /\ \A r \in DOMAIN rows : new[r] = rows[r] /\ r # k
  BY <1>2, Zenon DEF With
<1> HIDE DEF new
<1>4. /\ \A r : r \in Rids(new) <=> r \in Rids(rows) \/ r = k
      /\ \A r \in Rids(rows) : new[r] = rows[r] /\ r # k
  BY <1>1, <1>3, Zenon DEF Rids
<1>5. ASSUME NEW r \in Rids(rows)
      PROVE  rows[r].name # m.name /\ rows[r].id \in Nat /\ rows[r].id < next
  BY LoadedRows, RidsAreNat, Zenon DEF CatalogFile
<1>6. ASSUME NEW r \in Rids(new), NEW q \in Rids(new),
             new[r].name = new[q].name \/ new[r].id = new[q].id
      PROVE  r = q
  <2>1. CASE r = k \/ q = k
    BY <1>3, <1>4, <1>5, <1>6, <2>1
  <2>2. CASE r # k /\ q # k
    <3>1. r \in Rids(rows) /\ q \in Rids(rows) /\ new[r] = rows[r] /\ new[q] = rows[q]
      BY <1>4, <1>6, <2>2, Zenon
    <3> QED BY <1>6, <3>1, Zenon DEF CatalogFile
  <2> QED BY <2>1, <2>2, Zenon
<1>7. ASSUME NEW r \in Rids(new) PROVE new[r].id < next + 1
  <2>1. CASE r = k
    BY <1>3, <2>1
  <2>2. CASE r # k
    <3>1. r \in Rids(rows) /\ new[r] = rows[r]
      BY <1>4, <1>7, <2>2, Zenon
    <3>2. rows[r].id \in Nat /\ rows[r].id < next
      BY <1>5, <3>1, Zenon
    <3> QED BY <3>1, <3>2
  <2> QED BY <2>1, <2>2, Zenon
<1>8. CatalogFile(new, metas, next + 1)
  BY <1>2, <1>3, <1>6, <1>7, Zenon DEF CatalogFile
<1>9. LoadedFrom(new) = With(LoadedFrom(rows), m.name, [m EXCEPT !.rid = k])
  BY <1>1, <1>8, LoadedWith DEF new
<1> QED BY <1>3, <1>4, <1>8, <1>9, Zenon DEF new

\* A file that is sound stays so when more ids are given out.
LEMMA LaterIds ==
  ASSUME NEW rows, NEW metas, NEW next \in Nat, CatalogFile(rows, metas, next),
         \A x \in metas : x.id \in Nat
  PROVE  CatalogFile(rows, metas, next + 1)
<1>1. ASSUME NEW r \in Rids(rows) PROVE rows[r].id < next + 1
  <2>1. rows[r].id \in Nat /\ rows[r].id < next
    BY RidsAreNat, Zenon DEF CatalogFile
  <2> QED BY <2>1
<1> QED BY <1>1, Zenon DEF CatalogFile

-----------------------------------------------------------------------------
(* The entries of trees. *)

\* The tree with one entry more ...
LEMMA EntryAdded ==
  ASSUME NEW t \in Trees, NEW rid, NEW row, <<row.key, rid>> \in Keys \X (Nat \X Slots)
  PROVE  LET u == Entered(t, rid, row)
             e == <<row.key, rid>>
         IN  /\ u \in Trees
             /\ \A x : x \in DOMAIN u <=> x \in DOMAIN t \/ x = e
             /\ \A x \in DOMAIN t : x # e => u[x] = t[x]
             /\ e \notin DOMAIN t => u[e] = 1
<1> DEFINE u == Entered(t, rid, row)
           e == <<row.key, rid>>
<1>1. PICK S \in SUBSET (Keys \X (Nat \X Slots)) : t \in [S -> Nat \ {0}]
  BY Zenon DEF Trees
<1>2. u = [x \in S \cup {e} |-> IF x = e THEN (IF e \in S THEN t[e] + 1 ELSE 1) ELSE t[x]]
  BY <1>1, Zenon DEF Entered, With
<1>3. \A x \in S : t[x] \in Nat \ {0}
  BY <1>1, Zenon
<1> HIDE DEF u, e
<1>4. ASSUME NEW x \in S \cup {e}
      PROVE  /\ u[x] \in Nat \ {0}
             /\ x \in S /\ x # e => u[x] = t[x]
             /\ x \notin S => u[x] = 1
  BY <1>2, <1>3
<1>5. u \in [S \cup {e} -> Nat \ {0}] /\ S \cup {e} \in SUBSET (Keys \X (Nat \X Slots))
  BY <1>2, <1>4, Zenon DEF e
<1>6. u \in Trees
  BY <1>5, Zenon DEF Trees
<1>7. DOMAIN u = S \cup {e} /\ DOMAIN t = S
  BY <1>1, <1>2, Zenon
<1>8. /\ u \in Trees
      /\ \A x : x \in DOMAIN u <=> x \in DOMAIN t \/ x = e
      /\ \A x \in DOMAIN t : x # e => u[x] = t[x]
      /\ e \notin DOMAIN t => u[e] = 1
  BY <1>4, <1>6, <1>7, Zenon
<1> QED BY <1>8, Zenon DEF u, e

\* ... and with one less, if it is there.
LEMMA EntryRemoved ==
  ASSUME NEW t \in Trees, NEW rid, NEW row
  PROVE  LET u == Removed(t, rid, row)
             e == <<row.key, rid>>
         IN  /\ u \in Trees
             /\ \A x : x # e => (x \in DOMAIN u <=> x \in DOMAIN t)
             /\ \A x \in DOMAIN u : x # e => u[x] = t[x]
             /\ e \in DOMAIN u => e \in DOMAIN t /\ t[e] # 1
<1> DEFINE u == Removed(t, rid, row)
           e == <<row.key, rid>>
<1>1. PICK S \in SUBSET (Keys \X (Nat \X Slots)) : t \in [S -> Nat \ {0}]
  BY Zenon DEF Trees
<1>2. \A x \in S : t[x] \in Nat \ {0}
  BY <1>1, Zenon
<1>3. /\ DOMAIN u = {x \in S : x = e => t[e] > 1}
      /\ u = [x \in DOMAIN u |-> IF x = e THEN t[x] - 1 ELSE t[x]]
  <2>1. CASE e \in S /\ t[e] > 1
    <3>1. u = [t EXCEPT ![e] = t[e] - 1]
      BY <1>1, <2>1, Zenon DEF Removed
    <3> HIDE DEF u, e
    <3> QED BY <1>1, <2>1, <3>1, Zenon
  <2>2. CASE ~(e \in S /\ t[e] > 1)
    <3>1. u = [x \in S \ {e} |-> t[x]]
      BY <1>1, <2>2, Zenon DEF Removed, Without, Restrict
    <3> HIDE DEF u, e
    <3> QED BY <1>1, <2>2, <3>1, Zenon
  <2> QED BY <2>1, <2>2, Zenon
<1> HIDE DEF u, e
<1>5. ASSUME NEW x
      PROVE  /\ x \in DOMAIN u <=> x \in S /\ (x = e => t[e] # 1)
             /\ x \in DOMAIN u => u[x] \in Nat \ {0}
             /\ x \in DOMAIN u /\ x # e => u[x] = t[x]
  BY <1>2, <1>3
<1>6. DOMAIN u \subseteq S /\ u \in [DOMAIN u -> Nat \ {0}]
  BY <1>3, <1>5, Zenon
<1>7. u \in Trees
  BY <1>6, Zenon DEF Trees
<1>8. DOMAIN t = S
  BY <1>1, Zenon
<1>9. /\ u \in Trees
      /\ \A x : x # e => (x \in DOMAIN u <=> x \in DOMAIN t)
      /\ \A x \in DOMAIN u : x # e => u[x] = t[x]
      /\ e \in DOMAIN u => e \in DOMAIN t /\ t[e] # 1
  BY <1>5, <1>7, <1>8, Zenon
<1> QED BY <1>9, Zenon DEF u, e

\* A heap file that can be read: rows by slot.
HeapMap(h) == h \in [DOMAIN h -> Rows] /\ DOMAIN h \subseteq Slots

\* A heap file either has rows in its slots or, its page lost, reads as empty.
LEMMA HeapFacts ==
  ASSUME NEW h \in Heaps
  PROVE  /\ Readable(h) => HeapMap(h) /\ Rids(h) = DOMAIN h
         /\ ~Readable(h) => Rids(h) = {}
         /\ Rids(h) \subseteq Slots
<1>1. CASE h = NoPage
  BY <1>1, Zenon DEF NoPage, Readable, Rids
<1>2. CASE h # NoPage
  <2>1. PICK S \in SUBSET Slots : h \in [S -> Rows]
    BY <1>2, Zenon DEF Heaps
  <2>2. HeapMap(h)
    BY <2>1, Zenon DEF HeapMap
  <2>3. 0 \notin DOMAIN h /\ Rids(h) = DOMAIN h
    BY <2>1, DatabaseAssumption, Zenon DEF Rids
  <2> QED BY <2>2, <2>3, Zenon DEF Readable, HeapMap
<1> QED BY <1>1, <1>2, Zenon

\* A map from slots to rows is a readable heap file.
LEMMA HeapMapFacts ==
  ASSUME NEW h, HeapMap(h)
  PROVE  /\ h \in Heaps /\ Readable(h) /\ Rids(h) = DOMAIN h
         /\ \A s \in DOMAIN h : h[s] \in Rows /\ s \in Slots
BY DatabaseAssumption, Zenon DEF HeapMap, Heaps, Readable, Rids

\* The heap files after an insert and after a delete.
LEMMA HeapWith ==
  ASSUME NEW h, HeapMap(h), NEW s \in Slots, NEW row \in Rows
  PROVE  /\ HeapMap(With(h, s, row))
         /\ \A x : x \in DOMAIN With(h, s, row) <=> x \in DOMAIN h \/ x = s
         /\ With(h, s, row)[s] = row
         /\ \A x \in DOMAIN h : x # s => With(h, s, row)[x] = h[x]
BY Zenon DEF HeapMap, With

\* The heap file after a delete.
LEMMA HeapWithout ==
  ASSUME NEW h, HeapMap(h), NEW s
  PROVE  /\ HeapMap(Without(h, {s}))
         /\ \A x : x \in DOMAIN Without(h, {s}) <=> x \in DOMAIN h /\ x # s
         /\ \A x \in DOMAIN h : x # s => Without(h, {s})[x] = h[x]
BY Zenon DEF HeapMap, Without, Restrict

\* A row and its entry are inserted.
LEMMA InsertEntry ==
  ASSUME NEW t \in Trees, NEW h, HeapMap(h), NEW p \in Nat, NEW s \in Slots \ DOMAIN h,
         NEW row \in Rows, NEW u,
         u = IF row.key = Null THEN t ELSE Entered(t, <<p, s>>, row)
  PROVE  /\ u \in Trees
         /\ Covers(t, h, p) => Covers(u, With(h, s, row), p)
         /\ Exact(t, h, p) => Exact(u, With(h, s, row), p)
<1> DEFINE g == With(h, s, row)
           e == <<row.key, <<p, s>>>>
<1>1. /\ HeapMap(g) /\ g[s] = row
      /\ \A x : x \in DOMAIN g <=> x \in DOMAIN h \/ x = s
      /\ \A x \in DOMAIN h : x # s => g[x] = h[x]
  BY HeapWith
<1> HIDE DEF g
<1>2. Rids(g) = DOMAIN g /\ Rids(h) = DOMAIN h
  BY <1>1, HeapMapFacts, Zenon
<1>3. CASE row.key = Null
  <2>1. u = t
    BY <1>3, Zenon
  <2>2. Covers(t, h, p) => Covers(u, g, p)
    BY <1>1, <1>2, <1>3, <2>1, Zenon DEF Covers
  <2>3. Exact(t, h, p) => Exact(u, g, p)
    BY <1>1, <1>2, <1>3, <2>1 DEF Exact
  <2> QED BY <2>1, <2>2, <2>3, Zenon DEF g
<1>4. CASE row.key # Null
  <2>1. row.key \in Keys /\ e \in Keys \X (Nat \X Slots)
    BY <1>4, Zenon DEF Rows
  <2>2. u = Entered(t, <<p, s>>, row)
    BY <1>4, Zenon
  <2>3. /\ u \in Trees
        /\ \A x : x \in DOMAIN u <=> x \in DOMAIN t \/ x = e
        /\ \A x \in DOMAIN t : x # e => u[x] = t[x]
        /\ e \notin DOMAIN t => u[e] = 1
    BY <2>1, <2>2, EntryAdded
  <2>4. ASSUME Covers(t, h, p), NEW x \in DOMAIN g, g[x].key # Null
        PROVE  <<g[x].key, <<p, x>>>> \in DOMAIN u
    <3>1. CASE x = s
      BY <1>1, <2>3, <3>1, Zenon
    <3>2. CASE x # s
      <4>1. x \in DOMAIN h /\ g[x] = h[x]
        BY <1>1, <2>4, <3>2, Zenon
      <4> QED BY <1>2, <2>3, <2>4, <4>1, Zenon DEF Covers
    <3> QED BY <3>1, <3>2, Zenon
  <2>5. ASSUME Exact(t, h, p), NEW x \in DOMAIN u
        PROVE  u[x] = 1 /\ \E y \in DOMAIN g : g[y].key # Null /\ x = <<g[y].key, <<p, y>>>>
    <3>1. e \notin DOMAIN t
      BY <1>2, <2>5, Zenon DEF Exact
    <3>2. CASE x = e
      BY <1>1, <1>4, <2>3, <3>1, <3>2, Zenon
    <3>3. CASE x # e
      <4>1. x \in DOMAIN t /\ u[x] = t[x]
        BY <2>3, <2>5, <3>3, Zenon
      <4>2. t[x] = 1 /\ \E y \in DOMAIN h : h[y].key # Null /\ x = <<h[y].key, <<p, y>>>>
        BY <1>2, <2>5, <4>1, Zenon DEF Exact
      <4> QED BY <1>1, <4>1, <4>2, Zenon
    <3> QED BY <3>2, <3>3, Zenon
  <2> QED BY <1>2, <2>3, <2>4, <2>5, Zenon DEF g, Covers, Exact
<1> QED BY <1>3, <1>4, Zenon

\* A row and its entry are deleted.
LEMMA RemoveEntry ==
  ASSUME NEW t \in Trees, NEW h, HeapMap(h), NEW p \in Nat, NEW s \in DOMAIN h, NEW u,
         u = IF h[s].key = Null THEN t ELSE Removed(t, <<p, s>>, h[s])
  PROVE  /\ u \in Trees
         /\ Covers(t, h, p) => Covers(u, Without(h, {s}), p)
         /\ Exact(t, h, p) => Exact(u, Without(h, {s}), p)
<1> DEFINE g == Without(h, {s})
           e == <<h[s].key, <<p, s>>>>
<1>1. /\ HeapMap(g)
      /\ \A x : x \in DOMAIN g <=> x \in DOMAIN h /\ x # s
      /\ \A x \in DOMAIN h : x # s => g[x] = h[x]
  BY HeapWithout, Zenon
<1> HIDE DEF g
<1>2. Rids(g) = DOMAIN g /\ Rids(h) = DOMAIN h
  BY <1>1, HeapMapFacts, Zenon
<1>3. CASE h[s].key = Null
  <2>1. u = t
    BY <1>3, Zenon
  <2>2. Covers(t, h, p) => Covers(u, g, p)
    BY <1>1, <1>2, <2>1, Zenon DEF Covers
  <2>3. Exact(t, h, p) => Exact(u, g, p)
    BY <1>1, <1>2, <1>3, <2>1 DEF Exact
  <2> QED BY <2>1, <2>2, <2>3, Zenon DEF g
<1>4. CASE h[s].key # Null
  <2>2. u = Removed(t, <<p, s>>, h[s])
    BY <1>4, Zenon
  <2>3. /\ u \in Trees
        /\ \A x : x # e => (x \in DOMAIN u <=> x \in DOMAIN t)
        /\ \A x \in DOMAIN u : x # e => u[x] = t[x]
        /\ e \in DOMAIN u => e \in DOMAIN t /\ t[e] # 1
    BY <2>2, EntryRemoved
  <2>4. ASSUME Covers(t, h, p), NEW x \in DOMAIN g, g[x].key # Null
        PROVE  <<g[x].key, <<p, x>>>> \in DOMAIN u
    <3>1. x \in DOMAIN h /\ g[x] = h[x] /\ x # s
      BY <1>1, <2>4, Zenon
    <3>2. <<g[x].key, <<p, x>>>> # e
      BY <3>1, Zenon
    <3> QED BY <1>2, <2>3, <2>4, <3>1, <3>2, Zenon DEF Covers
  <2>5. ASSUME Exact(t, h, p), NEW x \in DOMAIN u
        PROVE  u[x] = 1 /\ \E y \in DOMAIN g : g[y].key # Null /\ x = <<g[y].key, <<p, y>>>>
    <3>1. x # e
      BY <2>3, <2>5, Zenon DEF Exact
    <3>2. x \in DOMAIN t /\ u[x] = t[x]
      BY <2>3, <2>5, <3>1, Zenon
    <3>3. t[x] = 1 /\ \E y \in DOMAIN h : h[y].key # Null /\ x = <<h[y].key, <<p, y>>>>
      BY <1>2, <2>5, <3>2, Zenon DEF Exact
    <3>4. PICK y \in DOMAIN h : h[y].key # Null /\ x = <<h[y].key, <<p, y>>>>
      BY <3>3, Zenon
    <3>5. y # s
      BY <3>1, <3>4, Zenon
    <3> QED BY <1>1, <3>2, <3>3, <3>4, <3>5, Zenon
  <2> QED BY <1>2, <2>3, <2>4, <2>5 DEF g, Covers, Exact
<1> QED BY <1>3, <1>4, Zenon

-----------------------------------------------------------------------------
(* What the catalog in memory says of the files. *)

\* A table in memory is a row of the catalog.
LEMMA TableFacts ==
  ASSUME CatalogInv, FileInv, NEW n \in DOMAIN tables
  PROVE  /\ n \in TableNames
         /\ \E r \in Rids(table_rows) :
              /\ table_rows[r].name = n
              /\ tables[n] = [table_rows[r] EXCEPT !.rid = r]
              /\ tables[n].first = table_rows[r].first
              /\ tables[n].id = table_rows[r].id
              /\ tables[n].rid = r
         /\ tables[n].first \in DOMAIN heaps /\ tables[n].first \in Nat
         /\ HeapOf(n) \in Heaps
<1>1. CatalogFile(table_rows, Metas, next_table_id) /\ tables = LoadedFrom(table_rows)
  BY Zenon DEF CatalogInv
<1>2. PICK r \in Rids(table_rows) : n = table_rows[r].name
  BY <1>1, LoadedRows, Zenon
<1>3. tables[n] = [table_rows[r] EXCEPT !.rid = r]
  BY <1>1, <1>2, LoadedRows, Zenon
<1>4. table_rows[r] \in Metas
  BY <1>1, <1>2, RidsAreNat, Zenon
<1>5. /\ tables[n].first = table_rows[r].first /\ tables[n].id = table_rows[r].id
      /\ tables[n].rid = r /\ n \in TableNames /\ tables[n].first \in Nat
  BY <1>2, <1>3, <1>4, Zenon DEF Metas
<1>6. tables[n].first \in DOMAIN heaps
  BY <1>2, <1>5, Zenon DEF FileInv, OwnHeaps
<1>7. heaps[tables[n].first] \in Heaps
  BY <1>6 DEF FileInv
<1> QED BY <1>2, <1>3, <1>5, <1>6, <1>7, Zenon DEF HeapOf

\* A row of the catalog is a table in memory.
LEMMA TableOfRow ==
  ASSUME CatalogInv, NEW r \in Rids(table_rows)
  PROVE  /\ table_rows[r].name \in DOMAIN tables
         /\ tables[table_rows[r].name].first = table_rows[r].first
<1>1. CatalogFile(table_rows, Metas, next_table_id) /\ tables = LoadedFrom(table_rows)
  BY Zenon DEF CatalogInv
<1>2. table_rows[r].name \in DOMAIN tables
  BY <1>1, LoadedRows, Zenon
<1>3. tables[table_rows[r].name] = [table_rows[r] EXCEPT !.rid = r]
  BY <1>1, LoadedRows, Zenon
<1>4. table_rows[r] \in Metas
  BY <1>1, RidsAreNat, Zenon
<1> QED BY <1>2, <1>3, <1>4, Zenon DEF Metas

\* No two tables have one heap file.
LEMMA OwnHeapFiles ==
  ASSUME CatalogInv, FileInv, NEW n \in DOMAIN tables, NEW m \in DOMAIN tables,
         tables[n].first = tables[m].first
  PROVE  n = m
<1>1. PICK r \in Rids(table_rows) : table_rows[r].name = n /\ tables[n].first = table_rows[r].first
  BY TableFacts, Zenon
<1>2. PICK q \in Rids(table_rows) : table_rows[q].name = m /\ tables[m].first = table_rows[q].first
  BY TableFacts, Zenon
<1> QED BY <1>1, <1>2, Zenon DEF FileInv, OwnHeaps

\* The same for indexes.
LEMMA IndexFacts ==
  ASSUME CatalogInv, FileInv, NEW i \in DOMAIN indexes
  PROVE  /\ i \in IndexNames
         /\ \E r \in Rids(index_rows) :
              /\ index_rows[r].name = i
              /\ indexes[i] = [index_rows[r] EXCEPT !.rid = r]
              /\ indexes[i].root = index_rows[r].root
              /\ indexes[i].id = index_rows[r].id
              /\ indexes[i].rid = r
         /\ indexes[i].root \in DOMAIN trees
         /\ trees[indexes[i].root] \in Trees
<1>1. CatalogFile(index_rows, IndexMetas, next_index_id) /\ indexes = LoadedFrom(index_rows)
  BY Zenon DEF CatalogInv
<1>2. PICK r \in Rids(index_rows) : i = index_rows[r].name
  BY <1>1, LoadedRows, Zenon
<1>3. indexes[i] = [index_rows[r] EXCEPT !.rid = r]
  BY <1>1, <1>2, LoadedRows, Zenon
<1>4. index_rows[r] \in IndexMetas
  BY <1>1, <1>2, RidsAreNat, Zenon
<1>5. /\ indexes[i].root = index_rows[r].root /\ indexes[i].id = index_rows[r].id
      /\ indexes[i].rid = r /\ i \in IndexNames
  BY <1>2, <1>3, <1>4, Zenon DEF IndexMetas
<1>6. indexes[i].root \in DOMAIN trees
  BY <1>2, <1>5, Zenon DEF FileInv, OwnTrees
<1>7. trees[indexes[i].root] \in Trees
  BY <1>6 DEF FileInv
<1> QED BY <1>2, <1>3, <1>5, <1>6, <1>7, Zenon

\* No two indexes in the catalog share a tree.
LEMMA OwnRoots ==
  ASSUME CatalogInv, FileInv, NEW i \in DOMAIN indexes, NEW j \in DOMAIN indexes,
         indexes[i].root = indexes[j].root
  PROVE  i = j
<1>1. PICK r \in Rids(index_rows) : index_rows[r].name = i /\ indexes[i].root = index_rows[r].root
  BY IndexFacts, Zenon
<1>2. PICK q \in Rids(index_rows) : index_rows[q].name = j /\ indexes[j].root = index_rows[q].root
  BY IndexFacts, Zenon
<1> QED BY <1>1, <1>2, Zenon DEF FileInv, OwnTrees

\* The rows of all tables are those found through the catalog.
LEMMA AllRowsFound ==
  ASSUME CatalogInv, FileInv, NEW x
  PROVE  /\ x \in AllRows =>
              /\ x = [table |-> x.table, rid |-> <<x.rid[1], x.rid[2]>>, row |-> x.row]
              /\ Found(x, table_rows, heaps)
         /\ /\ x = [table |-> x.table, rid |-> <<x.rid[1], x.rid[2]>>, row |-> x.row]
            /\ Found(x, table_rows, heaps)
            => x \in AllRows
<1>1. ASSUME x \in AllRows
      PROVE  /\ x = [table |-> x.table, rid |-> <<x.rid[1], x.rid[2]>>, row |-> x.row]
             /\ Found(x, table_rows, heaps)
  <2>0. PICK n \in DOMAIN tables :
          x \in {[table |-> n, rid |-> rid, row |-> GetRow(rid)] : rid \in TableRids(n)}
    BY <1>1, Zenon DEF AllRows
  <2>1. PICK s \in Rids(HeapOf(n)) :
          x = [table |-> n, rid |-> <<tables[n].first, s>>, row |-> GetRow(<<tables[n].first, s>>)]
    BY <2>0, Zenon DEF TableRids
  <2>2. PICK r \in Rids(table_rows) : table_rows[r].name = n /\ tables[n].first = table_rows[r].first
    BY TableFacts, Zenon
  <2>3. x.table = n /\ x.rid[1] = tables[n].first /\ x.rid[2] = s /\ x.rid = <<tables[n].first, s>>
        /\ x.row = heaps[tables[n].first][s]
    BY <2>1, Zenon DEF GetRow
  <2> QED BY <2>1, <2>2, <2>3, Zenon DEF Found, HeapOf
<1>2. ASSUME x = [table |-> x.table, rid |-> <<x.rid[1], x.rid[2]>>, row |-> x.row],
             Found(x, table_rows, heaps)
      PROVE  x \in AllRows
  <2>1. PICK k \in Rids(table_rows) :
          /\ table_rows[k].name = x.table
          /\ x.rid[1] = table_rows[k].first
          /\ x.rid[2] \in Rids(heaps[x.rid[1]])
          /\ x.row = heaps[x.rid[1]][x.rid[2]]
    BY <1>2, Zenon DEF Found
  <2>2. x.table \in DOMAIN tables /\ tables[x.table].first = x.rid[1]
    BY <2>1, TableOfRow, Zenon
  <2>3. x.rid = <<x.rid[1], x.rid[2]>>
    BY <1>2
  <2>4. x.rid \in TableRids(x.table)
    BY <2>1, <2>2, <2>3, Zenon DEF TableRids, HeapOf
  <2>5. x.row = GetRow(x.rid)
    BY <2>1, Zenon DEF GetRow
  <2>6. x \in {[table |-> x.table, rid |-> rid, row |-> GetRow(rid)] : rid \in TableRids(x.table)}
    BY <1>2, <2>3, <2>4, <2>5, Zenon
  <2> QED BY <2>2, <2>6, Zenon DEF AllRows
<1> QED BY <1>1, <1>2, Zenon

-----------------------------------------------------------------------------
(* One row of INSERT, UPDATE or DELETE. *)

\* One page of a table is written, and the trees of the table's indexes; rows
\* that are still safe are not touched.
RowWritten(n, p, g, ts) ==
  /\ n \in DOMAIN tables /\ p = tables[n].first /\ HeapMap(g)
  /\ heaps' = [heaps EXCEPT ![p] = g]
  /\ UNCHANGED <<catalogVars, disk, crashed>>
  /\ trees' = ts /\ ts \in Seq(Trees) /\ DOMAIN ts = DOMAIN trees
  /\ \A m \in DOMAIN trees :
       (\A i \in IndexesForTable(n) : m # indexes[i].root) => ts[m] = trees[m]
  /\ \A i \in IndexesForTable(n) :
       LET m == indexes[i].root
       IN  /\ Covers(trees[m], heaps[p], p) => Covers(ts[m], g, p)
           /\ m \notin stale' /\ Exact(trees[m], heaps[p], p) => Exact(ts[m], g, p)
  /\ stale \subseteq stale' /\ safe' \subseteq safe
  /\ \A r \in safe' : r.rid[1] = p /\ r.rid[2] \in Rids(heaps[p]) =>
                         r.rid[2] \in Rids(g) /\ g[r.rid[2]] = heaps[p][r.rid[2]]

\* Such a step keeps all but the statement, of which it says nothing.
LEMMA RowStep ==
  ASSUME DBInv, NEW n, NEW p, NEW g, NEW ts, RowWritten(n, p, g, ts)
  PROVE  CatalogInv' /\ FileInv' /\ SafeInv' /\ IndexInv'
<1>0. /\ n \in DOMAIN tables /\ p = tables[n].first /\ HeapMap(g)
      /\ heaps' = [heaps EXCEPT ![p] = g]
      /\ UNCHANGED <<catalogVars, disk, crashed>>
      /\ trees' = ts /\ ts \in Seq(Trees) /\ DOMAIN ts = DOMAIN trees
      /\ stale \subseteq stale' /\ safe' \subseteq safe
  BY Zenon DEF RowWritten
<1>a. \A m \in DOMAIN trees :
        (\A i \in IndexesForTable(n) : m # indexes[i].root) => ts[m] = trees[m]
  BY Zenon DEF RowWritten
<1>b. \A i \in IndexesForTable(n) :
       LET m == indexes[i].root
       IN  /\ Covers(trees[m], heaps[p], p) => Covers(ts[m], g, p)
           /\ m \notin stale' /\ Exact(trees[m], heaps[p], p) => Exact(ts[m], g, p)
  BY Zenon DEF RowWritten
<1>c. \A r \in safe' : r.rid[1] = p /\ r.rid[2] \in Rids(heaps[p]) =>
                         r.rid[2] \in Rids(g) /\ g[r.rid[2]] = heaps[p][r.rid[2]]
  BY Zenon DEF RowWritten
<1> DEFINE hs == heaps'
<1>1. CatalogInv /\ FileInv /\ SafeInv /\ IndexInv
  BY Zenon DEF DBInv
<1>2. /\ tables' = tables /\ indexes' = indexes /\ table_rows' = table_rows
      /\ index_rows' = index_rows /\ next_table_id' = next_table_id
      /\ next_index_id' = next_index_id /\ disk' = disk /\ crashed' = crashed
  BY <1>0, Zenon DEF catalogVars
<1>3. p \in DOMAIN heaps /\ p \in Nat /\ g \in Heaps /\ heaps \in Seq(Heaps)
  BY <1>0, <1>1, TableFacts, HeapMapFacts, Zenon DEF FileInv
<1>4. /\ hs \in Seq(Heaps) /\ Len(hs) = Len(heaps) /\ DOMAIN hs = DOMAIN heaps
      /\ hs[p] = g /\ \A q \in DOMAIN heaps : q # p => hs[q] = heaps[q]
  BY <1>0, <1>3
<1> HIDE DEF hs
<1>5. heaps' = hs
  BY Zenon DEF hs
<1>6. CatalogInv'
  BY <1>1, <1>2, Zenon DEF CatalogInv
<1>7. FileInv'
  <2>1. OwnHeaps(table_rows, hs) /\ OwnHeaps(disk.table_rows, hs)
    BY <1>1, <1>4, Zenon DEF FileInv, OwnHeaps
  <2>2. OwnTrees(index_rows, ts) /\ OwnTrees(disk.index_rows, ts)
    BY <1>0, <1>1, Zenon DEF FileInv, OwnTrees
  <2> QED BY <1>0, <1>1, <1>2, <1>4, <1>5, <2>1, <2>2, Zenon DEF FileInv
<1>8. ASSUME NEW r \in safe' PROVE Found(r, table_rows, hs)
  <2>1. PICK k \in Rids(table_rows) :
          /\ table_rows[k].name = r.table
          /\ r.rid[1] = table_rows[k].first
          /\ r.rid[2] \in Rids(heaps[r.rid[1]])
          /\ r.row = heaps[r.rid[1]][r.rid[2]]
    BY <1>0, <1>1, <1>8, Zenon DEF SafeInv, Found
  <2>2. r.rid[1] \in DOMAIN heaps
    BY <1>1, <2>1, Zenon DEF FileInv, OwnHeaps
  <2>3. r.rid[2] \in Rids(hs[r.rid[1]]) /\ r.row = hs[r.rid[1]][r.rid[2]]
    <3>1. CASE r.rid[1] = p
      BY <1>4, <1>8, <1>c, <2>1, <3>1, Zenon
    <3>2. CASE r.rid[1] # p
      BY <1>4, <2>1, <2>2, <3>2, Zenon
    <3> QED BY <3>1, <3>2, Zenon
  <2> QED BY <2>1, <2>3, Zenon DEF Found
<1>9. SafeInv'
  BY <1>0, <1>1, <1>2, <1>5, <1>8, Zenon DEF SafeInv
<1>10. ASSUME ~crashed, NEW i \in DOMAIN indexes, NEW q, q = indexes[i].table
       PROVE  /\ q \in DOMAIN tables => Covers(ts[indexes[i].root], hs[tables[q].first], tables[q].first)
              /\ indexes[i].root \notin stale' =>
                   q \in DOMAIN tables /\ Exact(ts[indexes[i].root], hs[tables[q].first], tables[q].first)
  <2> DEFINE m == indexes[i].root
  <2>1. /\ q \in DOMAIN tables => Covers(trees[m], heaps[tables[q].first], tables[q].first)
        /\ m \notin stale => q \in DOMAIN tables /\ Exact(trees[m], heaps[tables[q].first], tables[q].first)
    BY <1>1, <1>10, Zenon DEF IndexInv, HeapOf
  <2>2. m \in DOMAIN trees
    BY <1>1, IndexFacts, Zenon
  <2>3. CASE q = n
    BY <1>0, <1>b, <1>4, <1>10, <2>1, <2>3, Zenon DEF IndexesForTable
  <2>4. CASE q # n
    <3>1. \A j \in IndexesForTable(n) : m # indexes[j].root
      BY <1>1, <1>10, <2>4, OwnRoots, Zenon DEF IndexesForTable
    <3>2. ts[m] = trees[m]
      BY <1>a, <2>2, <3>1, Zenon
    <3>3. q \in DOMAIN tables => tables[q].first # p /\ tables[q].first \in DOMAIN heaps
      BY <1>0, <1>1, <2>4, OwnHeapFiles, TableFacts, Zenon
    <3> QED BY <1>0, <1>4, <2>1, <3>2, <3>3, Zenon
  <2> QED BY <2>3, <2>4, Zenon
<1>11. ASSUME ~crashed, NEW i \in DOMAIN indexes
       PROVE  /\ indexes[i].table \in DOMAIN tables =>
                   Covers(trees'[indexes[i].root], heaps'[tables[indexes[i].table].first],
                          tables[indexes[i].table].first)
              /\ indexes[i].root \notin stale' =>
                   /\ indexes[i].table \in DOMAIN tables
                   /\ Exact(trees'[indexes[i].root], heaps'[tables[indexes[i].table].first],
                            tables[indexes[i].table].first)
  BY <1>0, <1>5, <1>10, <1>11, Zenon
<1>12. IndexInv'
  BY <1>2, <1>11, Zenon DEF IndexInv, HeapOf
<1> QED BY <1>6, <1>7, <1>9, <1>12, Zenon

\* The match that comes next is one of them.
LEMMA NextMatchThere ==
  ASSUME DBInv, NEW n \in DOMAIN tables, stmt.todo \subseteq TableRids(n), stmt.todo # {}
  PROVE  /\ NextMatch(stmt) \in stmt.todo
         /\ NextMatch(stmt) \in TableRids(n)
         /\ NextMatch(stmt) = <<tables[n].first, NextMatch(stmt)[2]>>
         /\ NextMatch(stmt)[1] = tables[n].first
         /\ NextMatch(stmt)[2] \in Rids(HeapOf(n)) /\ NextMatch(stmt)[2] \in Slots
         /\ HeapMap(HeapOf(n)) /\ NextMatch(stmt)[2] \in DOMAIN HeapOf(n)
<1> DEFINE T == {s \in Rids(HeapOf(n)) : <<tables[n].first, s>> \in stmt.todo}
<1>1. HeapOf(n) \in Heaps
  BY TableFacts, Zenon DEF DBInv
<1>2. Rids(HeapOf(n)) \subseteq Slots /\ Rids(HeapOf(n)) \subseteq Nat
  BY <1>1, HeapFacts, DatabaseAssumption, Zenon
<1>3. \A rid \in stmt.todo : rid[2] \in T /\ rid = <<tables[n].first, rid[2]>>
  BY DEF TableRids
<1>4. T \subseteq Nat /\ T # {}
  BY <1>2, <1>3, Zenon
<1>5. PICK s \in T : \A t \in T : s <= t
  BY <1>4, LeastExists, Zenon
<1>6. \E rid \in stmt.todo : \A q \in stmt.todo : rid[2] <= q[2]
  <2>1. <<tables[n].first, s>> \in stmt.todo
    BY <1>5, Zenon
  <2>2. \A q \in stmt.todo : <<tables[n].first, s>>[2] <= q[2]
    BY <1>3, <1>5, Zenon
  <2> QED BY <2>1, <2>2, Zenon
<1>7. NextMatch(stmt) \in stmt.todo
  BY <1>6, Zenon DEF NextMatch
<1>8. NextMatch(stmt)[2] \in Rids(HeapOf(n)) /\ NextMatch(stmt) = <<tables[n].first, NextMatch(stmt)[2]>>
  BY <1>3, <1>7, Zenon
<1>9. HeapMap(HeapOf(n)) /\ NextMatch(stmt)[2] \in DOMAIN HeapOf(n)
  BY <1>1, <1>8, HeapFacts, Zenon
<1> QED BY <1>2, <1>7, <1>8, <1>9

\* What index maintenance does to each tree.
LEMMA OnInsertFacts ==
  ASSUME NEW ts \in Seq(Trees), NEW n, NEW row \in Rows, NEW rid \in Nat \X Slots
  PROVE  LET us == MaintainIndexesOnInsert(ts, n, row, rid)
         IN  /\ us \in Seq(Trees) /\ DOMAIN us = DOMAIN ts
             /\ \A m \in DOMAIN ts :
                  (\A i \in IndexesForTable(n) : m # indexes[i].root) => us[m] = ts[m]
             /\ \A i \in IndexesForTable(n) : indexes[i].root \in DOMAIN ts =>
                  us[indexes[i].root] =
                    IF row.key = Null THEN ts[indexes[i].root]
                    ELSE Entered(ts[indexes[i].root], rid, row)
<1> DEFINE us == MaintainIndexesOnInsert(ts, n, row, rid)
<1>1. /\ us = [m \in DOMAIN ts |-> us[m]]
      /\ \A m \in DOMAIN ts : us[m] = IF m \in MaintainedBy(n, row)
                                       THEN Entered(ts[m], rid, row) ELSE ts[m]
  BY Zenon DEF MaintainIndexesOnInsert
<1>2. \A m : m \in MaintainedBy(n, row) <=>
               row.key # Null /\ \E i \in IndexesForTable(n) : m = indexes[i].root
  BY Zenon DEF MaintainedBy
<1> HIDE DEF us
<1>3. ASSUME NEW m \in DOMAIN ts PROVE us[m] \in Trees
  <2>1. ts[m] \in Trees
    OBVIOUS
  <2>2. CASE m \in MaintainedBy(n, row)
    <3>1. <<row.key, rid>> \in Keys \X (Nat \X Slots)
      BY <1>2, <2>2, Zenon DEF Rows
    <3>2. Entered(ts[m], rid, row) \in Trees
      BY <2>1, <3>1, EntryAdded, Zenon
    <3> QED BY <1>1, <2>2, <3>2, Zenon
  <2>3. CASE m \notin MaintainedBy(n, row)
    BY <1>1, <2>1, <2>3, Zenon
  <2> QED BY <2>2, <2>3, Zenon
<1>4. DOMAIN ts = 1..Len(ts) /\ Len(ts) \in Nat
  OBVIOUS
<1>5. us \in Seq(Trees) /\ DOMAIN us = DOMAIN ts
  BY <1>1, <1>3, <1>4
<1>6. \A m \in DOMAIN ts : (\A i \in IndexesForTable(n) : m # indexes[i].root) => us[m] = ts[m]
  BY <1>1, <1>2
<1>7. ASSUME NEW i \in IndexesForTable(n), indexes[i].root \in DOMAIN ts
      PROVE  us[indexes[i].root] = IF row.key = Null THEN ts[indexes[i].root]
                                    ELSE Entered(ts[indexes[i].root], rid, row)
  BY <1>1, <1>2, <1>7, Zenon
<1> QED BY <1>5, <1>6, <1>7, Zenon DEF us

\* MaintainIndexesOnDelete takes the row's entry out of the trees of its
\* table's indexes, and changes no other tree.
LEMMA OnDeleteFacts ==
  ASSUME NEW ts \in Seq(Trees), NEW n, NEW row, NEW rid
  PROVE  LET us == MaintainIndexesOnDelete(ts, n, row, rid)
         IN  /\ us \in Seq(Trees) /\ DOMAIN us = DOMAIN ts
             /\ \A m \in DOMAIN ts :
                  (\A i \in IndexesForTable(n) : m # indexes[i].root) => us[m] = ts[m]
             /\ \A i \in IndexesForTable(n) : indexes[i].root \in DOMAIN ts =>
                  us[indexes[i].root] =
                    IF row.key = Null THEN ts[indexes[i].root]
                    ELSE Removed(ts[indexes[i].root], rid, row)
<1> DEFINE us == MaintainIndexesOnDelete(ts, n, row, rid)
<1>1. /\ us = [m \in DOMAIN ts |-> us[m]]
      /\ \A m \in DOMAIN ts : us[m] = IF m \in MaintainedBy(n, row)
                                       THEN Removed(ts[m], rid, row) ELSE ts[m]
  BY Zenon DEF MaintainIndexesOnDelete
<1>2. \A m : m \in MaintainedBy(n, row) <=>
               row.key # Null /\ \E i \in IndexesForTable(n) : m = indexes[i].root
  BY Zenon DEF MaintainedBy
<1> HIDE DEF us
<1>3. ASSUME NEW m \in DOMAIN ts PROVE us[m] \in Trees
  <2>1. ts[m] \in Trees
    OBVIOUS
  <2>2. Removed(ts[m], rid, row) \in Trees
    BY <2>1, EntryRemoved, Zenon
  <2> QED BY <1>1, <2>1, <2>2, Zenon
<1>4. DOMAIN ts = 1..Len(ts) /\ Len(ts) \in Nat
  OBVIOUS
<1>5. us \in Seq(Trees) /\ DOMAIN us = DOMAIN ts
  BY <1>1, <1>3, <1>4
<1>6. \A m \in DOMAIN ts : (\A i \in IndexesForTable(n) : m # indexes[i].root) => us[m] = ts[m]
  BY <1>1, <1>2
<1>7. ASSUME NEW i \in IndexesForTable(n), indexes[i].root \in DOMAIN ts
      PROVE  us[indexes[i].root] = IF row.key = Null THEN ts[indexes[i].root]
                                    ELSE Removed(ts[indexes[i].root], rid, row)
  BY <1>1, <1>2, <1>7, Zenon
<1> QED BY <1>5, <1>6, <1>7, Zenon DEF us

\* Everything but the statement stays.
LEMMA OnlyStatement ==
  ASSUME DBInv, UNCHANGED <<catalogVars, heaps, trees, disk, stale, crashed, safe>>
  PROVE  CatalogInv' /\ FileInv' /\ SafeInv' /\ IndexInv'
<1>1. CatalogInv /\ FileInv /\ SafeInv /\ IndexInv
  BY Zenon DEF DBInv
<1>2. /\ tables' = tables /\ indexes' = indexes /\ table_rows' = table_rows
      /\ index_rows' = index_rows /\ next_table_id' = next_table_id
      /\ next_index_id' = next_index_id /\ disk' = disk /\ crashed' = crashed
      /\ heaps' = heaps /\ trees' = trees /\ stale' = stale /\ safe' = safe
  BY Zenon DEF catalogVars
<1>3. CatalogInv'
  BY <1>1, <1>2, Zenon DEF CatalogInv
<1>4. FileInv'
  BY <1>1, <1>2, Zenon DEF FileInv
<1>5. SafeInv'
  BY <1>1, <1>2, Zenon DEF SafeInv
<1>6. IndexInv'
  BY <1>1, <1>2 DEF IndexInv, HeapOf
<1> QED BY <1>3, <1>4, <1>5, <1>6, Zenon

\* One row of INSERT.
LEMMA InsertRowKeeps ==
  ASSUME DBInv, InsertRow
  PROVE  DBInv'
<1> DEFINE n == stmt.table
           row == Head(stmt.todo)
           p == tables[n].first
<1>1. CatalogInv /\ FileInv /\ SafeInv /\ IndexInv /\ StatementInv
  BY Zenon DEF DBInv
<1>2. /\ stmt = [kind |-> "insert", table |-> n, todo |-> stmt.todo]
      /\ Usable(n) /\ stmt.todo \in Seq(Rows) /\ stmt.todo # <<>>
  BY <1>1 DEF StatementInv, InsertRow, Idle
<1>3. n \in DOMAIN tables /\ row \in Rows
  BY <1>2 DEF Usable
<1>4. p \in Nat /\ p \in DOMAIN heaps /\ HeapMap(heaps[p])
  BY <1>1, <1>2, <1>3, TableFacts, HeapFacts, Zenon DEF Usable, HeapOf
<1>5. UNCHANGED <<catalogVars, disk, crashed, stale, safe>>
  BY Zenon DEF InsertRow
<1>6. tables' = tables
  BY <1>5, Zenon DEF catalogVars
<1> HIDE DEF n, row, p
<1>7. CASE stmt' = Idle /\ UNCHANGED <<heaps, trees>>
  <2>1. CatalogInv' /\ FileInv' /\ SafeInv' /\ IndexInv'
    BY <1>5, <1>7, OnlyStatement, Zenon
  <2>2. StatementInv'
    BY <1>7, Zenon DEF StatementInv
  <2> QED BY <2>1, <2>2, Zenon DEF DBInv
<1>8. ASSUME NEW s \in FreeSlots(p),
             heaps' = [heaps EXCEPT ![p] = With(@, s, row)],
             trees' = MaintainIndexesOnInsert(trees, n, row, <<p, s>>),
             stmt' = Done(stmt)
      PROVE  DBInv'
  <2> DEFINE h == heaps[p]
             g == With(h, s, row)
             ts == MaintainIndexesOnInsert(trees, n, row, <<p, s>>)
  <2>1. s \in Slots \ DOMAIN h
    BY <1>8, Zenon DEF FreeSlots
  <2>2. /\ HeapMap(g) /\ Rids(g) = DOMAIN g /\ Rids(h) = DOMAIN h /\ Readable(g)
        /\ \A x : x \in DOMAIN g <=> x \in DOMAIN h \/ x = s
        /\ \A x \in DOMAIN h : x # s => g[x] = h[x]
    <3>1. /\ HeapMap(g)
          /\ \A x : x \in DOMAIN g <=> x \in DOMAIN h \/ x = s
          /\ \A x \in DOMAIN h : x # s => g[x] = h[x]
      BY <1>3, <1>4, <2>1, HeapWith
    <3> HIDE DEF g
    <3> QED BY <1>4, <3>1, HeapMapFacts, Zenon
  <2>3. heaps' = [heaps EXCEPT ![p] = g] /\ trees' = ts
    BY <1>8, Zenon
  <2>4. trees \in Seq(Trees)
    BY <1>1, Zenon DEF FileInv
  <2>5. /\ ts \in Seq(Trees) /\ DOMAIN ts = DOMAIN trees
        /\ \A m \in DOMAIN trees :
             (\A i \in IndexesForTable(n) : m # indexes[i].root) => ts[m] = trees[m]
        /\ \A i \in IndexesForTable(n) : indexes[i].root \in DOMAIN trees =>
             ts[indexes[i].root] =
               IF row.key = Null THEN trees[indexes[i].root]
               ELSE Entered(trees[indexes[i].root], <<p, s>>, row)
    <3>1. <<p, s>> \in Nat \X Slots
      BY <1>4, <2>1, Zenon
    <3> QED BY <1>3, <2>4, <3>1, OnInsertFacts
  <2>6. ASSUME NEW i \in IndexesForTable(n), NEW m, m = indexes[i].root
        PROVE  /\ Covers(trees[m], h, p) => Covers(ts[m], g, p)
               /\ m \notin stale' /\ Exact(trees[m], h, p) => Exact(ts[m], g, p)
    <3>1. m \in DOMAIN trees /\ trees[m] \in Trees
      BY <1>1, <2>6, IndexFacts, Zenon DEF IndexesForTable
    <3>2. ts[m] = IF row.key = Null THEN trees[m] ELSE Entered(trees[m], <<p, s>>, row)
      BY <2>5, <2>6, <3>1, Zenon
    <3> HIDE DEF ts
    <3>3. /\ Covers(trees[m], h, p) => Covers(ts[m], g, p)
          /\ Exact(trees[m], h, p) => Exact(ts[m], g, p)
      BY <1>3, <1>4, <2>1, <3>1, <3>2, InsertEntry, Zenon
    <3> QED BY <3>3, Zenon
  <2>7. \A r \in safe' : r.rid[1] = p /\ r.rid[2] \in Rids(h) =>
                           r.rid[2] \in Rids(g) /\ g[r.rid[2]] = h[r.rid[2]]
    BY <2>1, <2>2, Zenon
  <2> HIDE DEF g, ts
  <2>8. CatalogInv' /\ FileInv' /\ SafeInv' /\ IndexInv'
    <3>1. p = tables[n].first
      BY Zenon DEF p
    <3>2. \A i \in IndexesForTable(n) :
            /\ Covers(trees[indexes[i].root], heaps[p], p) => Covers(ts[indexes[i].root], g, p)
            /\ indexes[i].root \notin stale' /\ Exact(trees[indexes[i].root], heaps[p], p) =>
                 Exact(ts[indexes[i].root], g, p)
      BY <2>6, Zenon
    <3>3. stale \subseteq stale' /\ safe' \subseteq safe /\ UNCHANGED <<catalogVars, disk, crashed>>
      BY <1>5, Zenon
    <3>4. RowWritten(n, p, g, ts)
      BY <1>3, <2>2, <2>3, <2>5, <2>7, <3>1, <3>2, <3>3, Zenon DEF RowWritten
    <3> QED BY <3>4, RowStep, Zenon
  <2>9. StatementInv'
    <3>1. CASE Tail(stmt.todo) = <<>>
      BY <1>8, <3>1, Zenon DEF StatementInv, Done
    <3>2. CASE Tail(stmt.todo) # <<>>
      <4>1. stmt' = [kind |-> "insert", table |-> n, todo |-> Tail(stmt.todo)]
        <5>1. PICK td : stmt = [kind |-> "insert", table |-> n, todo |-> td] /\ td = stmt.todo
          BY <1>2, Zenon
        <5>2. stmt' = [stmt EXCEPT !.todo = Tail(td)]
          BY <1>8, <3>2, <5>1, Zenon DEF Done
        <5> QED BY <5>1, <5>2, Zenon
      <4>2. Tail(stmt.todo) \in Seq(Rows)
        BY <1>2
      <4>3. stmt'.kind = "insert" /\ stmt'.table = n /\ stmt'.todo = Tail(stmt.todo)
        BY <4>1, Zenon
      <4>4. heaps'[p] = g
        BY <1>4, <2>3, Zenon
      <4>5. Usable(stmt.table)'
        BY <1>3, <1>6, <2>2, <4>3, <4>4, Zenon DEF Usable, HeapOf, p
      <4> QED BY <3>2, <4>1, <4>2, <4>3, <4>5, Zenon DEF StatementInv
    <3> QED BY <3>1, <3>2, Zenon
  <2> QED BY <2>8, <2>9, Zenon DEF DBInv
<1> QED BY <1>7, <1>8, Zenon DEF InsertRow, n, row, p

\* The matches that are left are still there.
LEMMA MatchDone ==
  ASSUME DBInv, stmt.kind \in {"update", "delete"}, NEW n, n = stmt.table, NEW p, NEW s, NEW g,
         p = tables[n].first, <<p, s>> \in stmt.todo, tables' = tables, HeapMap(g),
         heaps' = [heaps EXCEPT ![p] = g], \A x \in Rids(heaps[p]) : x # s => x \in Rids(g),
         stmt' = DoneMatch(stmt, <<p, s>>)
  PROVE  StatementInv'
<1>1. CatalogInv /\ FileInv /\ StatementInv
  BY Zenon DEF DBInv
<1>2. /\ n \in DOMAIN tables /\ stmt.todo \subseteq TableRids(n)
      /\ \/ stmt = [kind |-> "delete", table |-> n, todo |-> stmt.todo] /\ stmt.kind = "delete"
         \/ /\ stmt = [kind |-> "update", table |-> n, todo |-> stmt.todo, set |-> stmt.set]
            /\ stmt.set \in Sets /\ stmt.kind = "update"
  BY <1>1 DEF StatementInv, Idle
<1>3. heaps'[p] = g
  BY <1>1, <1>2, TableFacts, Zenon DEF FileInv
<1> DEFINE left == stmt.todo \ {<<p, s>>}
<1>4. ASSUME NEW q \in left PROVE q \in {<<p, x>> : x \in Rids(g)}
  <2>1. q \in TableRids(n) /\ q # <<p, s>>
    BY <1>2, Zenon
  <2>2. PICK x \in Rids(heaps[p]) : q = <<p, x>>
    BY <2>1, Zenon DEF TableRids, HeapOf
  <2>3. x # s
    BY <2>1, <2>2, Zenon
  <2> QED BY <2>2, <2>3, Zenon
<1>5. TableRids(n)' = {<<p, x>> : x \in Rids(g)}
  BY <1>3, Zenon DEF TableRids, HeapOf
<1>6. left \subseteq TableRids(n)'
  BY <1>4, <1>5, Zenon
<1>7. CASE stmt.todo = {<<p, s>>}
  BY <1>7, Zenon DEF DoneMatch, StatementInv
<1>8. CASE stmt.todo # {<<p, s>>}
  <2>1. left # {}
    BY <1>8, Zenon
  <2>2. stmt' = [stmt EXCEPT !.todo = left]
    BY <1>8, Zenon DEF DoneMatch
  <2> HIDE DEF left
  <2>3. CASE stmt.kind = "delete"
    <3>1. PICK td : stmt = [kind |-> "delete", table |-> n, todo |-> td]
      BY <1>2, <2>3, Zenon
    <3>2. stmt' = [kind |-> "delete", table |-> n, todo |-> left]
      BY <2>2, <3>1
    <3>3. stmt'.kind = "delete" /\ stmt'.table = n /\ stmt'.todo = left
      BY <3>2
    <3> QED BY <1>2, <1>6, <2>1, <3>2, <3>3, Zenon DEF StatementInv
  <2>4. CASE stmt.kind = "update"
    <3>1. PICK td, set : stmt = [kind |-> "update", table |-> n, todo |-> td, set |-> set] /\ set \in Sets
      BY <1>2, <2>4, Zenon
    <3>2. stmt' = [kind |-> "update", table |-> n, todo |-> left, set |-> set]
      BY <2>2, <3>1
    <3>3. stmt'.kind = "update" /\ stmt'.table = n /\ stmt'.todo = left /\ stmt'.set = set
      BY <3>2
    <3>4. Sets' = Sets
      BY Zenon DEF Sets
    <3> QED BY <1>2, <1>6, <2>1, <3>1, <3>2, <3>3, <3>4, Zenon DEF StatementInv
  <2> QED BY <2>3, <2>4, Zenon
<1> QED BY <1>7, <1>8, Zenon

\* The rows that stay safe are not the one an UPDATE or DELETE works on.
LEMMA SafeOthers ==
  ASSUME DBInv, NEW p, NEW s, safe' = Unsafe(<<p, s>>)
  PROVE  /\ safe' \subseteq safe
         /\ \A r \in safe' : r.rid[1] = p => r.rid[2] # s
<1>1. safe' \subseteq safe /\ \A r \in safe' : r.rid # <<p, s>>
  BY Zenon DEF Unsafe
<1>2. ASSUME NEW r \in safe', r.rid[1] = p, r.rid[2] = s PROVE FALSE
  <2>1. r = [table |-> r.table, rid |-> <<r.rid[1], r.rid[2]>>, row |-> r.row]
    BY <1>1, <1>2, Zenon DEF DBInv, SafeInv
  <2>2. r.rid = <<r.rid[1], r.rid[2]>>
    BY <2>1
  <2> QED BY <1>1, <1>2, <2>2, Zenon
<1> QED BY <1>1, <1>2, Zenon

\* One row of DELETE.
LEMMA DeleteRowKeeps ==
  ASSUME DBInv, DeleteRow
  PROVE  DBInv'
<1> DEFINE n == stmt.table
           rid == NextMatch(stmt)
           p == tables[n].first
           s == rid[2]
           h == heaps[p]
           g == Without(h, {s})
           ts == MaintainIndexesOnDelete(trees, n, h[s], <<p, s>>)
<1>1. CatalogInv /\ FileInv /\ StatementInv
  BY Zenon DEF DBInv
<1>2. n \in DOMAIN tables /\ stmt.todo \subseteq TableRids(n) /\ stmt.todo # {}
  BY <1>1 DEF StatementInv, DeleteRow, Idle
<1>3. /\ rid \in stmt.todo /\ rid = <<p, s>> /\ rid[1] = p
      /\ HeapMap(h) /\ s \in DOMAIN h
  BY <1>2, NextMatchThere, Zenon DEF HeapOf
<1>4. p \in Nat /\ p \in DOMAIN heaps
  BY <1>1, <1>2, TableFacts, Zenon
<1>5. /\ heaps' = [heaps EXCEPT ![p] = g] /\ trees' = ts
      /\ stmt' = DoneMatch(stmt, <<p, s>>) /\ safe' = Unsafe(<<p, s>>)
      /\ UNCHANGED <<catalogVars, disk, crashed>> /\ stale' = stale /\ stmt.kind = "delete"
  BY <1>3, Zenon DEF DeleteRow, GetRow
<1>6. tables' = tables /\ p = tables[n].first
  BY <1>5, Zenon DEF catalogVars
<1> HIDE DEF n, rid, p, s
<1>7. /\ HeapMap(g) /\ Rids(g) = DOMAIN g /\ Rids(h) = DOMAIN h
      /\ \A x : x \in DOMAIN g <=> x \in DOMAIN h /\ x # s
      /\ \A x \in DOMAIN h : x # s => g[x] = h[x]
  <2>1. /\ HeapMap(g)
        /\ \A x : x \in DOMAIN g <=> x \in DOMAIN h /\ x # s
        /\ \A x \in DOMAIN h : x # s => g[x] = h[x]
    BY <1>3, HeapWithout, Zenon
  <2> HIDE DEF g
  <2> QED BY <1>3, <2>1, HeapMapFacts, Zenon
<1>8. trees \in Seq(Trees)
  BY <1>1, Zenon DEF FileInv
<1>9. /\ ts \in Seq(Trees) /\ DOMAIN ts = DOMAIN trees
      /\ \A m \in DOMAIN trees :
           (\A i \in IndexesForTable(n) : m # indexes[i].root) => ts[m] = trees[m]
      /\ \A i \in IndexesForTable(n) : indexes[i].root \in DOMAIN trees =>
           ts[indexes[i].root] =
             IF h[s].key = Null THEN trees[indexes[i].root]
             ELSE Removed(trees[indexes[i].root], <<p, s>>, h[s])
  BY <1>8, OnDeleteFacts
<1> HIDE DEF ts
<1>10. ASSUME NEW i \in IndexesForTable(n)
       PROVE  /\ Covers(trees[indexes[i].root], h, p) => Covers(ts[indexes[i].root], g, p)
              /\ Exact(trees[indexes[i].root], h, p) => Exact(ts[indexes[i].root], g, p)
  <2> DEFINE m == indexes[i].root
  <2>1. m \in DOMAIN trees /\ trees[m] \in Trees
    BY <1>1, <1>10, IndexFacts, Zenon DEF IndexesForTable
  <2>2. ts[m] = IF h[s].key = Null THEN trees[m] ELSE Removed(trees[m], <<p, s>>, h[s])
    BY <1>9, <2>1, Zenon
  <2> HIDE DEF m
  <2>3. /\ Covers(trees[m], h, p) => Covers(ts[m], g, p)
        /\ Exact(trees[m], h, p) => Exact(ts[m], g, p)
    BY <1>3, <1>4, <2>1, <2>2, RemoveEntry, Zenon
  <2> QED BY <2>3, Zenon DEF m
<1>11. safe' \subseteq safe /\ \A r \in safe' : r.rid[1] = p => r.rid[2] # s
  BY <1>5, SafeOthers, Zenon
<1> HIDE DEF g
<1>12. RowWritten(n, p, g, ts)
  BY <1>2, <1>5, <1>6, <1>7, <1>9, <1>10, <1>11, Zenon DEF RowWritten
<1>13. StatementInv'
  BY <1>3, <1>5, <1>6, <1>7, MatchDone, Zenon DEF n
<1> QED BY <1>12, <1>13, RowStep, Zenon DEF DBInv

\* SET gives a row again.
LEMMA AssignedRow ==
  ASSUME NEW row \in Rows, NEW set \in Sets
  PROVE  Assigned(row, set) \in Rows
<1>1. DOMAIN row = {"key", "len"} /\ row["key"] \in Keys \cup {Null} /\ row["len"] \in Lengths
  BY Zenon DEF Rows
<1>2. \/ DOMAIN set = {"key"} /\ set["key"] \in Keys \cup {Null}
      \/ DOMAIN set = {"len"} /\ set["len"] \in Lengths
  BY DEF Sets
<1> DEFINE new == Assigned(row, set)
<1>3. /\ new = [f \in {"key", "len"} |-> new[f]]
      /\ new["key"] \in Keys \cup {Null} /\ new["len"] \in Lengths
  BY <1>1, <1>2, Zenon DEF Assigned
<1> HIDE DEF new
<1>4. new = [key |-> new["key"], len |-> new["len"]]
  BY <1>3, Zenon
<1>5. new \in [key : Keys \cup {Null}, len : Lengths]
  BY <1>3, <1>4, Zenon
<1> QED BY <1>5, Zenon DEF new, Rows

\* What UPDATE works on.
Updates(n, p, s, old, new) ==
  /\ UpdateRow
  /\ n = stmt.table /\ p = tables[n].first /\ s = NextMatch(stmt)[2]
  /\ old = heaps[p][s] /\ new = Assigned(old, stmt.set)

\* It is a row of a table, and the safe rows are others.
LEMMA UpdateFacts ==
  ASSUME DBInv, NEW n, NEW p, NEW s, NEW old, NEW new, Updates(n, p, s, old, new)
  PROVE  /\ n \in DOMAIN tables /\ p \in Nat /\ p \in DOMAIN heaps
         /\ NextMatch(stmt) = <<p, s>> /\ <<p, s>> \in stmt.todo
         /\ HeapMap(heaps[p]) /\ s \in DOMAIN heaps[p] /\ s \in Slots
         /\ old \in Rows /\ new \in Rows
         /\ safe' = Unsafe(<<p, s>>) /\ stmt.kind = "update"
         /\ UNCHANGED <<catalogVars, disk, crashed>> /\ tables' = tables
         /\ safe' \subseteq safe /\ \A r \in safe' : r.rid[1] = p => r.rid[2] # s
<1>1. CatalogInv /\ FileInv /\ StatementInv
  BY Zenon DEF DBInv
<1>0. /\ n = stmt.table /\ p = tables[n].first /\ s = NextMatch(stmt)[2]
      /\ old = heaps[p][s] /\ new = Assigned(old, stmt.set) /\ UpdateRow
  BY Zenon DEF Updates
<1>2. /\ n \in DOMAIN tables /\ stmt.todo \subseteq TableRids(n) /\ stmt.todo # {}
      /\ stmt.set \in Sets
  <2>1. stmt.kind = "update"
    BY <1>0, Zenon DEF UpdateRow
  <2>2. stmt # Idle
    BY <2>1 DEF Idle
  <2> QED BY <1>0, <1>1, <2>1, <2>2 DEF StatementInv
<1>3. /\ NextMatch(stmt) \in stmt.todo /\ NextMatch(stmt) = <<p, s>> /\ s \in Slots
      /\ HeapMap(heaps[p]) /\ s \in DOMAIN heaps[p]
  BY <1>0, <1>2, NextMatchThere, Zenon DEF HeapOf
<1>4. p \in Nat /\ p \in DOMAIN heaps
  BY <1>0, <1>1, <1>2, TableFacts, Zenon
<1>5. old \in Rows
  BY <1>0, <1>3, HeapMapFacts, Zenon
<1>6. new \in Rows
  BY <1>0, <1>2, <1>5, AssignedRow, Zenon
<1>7. /\ safe' = Unsafe(<<p, s>>) /\ stmt.kind = "update"
      /\ UNCHANGED <<catalogVars, disk, crashed>> /\ tables' = tables
  BY <1>0, <1>3, Zenon DEF UpdateRow, catalogVars
<1>8. safe' \subseteq safe /\ \A r \in safe' : r.rid[1] = p => r.rid[2] # s
  BY <1>7, SafeOthers, Zenon
<1> QED BY <1>2, <1>3, <1>4, <1>5, <1>6, <1>7, <1>8, Zenon

\* The row is replaced, in place (d = s) or elsewhere.
Replaces(n, p, s, old, new, d) ==
  /\ Updates(n, p, s, old, new)
  /\ d = s \/ d \in Slots \ DOMAIN heaps[p]
  /\ heaps' = [heaps EXCEPT ![p] = With(Without(heaps[p], {s}), d, new)]
  /\ trees' = MovedEntries(n, old, <<p, s>>, new, <<p, d>>)
  /\ stmt' = DoneMatch(stmt, <<p, s>>) /\ stale' = stale

\* Its entries go with it.
LEMMA UpdateMoves ==
  ASSUME DBInv, NEW n, NEW p, NEW s, NEW old, NEW new, NEW d, Replaces(n, p, s, old, new, d)
  PROVE  DBInv'
<1> DEFINE h == heaps[p]
           w == Without(h, {s})
           g == With(w, d, new)
           ts == MaintainIndexesOnDelete(trees, n, old, <<p, s>>)
           us == MaintainIndexesOnInsert(ts, n, new, <<p, d>>)
<1>1. /\ n \in DOMAIN tables /\ p \in Nat /\ p \in DOMAIN heaps
      /\ <<p, s>> \in stmt.todo
      /\ HeapMap(h) /\ s \in DOMAIN h /\ s \in Slots
      /\ old \in Rows /\ new \in Rows
      /\ stmt.kind = "update"
      /\ UNCHANGED <<catalogVars, disk, crashed>> /\ tables' = tables
      /\ safe' \subseteq safe /\ \A r \in safe' : r.rid[1] = p => r.rid[2] # s
  BY UpdateFacts, Zenon DEF Replaces
<1>0. /\ p = tables[n].first /\ n = stmt.table /\ old = h[s]
      /\ d = s \/ d \in Slots \ DOMAIN h
      /\ stmt' = DoneMatch(stmt, <<p, s>>) /\ stale' = stale
  BY Zenon DEF Replaces, Updates
<1>2. CatalogInv /\ FileInv /\ trees \in Seq(Trees)
  BY Zenon DEF DBInv, FileInv
<1>3. /\ HeapMap(w)
      /\ \A x : x \in DOMAIN w <=> x \in DOMAIN h /\ x # s
      /\ \A x \in DOMAIN h : x # s => w[x] = h[x]
  BY <1>1, HeapWithout, Zenon
<1> HIDE DEF w
<1>4. d \in Slots \ DOMAIN w
  BY <1>0, <1>1, <1>3, Zenon
<1>5. /\ HeapMap(g)
      /\ \A x : x \in DOMAIN g <=> x \in DOMAIN w \/ x = d
      /\ \A x \in DOMAIN w : x # d => g[x] = w[x]
  BY <1>1, <1>3, <1>4, HeapWith, Zenon
<1> HIDE DEF g
<1>6. Rids(g) = DOMAIN g /\ Rids(h) = DOMAIN h
  BY <1>1, <1>5, HeapMapFacts, Zenon
<1>7. \A x \in Rids(h) : x # s => x \in Rids(g) /\ g[x] = h[x]
  BY <1>3, <1>4, <1>5, <1>6, Zenon
<1>8. /\ ts \in Seq(Trees) /\ DOMAIN ts = DOMAIN trees
      /\ \A m \in DOMAIN trees :
           (\A i \in IndexesForTable(n) : m # indexes[i].root) => ts[m] = trees[m]
      /\ \A i \in IndexesForTable(n) : indexes[i].root \in DOMAIN trees =>
           ts[indexes[i].root] =
             IF old.key = Null THEN trees[indexes[i].root]
             ELSE Removed(trees[indexes[i].root], <<p, s>>, old)
  BY <1>2, OnDeleteFacts
<1> HIDE DEF ts
<1>9. /\ us \in Seq(Trees) /\ DOMAIN us = DOMAIN ts
      /\ \A m \in DOMAIN ts :
           (\A i \in IndexesForTable(n) : m # indexes[i].root) => us[m] = ts[m]
      /\ \A i \in IndexesForTable(n) : indexes[i].root \in DOMAIN ts =>
           us[indexes[i].root] =
             IF new.key = Null THEN ts[indexes[i].root]
             ELSE Entered(ts[indexes[i].root], <<p, d>>, new)
  <2>1. ts \in Seq(Trees) /\ new \in Rows /\ <<p, d>> \in Nat \X Slots
    BY <1>1, <1>4, <1>8, Zenon
  <2>2. us \in Seq(Trees)
    BY <2>1, OnInsertFacts, Zenon
  <2>3. DOMAIN us = DOMAIN ts
    BY Zenon DEF MaintainIndexesOnInsert
  <2>4. \A m \in DOMAIN ts :
          (\A i \in IndexesForTable(n) : m # indexes[i].root) => us[m] = ts[m]
    BY Zenon DEF MaintainIndexesOnInsert, MaintainedBy
  <2>5. \A i \in IndexesForTable(n) : indexes[i].root \in DOMAIN ts =>
          us[indexes[i].root] =
             IF new.key = Null THEN ts[indexes[i].root]
             ELSE Entered(ts[indexes[i].root], <<p, d>>, new)
    BY <2>1, OnInsertFacts
  <2> QED BY <2>2, <2>3, <2>4, <2>5, Zenon
<1> HIDE DEF us
<1>10. trees' = us
  BY Zenon DEF Replaces, MovedEntries, us, ts
<1>11. ASSUME NEW i \in IndexesForTable(n)
       PROVE  /\ Covers(trees[indexes[i].root], h, p) => Covers(us[indexes[i].root], g, p)
              /\ Exact(trees[indexes[i].root], h, p) => Exact(us[indexes[i].root], g, p)
  <2> DEFINE m == indexes[i].root
  <2>1. m \in DOMAIN trees /\ trees[m] \in Trees
    BY <1>2, <1>11, IndexFacts, Zenon DEF IndexesForTable
  <2>2. /\ ts[m] = IF old.key = Null THEN trees[m] ELSE Removed(trees[m], <<p, s>>, old)
        /\ us[m] = IF new.key = Null THEN ts[m] ELSE Entered(ts[m], <<p, d>>, new)
    BY <1>8, <1>9, <2>1, Zenon
  <2> HIDE DEF m
  <2>3. /\ ts[m] \in Trees
        /\ Covers(trees[m], h, p) => Covers(ts[m], w, p)
        /\ Exact(trees[m], h, p) => Exact(ts[m], w, p)
    <3>1. /\ HeapMap(h) /\ p \in Nat /\ s \in DOMAIN h
          /\ ts[m] = IF h[s].key = Null THEN trees[m] ELSE Removed(trees[m], <<p, s>>, h[s])
      BY <1>0, <1>1, <2>2, Zenon
    <3> QED BY <2>1, <3>1, RemoveEntry, Zenon DEF w
  <2>4. /\ Covers(ts[m], w, p) => Covers(us[m], g, p)
        /\ Exact(ts[m], w, p) => Exact(us[m], g, p)
    BY <1>1, <1>3, <1>4, <2>2, <2>3, InsertEntry, Zenon DEF g
  <2> QED BY <2>3, <2>4, Zenon DEF m
<1>12. heaps' = [heaps EXCEPT ![p] = g]
  BY Zenon DEF Replaces, g, w
<1>13. \A r \in safe' : r.rid[1] = p /\ r.rid[2] \in Rids(h) =>
                          r.rid[2] \in Rids(g) /\ g[r.rid[2]] = h[r.rid[2]]
  BY <1>1, <1>7, Zenon
<1>14. \A m \in DOMAIN trees :
         (\A i \in IndexesForTable(n) : m # indexes[i].root) => us[m] = trees[m]
  BY <1>8, <1>9, Zenon
<1>15. RowWritten(n, p, g, us)
  BY <1>0, <1>1, <1>5, <1>8, <1>9, <1>10, <1>11, <1>12, <1>13, <1>14, Zenon DEF RowWritten
<1>16. StatementInv'
  BY <1>0, <1>1, <1>5, <1>7, <1>12, MatchDone, Zenon
<1> QED BY <1>15, <1>16, RowStep, Zenon DEF DBInv

\* The row is deleted and its insert fails ...
Loses(n, p, s, old, new) ==
  /\ Updates(n, p, s, old, new)
  /\ heaps' = [heaps EXCEPT ![p] = Without(heaps[p], {s})]
  /\ stale' = stale \cup MaintainedBy(n, old) /\ stmt' = Idle /\ trees' = trees

\* ... and the indexes that have an entry for it are stale.
LEMMA UpdateFails ==
  ASSUME DBInv, NEW n, NEW p, NEW s, NEW old, NEW new, Loses(n, p, s, old, new)
  PROVE  DBInv'
<1> DEFINE h == heaps[p]
           g == Without(h, {s})
<1>1. /\ n \in DOMAIN tables /\ p \in Nat /\ p \in DOMAIN heaps
      /\ HeapMap(h) /\ s \in DOMAIN h
      /\ UNCHANGED <<catalogVars, disk, crashed>>
      /\ safe' \subseteq safe /\ \A r \in safe' : r.rid[1] = p => r.rid[2] # s
  BY UpdateFacts, Zenon DEF Loses
<1>0. /\ p = tables[n].first /\ n = stmt.table /\ old = h[s]
      /\ stale' = stale \cup MaintainedBy(n, old) /\ stmt' = Idle /\ trees' = trees
  BY Zenon DEF Loses, Updates
<1>2. CatalogInv /\ FileInv /\ trees \in Seq(Trees)
  BY Zenon DEF DBInv, FileInv
<1>3. /\ HeapMap(g)
      /\ \A x : x \in DOMAIN g <=> x \in DOMAIN h /\ x # s
      /\ \A x \in DOMAIN h : x # s => g[x] = h[x]
  BY <1>1, HeapWithout, Zenon
<1>4. heaps' = [heaps EXCEPT ![p] = g]
  BY Zenon DEF Loses
<1> HIDE DEF g
<1>5. Rids(g) = DOMAIN g /\ Rids(h) = DOMAIN h
  BY <1>1, <1>3, HeapMapFacts, Zenon
<1>6. ASSUME NEW i \in IndexesForTable(n)
      PROVE  /\ Covers(trees[indexes[i].root], h, p) => Covers(trees[indexes[i].root], g, p)
             /\ indexes[i].root \notin stale' /\ Exact(trees[indexes[i].root], h, p) =>
                  Exact(trees[indexes[i].root], g, p)
  <2>1. Covers(trees[indexes[i].root], h, p) => Covers(trees[indexes[i].root], g, p)
    BY <1>3, <1>5, Zenon DEF Covers
  <2>2. indexes[i].root \notin stale' => old.key = Null
    BY <1>0, <1>6, Zenon DEF MaintainedBy
  <2>3. old.key = Null /\ Exact(trees[indexes[i].root], h, p) => Exact(trees[indexes[i].root], g, p)
    <3>1. ASSUME old.key = Null, NEW e,
                 \E y \in Rids(h) : h[y].key # Null /\ e = <<h[y].key, <<p, y>>>>
          PROVE  \E y \in Rids(g) : g[y].key # Null /\ e = <<g[y].key, <<p, y>>>>
      <4>1. PICK y \in Rids(h) : h[y].key # Null /\ e = <<h[y].key, <<p, y>>>>
        BY <3>1, Zenon
      <4>2. y # s
        BY <1>0, <3>1, <4>1, Zenon
      <4>3. y \in Rids(g) /\ g[y] = h[y]
        BY <1>3, <1>5, <4>1, <4>2, Zenon
      <4> QED BY <4>1, <4>3, Zenon
    <3> QED BY <3>1, Zenon DEF Exact
  <2> QED BY <2>1, <2>2, <2>3, Zenon
<1>7. \A r \in safe' : r.rid[1] = p /\ r.rid[2] \in Rids(h) =>
                         r.rid[2] \in Rids(g) /\ g[r.rid[2]] = h[r.rid[2]]
  BY <1>1, <1>3, <1>5, Zenon
<1>8. RowWritten(n, p, g, trees)
  BY <1>0, <1>1, <1>2, <1>3, <1>4, <1>6, <1>7, Zenon DEF RowWritten
<1>9. StatementInv'
  BY <1>0, Zenon DEF StatementInv
<1> QED BY <1>8, <1>9, RowStep, Zenon DEF DBInv

\* One row of UPDATE.
LEMMA UpdateRowKeeps ==
  ASSUME DBInv, UpdateRow
  PROVE  DBInv'
<1> DEFINE n == stmt.table
           p == tables[n].first
           s == NextMatch(stmt)[2]
           old == heaps[p][s]
           new == Assigned(old, stmt.set)
           w == Without(heaps[p], {s})
<1>1. Updates(n, p, s, old, new)
  BY Zenon DEF Updates
<1> HIDE DEF n, p, s, old, new
<1>2. /\ NextMatch(stmt) = <<p, s>> /\ NextMatch(stmt)[1] = p /\ NextMatch(stmt)[2] = s
      /\ s \in DOMAIN heaps[p] /\ HeapMap(heaps[p])
  <2>1. NextMatch(stmt) = <<p, s>> /\ s \in DOMAIN heaps[p] /\ HeapMap(heaps[p])
    BY <1>1, UpdateFacts, Zenon
  <2> QED BY <2>1
<1>3. GetRow(NextMatch(stmt)) = old /\ stmt.table = n /\ Assigned(old, stmt.set) = new
  BY <1>1, <1>2, Zenon DEF GetRow, Updates
<1>4. With(heaps[p], s, new) = With(w, s, new)
  BY <1>2, Zenon DEF With, Without, Restrict
<1>5. \/ \E d : Replaces(n, p, s, old, new, d)
      \/ Loses(n, p, s, old, new)
  <2>1. CASE /\ heaps' = [heaps EXCEPT ![p] = With(@, s, new)]
             /\ trees' = MovedEntries(n, old, <<p, s>>, new, <<p, s>>)
             /\ stmt' = DoneMatch(stmt, <<p, s>>)
             /\ UNCHANGED stale
    <3>1. Replaces(n, p, s, old, new, s)
      BY <1>1, <1>4, <2>1, Zenon DEF Replaces
    <3> QED BY <3>1, Zenon
  <2>2. ASSUME NEW d \in FreeSlots(p) \cup {s},
               heaps' = [heaps EXCEPT ![p] = With(Without(@, {s}), d, new)],
               trees' = MovedEntries(n, old, <<p, s>>, new, <<p, d>>),
               stmt' = DoneMatch(stmt, <<p, s>>),
               UNCHANGED stale
        PROVE  Replaces(n, p, s, old, new, d)
    BY <1>1, <2>2, Zenon DEF Replaces, FreeSlots
  <2>3. CASE /\ heaps' = [heaps EXCEPT ![p] = Without(@, {s})]
             /\ stale' = stale \cup MaintainedBy(n, old)
             /\ stmt' = Idle
             /\ UNCHANGED trees
    BY <1>1, <2>3, Zenon DEF Loses
  <2> QED BY <1>2, <1>3, <2>1, <2>2, <2>3, Zenon DEF UpdateRow
<1> QED BY <1>5, UpdateMoves, UpdateFails, Zenon
-----------------------------------------------------------------------------
(* The first steps of INSERT, UPDATE and DELETE, and the files. *)

\* The statement is checked and the matches are collected.
LEMMA StartKeeps ==
  ASSUME DBInv, NEW n,
         \/ \E rows \in Inserts : ExecuteInsert(n, rows)
         \/ Usable(n) /\ \E where \in Wheres : ExecuteDelete(n, where)
         \/ Usable(n) /\ \E where \in Wheres, set \in Sets : ExecuteUpdate(n, where, set)
  PROVE  DBInv'
<1>1. UNCHANGED <<catalogVars, heaps, trees, disk, stale, crashed, safe>> /\ Usable(n)
  BY Zenon DEF ExecuteInsert, ExecuteDelete, ExecuteUpdate
<1>2. CatalogInv' /\ FileInv' /\ SafeInv' /\ IndexInv'
  BY <1>1, OnlyStatement, Zenon
<1>3. /\ tables' = tables /\ heaps' = heaps /\ Usable(n)' /\ n \in DOMAIN tables
      /\ TableRids(n)' = TableRids(n)
  BY <1>1, Zenon DEF catalogVars, Usable, HeapOf, TableRids
<1>4. ASSUME NEW rows \in Inserts, ExecuteInsert(n, rows) PROVE StatementInv'
  <2>1. stmt' = [kind |-> "insert", table |-> n, todo |-> rows] /\ rows \in Seq(Rows) \ {<<>>}
    BY <1>4, DatabaseAssumption, Zenon DEF ExecuteInsert
  <2>2. stmt'.kind = "insert" /\ stmt'.table = n /\ stmt'.todo = rows
    BY <2>1, Zenon
  <2> QED BY <1>3, <2>1, <2>2, Zenon DEF StatementInv
<1>5. ASSUME NEW where, ExecuteDelete(n, where) PROVE StatementInv'
  <2>1. CASE Matches(n, where) = {}
    BY <1>5, <2>1, Zenon DEF ExecuteDelete, StatementInv
  <2>2. CASE Matches(n, where) # {}
    <3>1. stmt' = [kind |-> "delete", table |-> n, todo |-> Matches(n, where)]
      BY <1>5, <2>2, Zenon DEF ExecuteDelete
    <3>2. stmt'.kind = "delete" /\ stmt'.table = n /\ stmt'.todo = Matches(n, where)
      BY <3>1, Zenon
    <3>3. Matches(n, where) \subseteq TableRids(n)
      BY Zenon DEF Matches
    <3> QED BY <1>3, <2>2, <3>1, <3>2, <3>3, Zenon DEF StatementInv
  <2> QED BY <2>1, <2>2, Zenon
<1>6. ASSUME NEW where, NEW set \in Sets, ExecuteUpdate(n, where, set) PROVE StatementInv'
  <2>1. CASE Matches(n, where) = {}
    BY <1>6, <2>1, Zenon DEF ExecuteUpdate, StatementInv
  <2>2. CASE Matches(n, where) # {}
    <3>1. stmt' = [kind |-> "update", table |-> n, todo |-> Matches(n, where), set |-> set]
      BY <1>6, <2>2, Zenon DEF ExecuteUpdate
    <3>2. /\ stmt'.kind = "update" /\ stmt'.table = n /\ stmt'.todo = Matches(n, where)
          /\ stmt'.set = set
      BY <3>1, Zenon
    <3>3. Matches(n, where) \subseteq TableRids(n)
      BY Zenon DEF Matches
    <3>4. Sets' = Sets
      BY Zenon DEF Sets
    <3> QED BY <1>3, <1>6, <2>2, <3>1, <3>2, <3>3, <3>4, Zenon DEF StatementInv
  <2> QED BY <2>1, <2>2, Zenon
<1> QED BY <1>2, <1>4, <1>5, <1>6, Zenon DEF DBInv

\* A row is still found when catalog rows or pages are added ...
LEMMA FoundKept ==
  ASSUME NEW r, NEW rows, NEW hs, NEW rows2, NEW hs2, Found(r, rows, hs),
         \A k \in Rids(rows) :
           rows[k].name = r.table => k \in Rids(rows2) /\ rows2[k] = rows[k],
         \A k \in Rids(rows) : hs2[rows[k].first] = hs[rows[k].first]
  PROVE  Found(r, rows2, hs2)
BY Zenon DEF Found

\* ... and through the rows of one file and the pages of another, when it is
\* found in both.
LEMMA FoundMixed ==
  ASSUME NEW r, NEW rows, NEW hs, NEW rows2, NEW hs2, Found(r, rows, hs), Found(r, rows2, hs2)
  PROVE  Found(r, rows, hs2)
BY Zenon DEF Found

\* A page is evicted and written.
LEMMA WriteBackKeeps ==
  ASSUME DBInv, WriteBack
  PROVE  DBInv'
<1>1. CatalogInv /\ FileInv /\ SafeInv /\ IndexInv /\ StatementInv
  BY Zenon DEF DBInv
<1>2. /\ tables' = tables /\ indexes' = indexes /\ table_rows' = table_rows
      /\ index_rows' = index_rows /\ next_table_id' = next_table_id
      /\ next_index_id' = next_index_id /\ crashed' = crashed /\ stmt' = stmt
      /\ heaps' = heaps /\ trees' = trees /\ stale' = stale /\ safe' = safe
  BY Zenon DEF WriteBack, catalogVars
<1>3. IndexInv'
  BY <1>1, <1>2, Zenon DEF IndexInv, HeapOf
<1>4. StatementInv'
  BY <1>1, <1>2 DEF StatementInv, Usable, HeapOf, TableRids, Sets
<1>5. PICK dt, di, dh :
        /\ disk = [table_rows |-> dt, index_rows |-> di, heaps |-> dh]
        /\ dt = disk.table_rows /\ di = disk.index_rows /\ dh = disk.heaps
  BY <1>1, Zenon DEF FileInv
<1>6. /\ dh \in Seq(Heaps) /\ Len(dh) = Len(heaps) /\ heaps \in Seq(Heaps)
      /\ DOMAIN dh = DOMAIN heaps /\ OwnHeaps(dt, heaps) /\ OwnTrees(di, trees)
      /\ CatalogFile(dt, Metas, next_table_id) /\ CatalogFile(di, IndexMetas, next_index_id)
  BY <1>1, <1>5 DEF FileInv, CatalogInv
<1>7. \A r \in safe : Found(r, table_rows, heaps) /\ Found(r, dt, dh)
  BY <1>1, <1>5, Zenon DEF SafeInv
<1>8. CASE disk' = [disk EXCEPT !.table_rows = table_rows]
  <2>1. disk' = [table_rows |-> table_rows, index_rows |-> di, heaps |-> dh]
    BY <1>5, <1>8, Zenon
  <2>2. disk'.table_rows = table_rows /\ disk'.index_rows = di /\ disk'.heaps = dh
    BY <2>1, Zenon
  <2>3. CatalogInv'
    BY <1>1, <1>2, <1>6, <2>2, Zenon DEF CatalogInv
  <2>4. FileInv'
    BY <1>1, <1>2, <1>6, <2>1, <2>2, Zenon DEF FileInv
  <2>5. SafeInv'
    BY <1>1, <1>2, <1>7, <2>2, FoundMixed, Zenon DEF SafeInv
  <2> QED BY <1>3, <1>4, <2>3, <2>4, <2>5, Zenon DEF DBInv
<1>9. CASE disk' = [disk EXCEPT !.index_rows = index_rows]
  <2>1. disk' = [table_rows |-> dt, index_rows |-> index_rows, heaps |-> dh]
    BY <1>5, <1>9, Zenon
  <2>2. disk'.table_rows = dt /\ disk'.index_rows = index_rows /\ disk'.heaps = dh
    BY <2>1, Zenon
  <2>3. CatalogInv'
    BY <1>1, <1>2, <1>6, <2>2, Zenon DEF CatalogInv
  <2>4. FileInv'
    BY <1>1, <1>2, <1>6, <2>1, <2>2, Zenon DEF FileInv
  <2>5. SafeInv'
    BY <1>1, <1>2, <1>7, <2>2, Zenon DEF SafeInv
  <2> QED BY <1>3, <1>4, <2>3, <2>4, <2>5, Zenon DEF DBInv
<1>10. ASSUME NEW p \in DOMAIN heaps, disk' = [disk EXCEPT !.heaps[p] = heaps[p]]
       PROVE  DBInv'
  <2> DEFINE eh == [dh EXCEPT ![p] = heaps[p]]
  <2>1. disk' = [table_rows |-> dt, index_rows |-> di, heaps |-> eh]
    BY <1>5, <1>10, Zenon
  <2>2. /\ eh \in Seq(Heaps) /\ Len(eh) = Len(heaps) /\ eh[p] = heaps[p]
        /\ \A q \in DOMAIN heaps : q # p => eh[q] = dh[q]
    BY <1>6, <1>10
  <2> HIDE DEF eh
  <2>3. disk'.table_rows = dt /\ disk'.index_rows = di /\ disk'.heaps = eh
    BY <2>1, Zenon
  <2>4. CatalogInv'
    BY <1>1, <1>2, <1>6, <2>3, Zenon DEF CatalogInv
  <2>5. FileInv'
    BY <1>1, <1>2, <1>6, <2>1, <2>2, <2>3, Zenon DEF FileInv
  <2>6. ASSUME NEW r \in safe PROVE Found(r, dt, eh)
    <3>1. Found(r, dt, heaps) /\ Found(r, dt, dh)
      BY <1>7, <2>6, FoundMixed, Zenon
    <3>2. PICK k \in Rids(dt) :
            /\ dt[k].name = r.table /\ r.rid[1] = dt[k].first
            /\ r.rid[2] \in Rids(dh[r.rid[1]]) /\ r.row = dh[r.rid[1]][r.rid[2]]
      BY <3>1, Zenon DEF Found
    <3>3. r.rid[2] \in Rids(heaps[r.rid[1]]) /\ r.row = heaps[r.rid[1]][r.rid[2]]
      BY <3>1, Zenon DEF Found
    <3>4. r.rid[1] \in DOMAIN heaps
      BY <1>6, <3>2, Zenon DEF OwnHeaps
    <3>5. eh[r.rid[1]] = heaps[r.rid[1]] \/ eh[r.rid[1]] = dh[r.rid[1]]
      BY <2>2, <3>4, Zenon
    <3>6. r.rid[2] \in Rids(eh[r.rid[1]]) /\ r.row = eh[r.rid[1]][r.rid[2]]
      BY <3>2, <3>3, <3>5, Zenon
    <3> QED BY <3>2, <3>6, Zenon DEF Found
  <2>7. SafeInv'
    BY <1>1, <1>2, <1>7, <2>3, <2>6, Zenon DEF SafeInv
  <2> QED BY <1>3, <1>4, <2>4, <2>5, <2>7, Zenon DEF DBInv
<1> QED BY <1>8, <1>9, <1>10, Zenon DEF WriteBack

\* Ids of metadata are numbers.
LEMMA MetaIds ==
  (\A m \in Metas : m.id \in Nat) /\ (\A m \in IndexMetas : m.id \in Nat)
BY Zenon DEF Metas, IndexMetas

\* FlushAll, and a restart after it.
LEMMA FlushKeeps ==
  ASSUME DBInv, FlushAll \/ Restart
  PROVE  DBInv'
<1>1. CatalogInv /\ FileInv /\ SafeInv /\ IndexInv /\ StatementInv
  BY Zenon DEF DBInv
<1>2. /\ heaps' = heaps /\ trees' = trees /\ stale' = stale /\ crashed' = crashed
      /\ stmt' = Idle /\ disk' = Flushed /\ safe' = AllRows
  BY Zenon DEF FlushAll, Restart
<1>3. /\ tables' = tables /\ indexes' = indexes /\ table_rows' = table_rows
      /\ index_rows' = index_rows
      /\ next_table_id' \in Nat \ {0} /\ next_index_id' \in Nat \ {0}
      /\ CatalogFile(table_rows, Metas, next_table_id')
      /\ CatalogFile(index_rows, IndexMetas, next_index_id')
  <2>1. CASE FlushAll
    BY <1>1, <2>1, Zenon DEF FlushAll, catalogVars, CatalogInv
  <2>2. CASE Restart
    <3>1. /\ NextIdAfter(table_rows) \in Nat \ {0}
          /\ CatalogFile(table_rows, Metas, NextIdAfter(table_rows))
      BY <1>1, MetaIds, NextIdFacts, Zenon DEF CatalogInv
    <3>2. /\ NextIdAfter(index_rows) \in Nat \ {0}
          /\ CatalogFile(index_rows, IndexMetas, NextIdAfter(index_rows))
      BY <1>1, MetaIds, NextIdFacts, Zenon DEF CatalogInv
    <3> QED BY <1>1, <2>2, <3>1, <3>2, Zenon DEF Restart, LoadCatalog, CatalogInv
  <2> QED BY <2>1, <2>2, Zenon
<1>4. /\ disk' = [table_rows |-> table_rows, index_rows |-> index_rows, heaps |-> heaps]
      /\ disk'.table_rows = table_rows /\ disk'.index_rows = index_rows /\ disk'.heaps = heaps
  BY <1>2, Zenon DEF Flushed
<1>5. CatalogInv'
  BY <1>1, <1>3, <1>4, Zenon DEF CatalogInv
<1>6. FileInv'
  BY <1>1, <1>2, <1>3, <1>4, Zenon DEF FileInv
<1>7. StatementInv'
  BY <1>2, Zenon DEF StatementInv
<1>8. IndexInv'
  BY <1>1, <1>2, <1>3, Zenon DEF IndexInv, HeapOf
<1>9. SafeInv'
  BY <1>1, <1>2, <1>3, <1>4, AllRowsFound, Zenon DEF SafeInv
<1> QED BY <1>5, <1>6, <1>7, <1>8, <1>9, Zenon DEF DBInv

\* The process dies and starts again on what the files hold.
LEMMA CrashKeeps ==
  ASSUME DBInv, Crash
  PROVE  DBInv'
<1>1. CatalogInv /\ FileInv /\ SafeInv
  BY Zenon DEF DBInv
<1>2. /\ heaps' = disk.heaps /\ trees' = [m \in DOMAIN trees |-> <<>>] /\ crashed'
      /\ stmt' = Idle /\ disk' = disk /\ safe' = safe
      /\ table_rows' = disk.table_rows /\ index_rows' = disk.index_rows
      /\ tables' = LoadedFrom(disk.table_rows) /\ indexes' = LoadedFrom(disk.index_rows)
      /\ next_table_id' = NextIdAfter(disk.table_rows)
      /\ next_index_id' = NextIdAfter(disk.index_rows)
  BY Zenon DEF Crash, LoadCatalog
<1>3. /\ NextIdAfter(disk.table_rows) \in Nat \ {0}
      /\ CatalogFile(disk.table_rows, Metas, NextIdAfter(disk.table_rows))
  BY <1>1, MetaIds, NextIdFacts, Zenon DEF CatalogInv
<1>4. /\ NextIdAfter(disk.index_rows) \in Nat \ {0}
      /\ CatalogFile(disk.index_rows, IndexMetas, NextIdAfter(disk.index_rows))
  BY <1>1, MetaIds, NextIdFacts, Zenon DEF CatalogInv
<1>5. CatalogInv'
  BY <1>2, <1>3, <1>4, Zenon DEF CatalogInv
<1>6. <<>> \in Trees
  <2>1. <<>> \in [{} -> Nat \ {0}]
    OBVIOUS
  <2> QED BY <2>1, Zenon DEF Trees
<1>7. /\ trees \in Seq(Trees) /\ heaps \in Seq(Heaps) /\ disk.heaps \in Seq(Heaps)
      /\ Len(disk.heaps) = Len(heaps)
  BY <1>1, Zenon DEF FileInv
<1>8. trees' \in Seq(Trees) /\ DOMAIN trees' = DOMAIN trees
  BY <1>2, <1>6, <1>7
<1>9. OwnHeaps(disk.table_rows, disk.heaps) /\ OwnTrees(disk.index_rows, trees')
  BY <1>1, <1>7, <1>8 DEF FileInv, OwnHeaps, OwnTrees
<1>10. FileInv'
  BY <1>1, <1>2, <1>7, <1>8, <1>9, Zenon DEF FileInv
<1>11. SafeInv'
  BY <1>1, <1>2, Zenon DEF SafeInv
<1>12. StatementInv' /\ IndexInv'
  BY <1>2, Zenon DEF StatementInv, IndexInv
<1> QED BY <1>5, <1>10, <1>11, <1>12, Zenon DEF DBInv

-----------------------------------------------------------------------------
(* The statements that change the catalog. *)

\* A page is added at the end of a file.
LEMMA PageAppended ==
  ASSUME NEW hs \in Seq(Heaps), NEW h \in Heaps
  PROVE  /\ Append(hs, h) \in Seq(Heaps) /\ Len(Append(hs, h)) = Len(hs) + 1
         /\ Append(hs, h)[Len(hs) + 1] = h /\ Len(hs) + 1 \in DOMAIN Append(hs, h)
         /\ Len(hs) + 1 \notin DOMAIN hs
         /\ \A q \in DOMAIN hs : q \in DOMAIN Append(hs, h) /\ Append(hs, h)[q] = hs[q]
OBVIOUS

\* CREATE TABLE, with what it does to the catalog: nothing, a table of its own
\* under a new name, or only an id used up.
TableAdded(n, rid, meta) ==
  /\ Readable(table_rows) /\ rid \in CatalogRids \ DOMAIN table_rows
  /\ n \notin DOMAIN tables
  /\ meta = [id |-> next_table_id, name |-> n, first |-> Len(heaps) + 1, rid |-> 0]
  /\ table_rows' = With(table_rows, rid, meta)
  /\ tables' = With(tables, n, [meta EXCEPT !.rid = rid])
  /\ next_table_id' = next_table_id + 1

\* What every CREATE TABLE does to the files.
LEMMA CreateFiles ==
  ASSUME DBInv, NEW n, ExecuteCreateTable(n)
  PROVE  /\ CatalogInv /\ FileInv /\ SafeInv /\ IndexInv
         /\ heaps' \in Seq(Heaps) /\ Len(heaps') = Len(heaps) + 1 /\ heaps'[Len(heaps) + 1] = <<>>
         /\ Len(heaps) + 1 \in DOMAIN heaps' /\ Len(heaps) + 1 \notin DOMAIN heaps
         /\ Len(heaps) + 1 \in Nat
         /\ \A q \in DOMAIN heaps : q \in DOMAIN heaps' /\ heaps'[q] = heaps[q]
         /\ disk' = [table_rows |-> disk.table_rows, index_rows |-> disk.index_rows,
                     heaps |-> disk'.heaps]
         /\ disk'.table_rows = disk.table_rows /\ disk'.index_rows = disk.index_rows
         /\ disk'.heaps \in Seq(Heaps) /\ Len(disk'.heaps) = Len(heaps) + 1
         /\ \A q \in DOMAIN heaps : disk'.heaps[q] = disk.heaps[q]
         /\ indexes' = indexes /\ index_rows' = index_rows /\ next_index_id' = next_index_id
         /\ trees' = trees /\ stmt' = Idle /\ stale' = stale /\ crashed' = crashed /\ safe' = safe
<1>1. CatalogInv /\ FileInv /\ SafeInv /\ IndexInv
  BY Zenon DEF DBInv
<1>2. /\ heaps \in Seq(Heaps) /\ disk.heaps \in Seq(Heaps) /\ Len(disk.heaps) = Len(heaps)
  BY <1>1, Zenon DEF FileInv
<1>3. <<>> \in Heaps /\ NoPage \in Heaps
  <2>1. <<>> \in [{} -> Rows]
    OBVIOUS
  <2> QED BY <2>1, Zenon DEF Heaps
<1>4. heaps' = Append(heaps, <<>>) /\ disk' = [disk EXCEPT !.heaps = Append(@, NoPage)]
  BY Zenon DEF ExecuteCreateTable
<1>5. PICK dt, di, dh :
        /\ disk = [table_rows |-> dt, index_rows |-> di, heaps |-> dh]
        /\ dt = disk.table_rows /\ di = disk.index_rows /\ dh = disk.heaps
  BY <1>1, Zenon DEF FileInv
<1>6. disk' = [table_rows |-> dt, index_rows |-> di, heaps |-> Append(dh, NoPage)]
  BY <1>4, <1>5, Zenon
<1>7. disk'.table_rows = dt /\ disk'.index_rows = di /\ disk'.heaps = Append(dh, NoPage)
  BY <1>6, Zenon
<1>8. /\ heaps' \in Seq(Heaps) /\ Len(heaps') = Len(heaps) + 1 /\ heaps'[Len(heaps) + 1] = <<>>
      /\ Len(heaps) + 1 \in DOMAIN heaps' /\ Len(heaps) + 1 \notin DOMAIN heaps
      /\ \A q \in DOMAIN heaps : q \in DOMAIN heaps' /\ heaps'[q] = heaps[q]
  BY <1>2, <1>3, <1>4, PageAppended, Zenon
<1>9. /\ disk'.heaps \in Seq(Heaps) /\ Len(disk'.heaps) = Len(heaps) + 1
      /\ \A q \in DOMAIN heaps : disk'.heaps[q] = disk.heaps[q]
  <2>1. dh \in Seq(Heaps) /\ Len(dh) = Len(heaps) /\ DOMAIN dh = DOMAIN heaps
    BY <1>2, <1>5
  <2>2. /\ Append(dh, NoPage) \in Seq(Heaps) /\ Len(Append(dh, NoPage)) = Len(heaps) + 1
        /\ \A q \in DOMAIN heaps : Append(dh, NoPage)[q] = dh[q]
    BY <1>3, <2>1, PageAppended, Zenon
  <2> QED BY <1>5, <1>7, <2>2, Zenon
<1>10. /\ indexes' = indexes /\ index_rows' = index_rows /\ next_index_id' = next_index_id
       /\ trees' = trees /\ stmt' = Idle /\ stale' = stale /\ crashed' = crashed /\ safe' = safe
  BY Zenon DEF ExecuteCreateTable, Begin
<1>11. Len(heaps) + 1 \in Nat
  BY <1>2
<1> QED BY <1>1, <1>5, <1>6, <1>7, <1>8, <1>9, <1>10, <1>11, Zenon

\* The name is taken, or the row cannot be written: the table is not there.
LEMMA CreateRefused ==
  ASSUME DBInv, NEW n, ExecuteCreateTable(n), tables' = tables, table_rows' = table_rows,
         next_table_id' = next_table_id \/ next_table_id' = next_table_id + 1
  PROVE  DBInv'
<1>1. /\ CatalogInv /\ FileInv /\ SafeInv /\ IndexInv
      /\ heaps' \in Seq(Heaps) /\ Len(heaps') = Len(heaps) + 1
      /\ \A q \in DOMAIN heaps : q \in DOMAIN heaps' /\ heaps'[q] = heaps[q]
      /\ disk' = [table_rows |-> disk.table_rows, index_rows |-> disk.index_rows,
                  heaps |-> disk'.heaps]
      /\ disk'.table_rows = disk.table_rows /\ disk'.index_rows = disk.index_rows
      /\ disk'.heaps \in Seq(Heaps) /\ Len(disk'.heaps) = Len(heaps) + 1
      /\ \A q \in DOMAIN heaps : disk'.heaps[q] = disk.heaps[q]
      /\ indexes' = indexes /\ index_rows' = index_rows /\ next_index_id' = next_index_id
      /\ trees' = trees /\ stmt' = Idle /\ stale' = stale /\ crashed' = crashed /\ safe' = safe
  BY CreateFiles, Zenon
<1>2. /\ next_table_id' \in Nat \ {0}
      /\ CatalogFile(table_rows, Metas, next_table_id')
      /\ CatalogFile(disk.table_rows, Metas, next_table_id')
  BY <1>1, MetaIds, LaterIds DEF CatalogInv
<1>3. CatalogInv'
  BY <1>1, <1>2, Zenon DEF CatalogInv
<1>4. OwnHeaps(table_rows, heaps') /\ OwnHeaps(disk.table_rows, heaps')
  BY <1>1, Zenon DEF FileInv, OwnHeaps
<1>5. FileInv'
  BY <1>1, <1>4, Zenon DEF FileInv
<1>6. StatementInv'
  BY <1>1, Zenon DEF StatementInv
<1>7. ASSUME NEW r \in safe PROVE Found(r, table_rows, heaps') /\ Found(r, disk.table_rows, disk'.heaps)
  <2>1. Found(r, table_rows, heaps) /\ Found(r, disk.table_rows, disk.heaps)
    BY <1>1, <1>7, Zenon DEF SafeInv
  <2>2. \A k \in Rids(table_rows) : heaps'[table_rows[k].first] = heaps[table_rows[k].first]
    BY <1>1, Zenon DEF FileInv, OwnHeaps
  <2>3. \A k \in Rids(disk.table_rows) :
           disk'.heaps[disk.table_rows[k].first] = disk.heaps[disk.table_rows[k].first]
    BY <1>1, Zenon DEF FileInv, OwnHeaps
  <2> QED BY <2>1, <2>2, <2>3, FoundKept
<1>8. SafeInv'
  BY <1>1, <1>7, Zenon DEF SafeInv
<1>9. \A m \in DOMAIN tables : heaps'[tables[m].first] = heaps[tables[m].first]
  BY <1>1, TableFacts, Zenon
<1>10. IndexInv'
  BY <1>1, <1>9, Zenon DEF IndexInv, HeapOf
<1> QED BY <1>3, <1>5, <1>6, <1>8, <1>10, Zenon DEF DBInv

\* A new table: its page is its own and has no rows yet, so that an index that
\* an earlier table of this name left behind covers it.
LEMMA CreateAdds ==
  ASSUME DBInv, NEW n \in TableNames, ExecuteCreateTable(n), NEW k, NEW meta, TableAdded(n, k, meta)
  PROVE  DBInv'
<1> DEFINE new == With(table_rows, k, meta)
           p == Len(heaps) + 1
<1>1. /\ CatalogInv /\ FileInv /\ SafeInv /\ IndexInv
      /\ heaps' \in Seq(Heaps) /\ Len(heaps') = p /\ heaps'[p] = <<>>
      /\ p \in DOMAIN heaps' /\ p \notin DOMAIN heaps /\ p \in Nat
      /\ \A q \in DOMAIN heaps : q \in DOMAIN heaps' /\ heaps'[q] = heaps[q]
      /\ disk' = [table_rows |-> disk.table_rows, index_rows |-> disk.index_rows,
                  heaps |-> disk'.heaps]
      /\ disk'.table_rows = disk.table_rows /\ disk'.index_rows = disk.index_rows
      /\ disk'.heaps \in Seq(Heaps) /\ Len(disk'.heaps) = p
      /\ \A q \in DOMAIN heaps : disk'.heaps[q] = disk.heaps[q]
      /\ indexes' = indexes /\ index_rows' = index_rows /\ next_index_id' = next_index_id
      /\ trees' = trees /\ stmt' = Idle /\ stale' = stale /\ crashed' = crashed /\ safe' = safe
  BY CreateFiles, Zenon
<1>2. /\ table_rows' = new /\ tables' = With(tables, n, [meta EXCEPT !.rid = k])
      /\ next_table_id' = next_table_id + 1
      /\ Readable(table_rows) /\ k \in CatalogRids \ DOMAIN table_rows /\ n \notin DOMAIN tables
      /\ meta = [id |-> next_table_id, name |-> n, first |-> p, rid |-> 0]
  BY Zenon DEF TableAdded
<1> HIDE DEF p
<1>3. /\ next_table_id \in Nat \ {0} /\ CatalogFile(table_rows, Metas, next_table_id)
      /\ tables = LoadedFrom(table_rows) /\ CatalogFile(disk.table_rows, Metas, next_table_id)
  BY <1>1, Zenon DEF CatalogInv
<1>4. meta \in Metas /\ meta.id = next_table_id /\ meta.name = n /\ meta.first = p
  BY <1>1, <1>2, <1>3, Zenon DEF Metas
<1>5. /\ CatalogFile(new, Metas, next_table_id + 1)
      /\ \A r : r \in Rids(new) <=> r \in Rids(table_rows) \/ r = k
      /\ new[k] = meta
      /\ \A r \in Rids(table_rows) : new[r] = table_rows[r] /\ r # k
      /\ LoadedFrom(new) = With(tables, n, [meta EXCEPT !.rid = k])
  BY <1>2, <1>3, <1>4, MetaIds, RowAdded
<1> HIDE DEF new
<1>6. CatalogFile(disk.table_rows, Metas, next_table_id + 1) /\ next_table_id + 1 \in Nat \ {0}
  BY <1>3, MetaIds, LaterIds
<1>7. CatalogInv'
  BY <1>1, <1>2, <1>5, <1>6, Zenon DEF CatalogInv
<1>8. \A r \in Rids(table_rows) : table_rows[r].first \in DOMAIN heaps /\ table_rows[r].first # p
  BY <1>1, Zenon DEF FileInv, OwnHeaps
<1>9. OwnHeaps(new, heaps')
  <2>1. \A r \in Rids(new) : new[r].first \in DOMAIN heaps'
    BY <1>1, <1>4, <1>5, <1>8
  <2>2. ASSUME NEW r \in Rids(new), NEW q \in Rids(new), new[r].first = new[q].first
        PROVE  r = q
    <3>1. CASE r = k \/ q = k
      BY <1>4, <1>5, <1>8, <2>2, <3>1, Zenon
    <3>2. CASE r # k /\ q # k
      <4>1. r \in Rids(table_rows) /\ q \in Rids(table_rows)
            /\ table_rows[r].first = table_rows[q].first
        BY <1>5, <2>2, <3>2, Zenon
      <4> QED BY <1>1, <4>1, Zenon DEF FileInv, OwnHeaps
    <3> QED BY <3>1, <3>2, Zenon
  <2> QED BY <2>1, <2>2, Zenon DEF OwnHeaps
<1>10. OwnHeaps(disk.table_rows, heaps')
  BY <1>1, Zenon DEF FileInv, OwnHeaps
<1>11. FileInv'
  BY <1>1, <1>2, <1>9, <1>10, Zenon DEF FileInv
<1>12. StatementInv'
  BY <1>1, Zenon DEF StatementInv
<1>13. ASSUME NEW r \in safe PROVE Found(r, new, heaps') /\ Found(r, disk.table_rows, disk'.heaps)
  <2>1. Found(r, table_rows, heaps) /\ Found(r, disk.table_rows, disk.heaps)
    BY <1>1, <1>13, Zenon DEF SafeInv
  <2>2. \A q \in Rids(table_rows) : heaps'[table_rows[q].first] = heaps[table_rows[q].first]
    BY <1>1, <1>8, Zenon
  <2>3. \A q \in Rids(table_rows) : q \in Rids(new) /\ new[q] = table_rows[q]
    BY <1>5, Zenon
  <2>4. \A q \in Rids(disk.table_rows) :
           disk'.heaps[disk.table_rows[q].first] = disk.heaps[disk.table_rows[q].first]
    BY <1>1, Zenon DEF FileInv, OwnHeaps
  <2>5. Found(r, new, heaps')
    BY <2>1, <2>2, <2>3, FoundKept
  <2> QED BY <2>1, <2>4, <2>5, FoundKept, Zenon
<1>14. SafeInv'
  BY <1>1, <1>2, <1>13, Zenon DEF SafeInv
<1>15. /\ DOMAIN tables' = DOMAIN tables \cup {n} /\ tables'[n].first = p
       /\ \A m \in DOMAIN tables : tables'[m] = tables[m]
  <2>1. [meta EXCEPT !.rid = k].first = p
    BY <1>2, Zenon
  <2> QED BY <1>2, <2>1, Zenon DEF With
<1>16. \A m \in DOMAIN tables : heaps'[tables[m].first] = heaps[tables[m].first]
  BY <1>1, TableFacts, Zenon
<1>17. Rids(heaps'[p]) = {}
  BY <1>1 DEF Rids
<1>18. ASSUME ~crashed, NEW i \in DOMAIN indexes
       PROVE  /\ indexes[i].table \in DOMAIN tables' =>
                   Covers(trees[indexes[i].root], heaps'[tables'[indexes[i].table].first],
                          tables'[indexes[i].table].first)
              /\ indexes[i].root \notin stale =>
                   /\ indexes[i].table \in DOMAIN tables'
                   /\ Exact(trees[indexes[i].root], heaps'[tables'[indexes[i].table].first],
                            tables'[indexes[i].table].first)
  <2>1. CASE indexes[i].table = n
    <3>1. indexes[i].root \in stale
      BY <1>1, <1>2, <1>18, <2>1, Zenon DEF IndexInv
    <3> QED BY <1>15, <1>17, <2>1, <3>1, Zenon DEF Covers
  <2>2. CASE indexes[i].table # n
    BY <1>1, <1>15, <1>16, <1>18, <2>2 DEF IndexInv, HeapOf
  <2> QED BY <2>1, <2>2, Zenon
<1>19. IndexInv'
  BY <1>1, <1>18, Zenon DEF IndexInv, HeapOf
<1> QED BY <1>7, <1>11, <1>12, <1>14, <1>19, Zenon DEF DBInv

\* CREATE TABLE.
LEMMA CreateTableKeeps ==
  ASSUME DBInv, NEW n \in TableNames, ExecuteCreateTable(n)
  PROVE  DBInv'
<1>1. CASE tables' = tables /\ table_rows' = table_rows
           /\ (next_table_id' = next_table_id \/ next_table_id' = next_table_id + 1)
  BY <1>1, CreateRefused, Zenon
<1>2. CASE \E k, meta : TableAdded(n, k, meta)
  BY <1>2, CreateAdds, Zenon
<1>3. ASSUME n \notin DOMAIN tables, AddTable(n, Len(heaps) + 1), Readable(table_rows)
      PROVE  \E k, meta : TableAdded(n, k, meta)
  <2> DEFINE meta == [id |-> next_table_id, name |-> n, first |-> Len(heaps) + 1, rid |-> 0]
  <2>1. /\ next_table_id' = next_table_id + 1
        /\ \E k \in CatalogRids \ DOMAIN table_rows :
             /\ table_rows' = With(table_rows, k, meta)
             /\ tables' = With(tables, n, [meta EXCEPT !.rid = k])
    BY <1>3, Zenon DEF AddTable
  <2>2. PICK k \in CatalogRids \ DOMAIN table_rows :
          /\ table_rows' = With(table_rows, k, meta)
          /\ tables' = With(tables, n, [meta EXCEPT !.rid = k])
    BY <2>1, Zenon
  <2>3. TableAdded(n, k, meta)
    BY <1>3, <2>1, <2>2, Zenon DEF TableAdded
  <2> QED BY <2>3, Zenon
<1>4. ASSUME AddTable(n, Len(heaps) + 1), ~Readable(table_rows)
      PROVE  tables' = tables /\ table_rows' = table_rows /\ next_table_id' = next_table_id + 1
  BY <1>4, Zenon DEF AddTable
<1> QED BY <1>1, <1>2, <1>3, <1>4, Zenon DEF ExecuteCreateTable

\* DROP TABLE: its indexes are stale, its rows no longer safe.
LEMMA DropTableKeeps ==
  ASSUME DBInv, NEW n, ExecuteDropTable(n)
  PROVE  DBInv'
<1> DEFINE k == tables[n].rid
           new == Without(table_rows, {k})
<1>1. CatalogInv /\ FileInv /\ SafeInv /\ IndexInv
  BY Zenon DEF DBInv
<1>2. /\ n \in DOMAIN tables /\ table_rows' = new /\ tables' = Without(tables, {n})
      /\ stale' = stale \cup {indexes[i].root : i \in IndexesForTable(n)}
      /\ safe' = {r \in safe : r.table # n}
      /\ indexes' = indexes /\ index_rows' = index_rows /\ next_table_id' = next_table_id
      /\ next_index_id' = next_index_id /\ heaps' = heaps /\ trees' = trees /\ stmt' = Idle
      /\ disk' = disk /\ crashed' = crashed
  BY Zenon DEF ExecuteDropTable, RemoveTable, TableRowsWithout, Begin
<1>3. k \in Rids(table_rows) /\ table_rows[k].name = n
  BY <1>1, <1>2, TableFacts, Zenon
<1>4. /\ CatalogFile(new, Metas, next_table_id)
      /\ Rids(new) = Rids(table_rows) \ {k}
      /\ LoadedFrom(new) = Without(tables, {n})
  <2>1. CatalogFile(table_rows, Metas, next_table_id) /\ tables = LoadedFrom(table_rows)
    BY <1>1, Zenon DEF CatalogInv
  <2>2. ASSUME NEW r \in Rids(table_rows)
        PROVE  /\ CatalogFile(Without(table_rows, {r}), Metas, next_table_id)
               /\ Rids(Without(table_rows, {r})) = Rids(table_rows) \ {r}
               /\ LoadedFrom(Without(table_rows, {r})) = Without(tables, {table_rows[r].name})
    BY <2>1, LoadedWithout, Zenon
  <2> QED BY <1>3, <2>2, Zenon
<1>5. \A r \in Rids(new) : new[r] = table_rows[r]
  BY <1>4, Zenon DEF Without, Restrict, Rids
<1> HIDE DEF new
<1>6. CatalogInv'
  BY <1>1, <1>2, <1>4, Zenon DEF CatalogInv
<1>7. OwnHeaps(new, heaps)
  BY <1>1, <1>4, <1>5, Zenon DEF FileInv, OwnHeaps
<1>8. FileInv'
  BY <1>1, <1>2, <1>7, Zenon DEF FileInv
<1>9. ASSUME NEW r \in safe, r.table # n PROVE Found(r, new, heaps)
  <2>1. Found(r, table_rows, heaps)
    BY <1>1, <1>9, Zenon DEF SafeInv
  <2>2. \A q \in Rids(table_rows) : table_rows[q].name = r.table => q \in Rids(new) /\ new[q] = table_rows[q]
    BY <1>3, <1>4, <1>5, <1>9, Zenon
  <2> QED BY <2>1, <2>2, FoundKept, Zenon
<1>10. SafeInv'
  BY <1>1, <1>2, <1>9, Zenon DEF SafeInv
<1>11. StatementInv'
  BY <1>2, Zenon DEF StatementInv
<1>12. \A m : m \in DOMAIN tables' => m \in DOMAIN tables /\ m # n /\ tables'[m] = tables[m]
  BY <1>2, Zenon DEF Without, Restrict
<1>13. \A m \in DOMAIN tables : m # n => m \in DOMAIN tables'
  BY <1>2, Zenon DEF Without, Restrict
<1>14. \A i \in DOMAIN indexes : indexes[i].root \notin stale' =>
          indexes[i].root \notin stale /\ indexes[i].table # n
  BY <1>2, Zenon DEF IndexesForTable
<1>15. IndexInv'
  BY <1>1, <1>2, <1>12, <1>13, <1>14, Zenon DEF IndexInv, HeapOf
<1> QED BY <1>6, <1>8, <1>10, <1>11, <1>15, Zenon DEF DBInv

\* The tree that CREATE INDEX builds.
BuiltTree(n) == [e \in {<<GetRow(rid).key, rid>> : rid \in Indexed(TableRids(n))} |-> 1]

\* It has the table's rows with a key, each once.
LEMMA BuiltFacts ==
  ASSUME CatalogInv, FileInv, NEW n \in DOMAIN tables, NEW p, p = tables[n].first
  PROVE  /\ BuiltTree(n) \in Trees
         /\ Covers(BuiltTree(n), heaps[p], p)
         /\ Exact(BuiltTree(n), heaps[p], p)
<1> DEFINE h == heaps[p]
           t == BuiltTree(n)
<1>1. h \in Heaps /\ p \in Nat
  BY TableFacts, Zenon DEF HeapOf
<1>2. /\ Rids(h) \subseteq Slots /\ \A s \in Rids(h) : h[s] \in Rows
  BY <1>1, HeapFacts, Zenon DEF HeapMap
<1>3. \A e : e \in {<<GetRow(rid).key, rid>> : rid \in Indexed(TableRids(n))} <=>
               \E s \in Rids(h) : h[s].key # Null /\ e = <<h[s].key, <<p, s>>>>
  BY DEF Indexed, TableRids, GetRow, HeapOf
<1>4. t = [e \in {<<GetRow(rid).key, rid>> : rid \in Indexed(TableRids(n))} |-> 1]
  BY Zenon DEF BuiltTree
<1>5. /\ t = [e \in DOMAIN t |-> 1]
      /\ \A e : e \in DOMAIN t <=> \E s \in Rids(h) : h[s].key # Null /\ e = <<h[s].key, <<p, s>>>>
  BY <1>3, <1>4, Zenon
<1> HIDE DEF t
<1>6. DOMAIN t \subseteq Keys \X (Nat \X Slots)
  <2>1. ASSUME NEW e \in DOMAIN t PROVE e \in Keys \X (Nat \X Slots)
    <3>1. PICK s \in Rids(h) : h[s].key # Null /\ e = <<h[s].key, <<p, s>>>>
      BY <1>5, <2>1, Zenon
    <3>2. h[s].key \in Keys /\ s \in Slots
      BY <1>2, <3>1, Zenon DEF Rows
    <3> QED BY <1>1, <3>1, <3>2, Zenon
  <2> QED BY <2>1, Zenon
<1>7. t \in [DOMAIN t -> Nat \ {0}]
  BY <1>5
<1>8. t \in Trees
  BY <1>6, <1>7, Zenon DEF Trees
<1>9. Covers(t, h, p)
  BY <1>5, Zenon DEF Covers
<1>10. Exact(t, h, p)
  BY <1>5, Zenon DEF Exact
<1> QED BY <1>8, <1>9, <1>10, Zenon DEF t

\* A tree is added at the end.
LEMMA TreeAppended ==
  ASSUME NEW ts \in Seq(Trees), NEW t \in Trees
  PROVE  /\ Append(ts, t) \in Seq(Trees)
         /\ Append(ts, t)[Len(ts) + 1] = t /\ Len(ts) + 1 \in DOMAIN Append(ts, t)
         /\ Len(ts) + 1 \notin DOMAIN ts /\ Len(ts) + 1 \in Nat
         /\ \A q \in DOMAIN ts : q \in DOMAIN Append(ts, t) /\ Append(ts, t)[q] = ts[q]
OBVIOUS

\* The row of the new index.
IndexAdded(i, n, k, meta) ==
  /\ Readable(index_rows) /\ k \in CatalogRids \ DOMAIN index_rows
  /\ i \notin DOMAIN indexes
  /\ meta = [id |-> next_index_id, name |-> i, table |-> n, root |-> Len(trees) + 1, rid |-> 0]
  /\ index_rows' = With(index_rows, k, meta)
  /\ indexes' = With(indexes, i, [meta EXCEPT !.rid = k])
  /\ next_index_id' = next_index_id + 1

\* CREATE INDEX, whatever becomes of the row.
LEMMA CreateTree ==
  ASSUME DBInv, NEW i, NEW n, ExecuteCreateIndex(i, n)
  PROVE  /\ CatalogInv /\ FileInv /\ SafeInv /\ IndexInv /\ n \in DOMAIN tables
         /\ trees' \in Seq(Trees) /\ trees'[Len(trees) + 1] = BuiltTree(n)
         /\ Len(trees) + 1 \in DOMAIN trees' /\ Len(trees) + 1 \notin DOMAIN trees
         /\ Len(trees) + 1 \in Nat
         /\ \A q \in DOMAIN trees : q \in DOMAIN trees' /\ trees'[q] = trees[q]
         /\ tables' = tables /\ table_rows' = table_rows /\ next_table_id' = next_table_id
         /\ heaps' = heaps /\ stmt' = Idle /\ disk' = disk /\ stale' = stale
         /\ crashed' = crashed /\ safe' = safe
<1>1. CatalogInv /\ FileInv /\ SafeInv /\ IndexInv /\ trees \in Seq(Trees)
  BY Zenon DEF DBInv, FileInv
<1>2. /\ n \in DOMAIN tables /\ trees' = Append(trees, BuiltTree(n))
      /\ tables' = tables /\ table_rows' = table_rows /\ next_table_id' = next_table_id
      /\ heaps' = heaps /\ stmt' = Idle /\ disk' = disk /\ stale' = stale
      /\ crashed' = crashed /\ safe' = safe
  BY Zenon DEF ExecuteCreateIndex, Begin, Usable, BuiltTree
<1>3. BuiltTree(n) \in Trees
  BY <1>1, <1>2, BuiltFacts, Zenon
<1> QED BY <1>1, <1>2, <1>3, TreeAppended, Zenon

\* The tree is built and not used.
LEMMA CreateIndexRefused ==
  ASSUME DBInv, NEW i, NEW n, ExecuteCreateIndex(i, n), indexes' = indexes,
         index_rows' = index_rows,
         next_index_id' = next_index_id \/ next_index_id' = next_index_id + 1
  PROVE  DBInv'
<1>1. /\ CatalogInv /\ FileInv /\ SafeInv /\ IndexInv
      /\ trees' \in Seq(Trees)
      /\ \A q \in DOMAIN trees : q \in DOMAIN trees' /\ trees'[q] = trees[q]
      /\ tables' = tables /\ table_rows' = table_rows /\ next_table_id' = next_table_id
      /\ heaps' = heaps /\ stmt' = Idle /\ disk' = disk /\ stale' = stale
      /\ crashed' = crashed /\ safe' = safe
  BY CreateTree, Zenon
<1>2. /\ next_index_id' \in Nat \ {0}
      /\ CatalogFile(index_rows, IndexMetas, next_index_id')
      /\ CatalogFile(disk.index_rows, IndexMetas, next_index_id')
  BY <1>1, MetaIds, LaterIds DEF CatalogInv
<1>3. CatalogInv'
  BY <1>1, <1>2, Zenon DEF CatalogInv
<1>4. OwnTrees(index_rows, trees') /\ OwnTrees(disk.index_rows, trees')
  BY <1>1, Zenon DEF FileInv, OwnTrees
<1>5. FileInv'
  BY <1>1, <1>4, Zenon DEF FileInv
<1>6. StatementInv'
  BY <1>1, Zenon DEF StatementInv
<1>7. SafeInv'
  BY <1>1, Zenon DEF SafeInv
<1>8. \A j \in DOMAIN indexes : trees'[indexes[j].root] = trees[indexes[j].root]
  BY <1>1, IndexFacts, Zenon
<1>9. IndexInv'
  BY <1>1, <1>8, Zenon DEF IndexInv, HeapOf
<1> QED BY <1>3, <1>5, <1>6, <1>7, <1>9, Zenon DEF DBInv

\* A new index covers its table exactly.
LEMMA CreateIndexAdds ==
  ASSUME DBInv, NEW i \in IndexNames, NEW n \in TableNames, ExecuteCreateIndex(i, n),
         NEW k, NEW meta, IndexAdded(i, n, k, meta)
  PROVE  DBInv'
<1> DEFINE new == With(index_rows, k, meta)
           m == Len(trees) + 1
<1>1. /\ CatalogInv /\ FileInv /\ SafeInv /\ IndexInv /\ n \in DOMAIN tables
      /\ trees' \in Seq(Trees) /\ trees'[m] = BuiltTree(n)
      /\ m \in DOMAIN trees' /\ m \notin DOMAIN trees /\ m \in Nat
      /\ \A q \in DOMAIN trees : q \in DOMAIN trees' /\ trees'[q] = trees[q]
      /\ tables' = tables /\ table_rows' = table_rows /\ next_table_id' = next_table_id
      /\ heaps' = heaps /\ stmt' = Idle /\ disk' = disk /\ stale' = stale
      /\ crashed' = crashed /\ safe' = safe
  BY CreateTree, Zenon
<1>2. /\ index_rows' = new /\ indexes' = With(indexes, i, [meta EXCEPT !.rid = k])
      /\ next_index_id' = next_index_id + 1
      /\ Readable(index_rows) /\ k \in CatalogRids \ DOMAIN index_rows /\ i \notin DOMAIN indexes
      /\ meta = [id |-> next_index_id, name |-> i, table |-> n, root |-> m, rid |-> 0]
  BY Zenon DEF IndexAdded
<1> HIDE DEF m
<1>3. /\ next_index_id \in Nat \ {0} /\ CatalogFile(index_rows, IndexMetas, next_index_id)
      /\ indexes = LoadedFrom(index_rows) /\ CatalogFile(disk.index_rows, IndexMetas, next_index_id)
  BY <1>1, Zenon DEF CatalogInv
<1>4. meta \in IndexMetas /\ meta.id = next_index_id /\ meta.name = i /\ meta.root = m
  BY <1>1, <1>2, <1>3, Zenon DEF IndexMetas
<1>5. /\ CatalogFile(new, IndexMetas, next_index_id + 1)
      /\ \A r : r \in Rids(new) <=> r \in Rids(index_rows) \/ r = k
      /\ new[k] = meta
      /\ \A r \in Rids(index_rows) : new[r] = index_rows[r] /\ r # k
      /\ LoadedFrom(new) = With(indexes, i, [meta EXCEPT !.rid = k])
  BY <1>2, <1>3, <1>4, MetaIds, RowAdded
<1> HIDE DEF new
<1>6. CatalogFile(disk.index_rows, IndexMetas, next_index_id + 1) /\ next_index_id + 1 \in Nat \ {0}
  BY <1>3, MetaIds, LaterIds
<1>7. CatalogInv'
  BY <1>1, <1>2, <1>5, <1>6, Zenon DEF CatalogInv
<1>8. \A r \in Rids(index_rows) : index_rows[r].root \in DOMAIN trees /\ index_rows[r].root # m
  BY <1>1, Zenon DEF FileInv, OwnTrees
<1>9. OwnTrees(new, trees')
  <2>1. \A r \in Rids(new) : new[r].root \in DOMAIN trees'
    BY <1>1, <1>4, <1>5, <1>8, Zenon
  <2>2. ASSUME NEW r \in Rids(new), NEW q \in Rids(new), new[r].root = new[q].root
        PROVE  r = q
    <3>1. CASE r = k \/ q = k
      BY <1>4, <1>5, <1>8, <2>2, <3>1, Zenon
    <3>2. CASE r # k /\ q # k
      <4>1. r \in Rids(index_rows) /\ q \in Rids(index_rows)
            /\ index_rows[r].root = index_rows[q].root
        BY <1>5, <2>2, <3>2, Zenon
      <4> QED BY <1>1, <4>1, Zenon DEF FileInv, OwnTrees
    <3> QED BY <3>1, <3>2, Zenon
  <2> QED BY <2>1, <2>2, Zenon DEF OwnTrees
<1>10. OwnTrees(disk.index_rows, trees')
  BY <1>1, Zenon DEF FileInv, OwnTrees
<1>11. FileInv'
  BY <1>1, <1>2, <1>9, <1>10, Zenon DEF FileInv
<1>12. StatementInv' /\ SafeInv'
  BY <1>1, Zenon DEF StatementInv, SafeInv
<1>13. /\ DOMAIN indexes' = DOMAIN indexes \cup {i}
       /\ indexes'[i].root = m /\ indexes'[i].table = n
       /\ \A j \in DOMAIN indexes : indexes'[j] = indexes[j]
  <2>1. [meta EXCEPT !.rid = k].root = m /\ [meta EXCEPT !.rid = k].table = n
    BY <1>2, Zenon
  <2> QED BY <1>2, <2>1, Zenon DEF With
<1>14. \A j \in DOMAIN indexes : trees'[indexes[j].root] = trees[indexes[j].root]
  BY <1>1, IndexFacts, Zenon
<1>15. /\ Covers(trees'[m], HeapOf(n), tables[n].first)
       /\ Exact(trees'[m], HeapOf(n), tables[n].first)
  BY <1>1, BuiltFacts, Zenon DEF HeapOf
<1>16. ASSUME ~crashed, NEW j \in DOMAIN indexes'
       PROVE  /\ indexes'[j].table \in DOMAIN tables =>
                   Covers(trees'[indexes'[j].root], HeapOf(indexes'[j].table),
                          tables[indexes'[j].table].first)
              /\ indexes'[j].root \notin stale =>
                   /\ indexes'[j].table \in DOMAIN tables
                   /\ Exact(trees'[indexes'[j].root], HeapOf(indexes'[j].table),
                            tables[indexes'[j].table].first)
  <2>1. CASE j = i
    BY <1>1, <1>13, <1>15, <2>1, Zenon
  <2>2. CASE j # i
    BY <1>1, <1>13, <1>14, <1>16, <2>2, Zenon DEF IndexInv
  <2> QED BY <2>1, <2>2, Zenon
<1>17. IndexInv'
  BY <1>1, <1>16, Zenon DEF IndexInv, HeapOf
<1> QED BY <1>7, <1>11, <1>12, <1>17, Zenon DEF DBInv

\* CREATE INDEX.
LEMMA CreateIndexKeeps ==
  ASSUME DBInv, NEW i \in IndexNames, NEW n \in TableNames, ExecuteCreateIndex(i, n)
  PROVE  DBInv'
<1>1. CASE indexes' = indexes /\ index_rows' = index_rows
           /\ (next_index_id' = next_index_id \/ next_index_id' = next_index_id + 1)
  BY <1>1, CreateIndexRefused, Zenon
<1>2. CASE \E k, meta : IndexAdded(i, n, k, meta)
  BY <1>2, CreateIndexAdds, Zenon
<1>3. ASSUME i \notin DOMAIN indexes, AddIndex(i, n, Len(trees) + 1), Readable(index_rows)
      PROVE  \E k, meta : IndexAdded(i, n, k, meta)
  <2> DEFINE meta == [id |-> next_index_id, name |-> i, table |-> n, root |-> Len(trees) + 1, rid |-> 0]
  <2>1. /\ next_index_id' = next_index_id + 1
        /\ \E k \in CatalogRids \ DOMAIN index_rows :
             /\ index_rows' = With(index_rows, k, meta)
             /\ indexes' = With(indexes, i, [meta EXCEPT !.rid = k])
    BY <1>3, Zenon DEF AddIndex
  <2>2. PICK k \in CatalogRids \ DOMAIN index_rows :
          /\ index_rows' = With(index_rows, k, meta)
          /\ indexes' = With(indexes, i, [meta EXCEPT !.rid = k])
    BY <2>1, Zenon
  <2>3. IndexAdded(i, n, k, meta)
    BY <1>3, <2>1, <2>2, Zenon DEF IndexAdded
  <2> QED BY <2>3, Zenon
<1>4. ASSUME AddIndex(i, n, Len(trees) + 1), ~Readable(index_rows)
      PROVE  indexes' = indexes /\ index_rows' = index_rows /\ next_index_id' = next_index_id + 1
  BY <1>4, Zenon DEF AddIndex
<1> QED BY <1>1, <1>2, <1>3, <1>4, Zenon DEF ExecuteCreateIndex

\* DROP INDEX.
LEMMA DropIndexKeeps ==
  ASSUME DBInv, NEW i, ExecuteDropIndex(i)
  PROVE  DBInv'
<1> DEFINE k == indexes[i].rid
           new == Without(index_rows, {k})
<1>1. CatalogInv /\ FileInv /\ SafeInv /\ IndexInv
  BY Zenon DEF DBInv
<1>2. /\ i \in DOMAIN indexes /\ index_rows' = new /\ indexes' = Without(indexes, {i})
      /\ tables' = tables /\ table_rows' = table_rows /\ next_table_id' = next_table_id
      /\ next_index_id' = next_index_id /\ heaps' = heaps /\ trees' = trees /\ stmt' = Idle
      /\ disk' = disk /\ stale' = stale /\ crashed' = crashed /\ safe' = safe
  BY Zenon DEF ExecuteDropIndex, RemoveIndex, Begin
<1>3. k \in Rids(index_rows) /\ index_rows[k].name = i
  BY <1>1, <1>2, IndexFacts, Zenon
<1>4. /\ CatalogFile(new, IndexMetas, next_index_id)
      /\ Rids(new) = Rids(index_rows) \ {k}
      /\ LoadedFrom(new) = Without(indexes, {i})
  <2>1. CatalogFile(index_rows, IndexMetas, next_index_id) /\ indexes = LoadedFrom(index_rows)
    BY <1>1, Zenon DEF CatalogInv
  <2>2. ASSUME NEW r \in Rids(index_rows)
        PROVE  /\ CatalogFile(Without(index_rows, {r}), IndexMetas, next_index_id)
               /\ Rids(Without(index_rows, {r})) = Rids(index_rows) \ {r}
               /\ LoadedFrom(Without(index_rows, {r})) = Without(indexes, {index_rows[r].name})
    BY <2>1, LoadedWithout, Zenon
  <2> QED BY <1>3, <2>2, Zenon
<1>5. \A r \in Rids(new) : new[r] = index_rows[r]
  BY <1>4, Zenon DEF Without, Restrict, Rids
<1> HIDE DEF new
<1>6. CatalogInv'
  BY <1>1, <1>2, <1>4, Zenon DEF CatalogInv
<1>7. OwnTrees(new, trees)
  BY <1>1, <1>4, <1>5, Zenon DEF FileInv, OwnTrees
<1>8. FileInv'
  BY <1>1, <1>2, <1>7, Zenon DEF FileInv
<1>9. SafeInv' /\ StatementInv'
  BY <1>1, <1>2, Zenon DEF SafeInv, StatementInv
<1>10. \A j : j \in DOMAIN indexes' => j \in DOMAIN indexes /\ indexes'[j] = indexes[j]
  BY <1>2, Zenon DEF Without, Restrict
<1>11. IndexInv'
  BY <1>1, <1>2, <1>10, Zenon DEF IndexInv, HeapOf
<1> QED BY <1>6, <1>8, <1>9, <1>11, Zenon DEF DBInv
-----------------------------------------------------------------------------
(* The invariant, and what it says. *)

\* The database starts empty.
LEMMA StartsSound ==
  ASSUME Init
  PROVE  DBInv
<1>1. /\ tables = <<>> /\ indexes = <<>> /\ table_rows = <<>> /\ index_rows = <<>>
      /\ next_table_id = 1 /\ next_index_id = 1 /\ heaps = <<>> /\ trees = <<>>
      /\ stmt = Idle /\ safe = {}
      /\ disk = [table_rows |-> NoPage, index_rows |-> NoPage, heaps |-> <<>>]
      /\ disk.table_rows = NoPage /\ disk.index_rows = NoPage /\ disk.heaps = <<>>
  BY Zenon DEF Init, EmptyCatalog
<1>2. Rids(<<>>) = {} /\ Rids(NoPage) = {} /\ DOMAIN <<>> = {}
  BY DEF Rids, NoPage
<1>3. ASSUME NEW metas, NEW next
      PROVE  CatalogFile(<<>>, metas, next) /\ CatalogFile(NoPage, metas, next)
  <2>1. <<>> \in [{} -> metas]
    OBVIOUS
  <2> QED BY <1>2, <2>1, Zenon DEF CatalogFile
<1>4. LoadedFrom(<<>>) = <<>>
  BY <1>2 DEF LoadedFrom
<1>5. CatalogInv
  BY <1>1, <1>3, <1>4 DEF CatalogInv
<1>6. OwnHeaps(<<>>, <<>>) /\ OwnHeaps(NoPage, <<>>) /\ OwnTrees(<<>>, <<>>) /\ OwnTrees(NoPage, <<>>)
  BY <1>2, Zenon DEF OwnHeaps, OwnTrees
<1>7. <<>> \in Seq(Heaps) /\ <<>> \in Seq(Trees)
  OBVIOUS
<1>8. FileInv
  BY <1>1, <1>6, <1>7, Zenon DEF FileInv
<1>9. StatementInv /\ SafeInv
  BY <1>1, Zenon DEF StatementInv, SafeInv
<1>10. IndexInv
  BY <1>1, <1>2, Zenon DEF IndexInv
<1> QED BY <1>5, <1>8, <1>9, <1>10, Zenon DEF DBInv

\* Every step keeps the invariant.
LEMMA StepKeeps ==
  ASSUME DBInv, [Next]_dbVars
  PROVE  DBInv'
<1>1. CASE UNCHANGED dbVars
  <2>1. UNCHANGED <<catalogVars, heaps, trees, disk, stale, crashed, safe>> /\ stmt' = stmt
    BY <1>1, Zenon DEF dbVars
  <2>2. CatalogInv' /\ FileInv' /\ SafeInv' /\ IndexInv'
    BY <2>1, OnlyStatement, Zenon
  <2>3. tables' = tables /\ heaps' = heaps
    BY <2>1, Zenon DEF catalogVars
  <2>4. StatementInv'
    BY <2>1, <2>3, Zenon DEF DBInv, StatementInv, Usable, HeapOf, TableRids, Sets
  <2> QED BY <2>2, <2>4, Zenon DEF DBInv
<1>2. ASSUME NEW n \in TableNames, ExecuteCreateTable(n) PROVE DBInv'
  BY <1>2, CreateTableKeeps, Zenon
<1>3. ASSUME NEW n \in TableNames, ExecuteDropTable(n) PROVE DBInv'
  BY <1>3, DropTableKeeps, Zenon
<1>4. ASSUME NEW n \in TableNames, NEW i \in IndexNames, ExecuteCreateIndex(i, n) PROVE DBInv'
  BY <1>4, CreateIndexKeeps, Zenon
<1>5. ASSUME NEW n \in TableNames,
             \/ \E rows \in Inserts : ExecuteInsert(n, rows)
             \/ Usable(n) /\ \E where \in Wheres : ExecuteDelete(n, where)
             \/ Usable(n) /\ \E where \in Wheres, set \in Sets : ExecuteUpdate(n, where, set)
      PROVE  DBInv'
  BY <1>5, StartKeeps, Zenon
<1>6. ASSUME NEW i \in IndexNames, ExecuteDropIndex(i) PROVE DBInv'
  BY <1>6, DropIndexKeeps, Zenon
<1>7. CASE InsertRow \/ UpdateRow \/ DeleteRow
  BY <1>7, InsertRowKeeps, UpdateRowKeeps, DeleteRowKeeps, Zenon
<1>8. CASE WriteBack \/ FlushAll \/ Restart \/ Crash
  BY <1>8, WriteBackKeeps, FlushKeeps, CrashKeeps, Zenon
<1> QED BY <1>1, <1>2, <1>3, <1>4, <1>5, <1>6, <1>7, <1>8, Zenon DEF Next

\* The catalog is what a restart would load, with ids that are not used twice.
LEMMA InvReloads ==
  ASSUME DBInv
  PROVE  CatalogReloads
<1>1. /\ CatalogInv /\ FileInv
      /\ CatalogFile(table_rows, Metas, next_table_id)
      /\ CatalogFile(index_rows, IndexMetas, next_index_id)
  BY Zenon DEF DBInv, CatalogInv
<1>2. ASSUME NEW n \in DOMAIN tables
      PROVE  \E r \in Rids(table_rows) : table_rows[r].name = n /\ tables[n].id = table_rows[r].id
  BY <1>1, TableFacts, Zenon
<1>3. ASSUME NEW i \in DOMAIN indexes
      PROVE  \E r \in Rids(index_rows) : index_rows[r].name = i /\ indexes[i].id = index_rows[r].id
  BY <1>1, IndexFacts, Zenon
<1>4. \A n \in DOMAIN tables : tables[n].id < next_table_id
  BY <1>1, <1>2 DEF CatalogFile
<1>5. \A n, m \in DOMAIN tables : tables[n].id = tables[m].id => n = m
  BY <1>1, <1>2 DEF CatalogFile
<1>6. \A i \in DOMAIN indexes : indexes[i].id < next_index_id
  BY <1>1, <1>3 DEF CatalogFile
<1>7. \A i, j \in DOMAIN indexes : indexes[i].id = indexes[j].id => i = j
  BY <1>1, <1>3 DEF CatalogFile
<1> QED BY <1>1, <1>4, <1>5, <1>6, <1>7, Zenon DEF CatalogReloads, CatalogInv

\* What an index scan returns, from what is in the tree.
LEMMA ScanFacts ==
  ASSUME DBInv, NEW n \in DOMAIN tables, NEW i \in IndexesForTable(n), NEW key \in Keys,
         NEW t, t = trees[indexes[i].root], NEW p, p = tables[n].first, NEW h, h = heaps[p]
  PROVE  /\ Covers(t, h, p) => KeyRows(n, key) \subseteq DOMAIN IndexScan(i, key)
         /\ Covers(t, h, p) /\ Exact(t, h, p) =>
              IndexScan(i, key) = [rid \in KeyRows(n, key) |-> 1]
<1> DEFINE hits == {e \in DOMAIN t : e[1] = key /\ HasRow(e[2]) /\ GetRow(e[2]).key = key}
           rids == {e[2] : e \in hits}
<1>1. key # Null
  BY DatabaseAssumption, Zenon
<1>2. IndexScan(i, key) = [rid \in rids |-> t[<<key, rid>>]]
  BY Zenon DEF IndexScan
<1>3. \A rid : rid \in KeyRows(n, key) <=> \E s \in Rids(h) : rid = <<p, s>> /\ h[s].key = key
  BY DEF KeyRows, TableRids, HeapOf, GetRow
<1>4. ASSUME Covers(t, h, p), NEW rid \in KeyRows(n, key)
      PROVE  rid \in rids /\ <<key, rid>> \in DOMAIN t
  <2>1. PICK s \in Rids(h) : rid = <<p, s>> /\ h[s].key = key
    BY <1>3, <1>4, Zenon
  <2>2. <<key, rid>> \in DOMAIN t
    BY <1>1, <1>4, <2>1, Zenon DEF Covers
  <2>3. rid[1] = p /\ rid[2] = s
    BY <2>1, Zenon
  <2>4. HasRow(rid) /\ GetRow(rid).key = key
    BY <2>1, <2>3, Zenon DEF HasRow, GetRow
  <2>5. <<key, rid>> \in hits
    BY <2>2, <2>4, Zenon
  <2>6. <<key, rid>>[2] = rid
    BY Zenon
  <2> HIDE DEF hits
  <2> QED BY <2>2, <2>5, <2>6, Zenon
<1>5. ASSUME Exact(t, h, p), NEW rid \in rids
      PROVE  rid \in KeyRows(n, key) /\ t[<<key, rid>>] = 1
  <2>1. PICK e \in DOMAIN t : rid = e[2] /\ e[1] = key
    BY <1>5, Zenon
  <2>2. t[e] = 1
    BY <1>5, <2>1, Zenon DEF Exact
  <2>3. PICK s \in Rids(h) : h[s].key # Null /\ e = <<h[s].key, <<p, s>>>>
    BY <1>5, <2>1, Zenon DEF Exact
  <2>4. e = <<key, rid>> /\ rid = <<p, s>> /\ h[s].key = key
    BY <2>1, <2>3, Zenon
  <2> QED BY <1>3, <2>2, <2>4, Zenon
<1> HIDE DEF rids
<1>6. Covers(t, h, p) /\ Exact(t, h, p) => rids = KeyRows(n, key)
  BY <1>4, <1>5, Zenon
<1>7. Covers(t, h, p) => KeyRows(n, key) \subseteq DOMAIN IndexScan(i, key)
  BY <1>2, <1>4, Zenon
<1>8. Covers(t, h, p) /\ Exact(t, h, p) => IndexScan(i, key) = [rid \in KeyRows(n, key) |-> 1]
  BY <1>2, <1>5, <1>6, Zenon
<1> QED BY <1>7, <1>8, Zenon

\* The invariant holds in every state.
LEMMA DatabaseSound == Spec => []DBInv
<1>1. Init => DBInv
  BY StartsSound, Zenon
<1>2. DBInv /\ [Next]_dbVars => DBInv'
  BY StepKeeps, Zenon
<1> QED BY <1>1, <1>2, PTL DEF Spec

\* Whatever statements, crashes and restarts came before, the catalog in
\* memory is the one that its heap files hold, and no id is used twice
\* (catalog_manager.cpp:117-165, 234-285).
THEOREM CatalogIsOnFile == Spec => []CatalogReloads
BY InvReloads, DatabaseSound, PTL

\* Rows that a FlushAll has written, and that no statement has touched since,
\* are there after a crash anywhere (database.hpp:33-48).
THEOREM FlushedRowsAreKept == Spec => []FlushedRowsSurvive
<1>1. ASSUME DBInv PROVE FlushedRowsSurvive
  <2>1. CatalogInv /\ FileInv /\ SafeInv
    BY <1>1, Zenon DEF DBInv
  <2> QED BY <2>1, AllRowsFound, Zenon DEF SafeInv, FlushedRowsSurvive
<1> QED BY <1>1, DatabaseSound, PTL

\* An index scan finds every row of its table with the key
\* (executor.cpp:84-106, 182-289).
THEOREM IndexesMissNothing == Spec => []IndexMissesNothing
<1>1. ASSUME DBInv PROVE IndexMissesNothing
  <2>1. SUFFICES ASSUME ~crashed, NEW n \in DOMAIN tables, NEW i \in IndexesForTable(n),
                        NEW key \in Keys
                 PROVE  KeyRows(n, key) \subseteq DOMAIN IndexScan(i, key)
    BY Zenon DEF IndexMissesNothing
  <2>2. Covers(trees[indexes[i].root], heaps[tables[n].first], tables[n].first)
    BY <1>1, <2>1, Zenon DEF DBInv, IndexInv, IndexesForTable, HeapOf
  <2> QED BY <1>1, <2>1, <2>2, ScanFacts, Zenon
<1> QED BY <1>1, DatabaseSound, PTL

\* Until its table is dropped or an UPDATE fails in it, it finds these rows
\* and no other, each once (executor.cpp:84-106, 143-172, 252-253).
THEOREM IndexesAddNothing == Spec => []IndexAddsNothing
<1>1. ASSUME DBInv PROVE IndexAddsNothing
  <2>1. SUFFICES ASSUME ~crashed, NEW n \in DOMAIN tables, NEW i \in IndexesForTable(n),
                        indexes[i].root \notin stale, NEW key \in Keys
                 PROVE  IndexScan(i, key) = [rid \in KeyRows(n, key) |-> 1]
    BY Zenon DEF IndexAddsNothing
  <2>2. /\ Covers(trees[indexes[i].root], heaps[tables[n].first], tables[n].first)
        /\ Exact(trees[indexes[i].root], heaps[tables[n].first], tables[n].first)
    BY <1>1, <2>1, Zenon DEF DBInv, IndexInv, IndexesForTable, HeapOf
  <2> QED BY <1>1, <2>1, <2>2, ScanFacts, Zenon
<1> QED BY <1>1, DatabaseSound, PTL

\* Types (database.hpp, catalog_manager.hpp).
THEOREM DatabaseTypeCorrect == Spec => []TypeOK
<1>1. ASSUME DBInv PROVE TypeOK
  <2>1. CatalogInv /\ FileInv /\ StatementInv
    BY <1>1, Zenon DEF DBInv
  <2>2. ASSUME NEW n \in DOMAIN tables PROVE tables[n] \in Metas /\ n \in TableNames
    <3>1. PICK r \in Rids(table_rows) : tables[n] = [table_rows[r] EXCEPT !.rid = r]
      BY <2>1, TableFacts
    <3>2. table_rows[r] \in Metas /\ r \in Nat
      BY <2>1, <3>1, RidsAreNat, Zenon DEF CatalogInv
    <3>3. n \in TableNames
      BY <2>1, TableFacts, Zenon
    <3> QED BY <3>1, <3>2, <3>3, Zenon DEF Metas
  <2>3. ASSUME NEW i \in DOMAIN indexes PROVE indexes[i] \in IndexMetas /\ i \in IndexNames
    <3>1. PICK r \in Rids(index_rows) : indexes[i] = [index_rows[r] EXCEPT !.rid = r]
      BY <2>1, IndexFacts, Zenon
    <3>2. index_rows[r] \in IndexMetas /\ r \in Nat
      BY <2>1, <3>1, RidsAreNat, Zenon DEF CatalogInv
    <3>3. i \in IndexNames
      BY <2>1, IndexFacts, Zenon
    <3> QED BY <3>1, <3>2, <3>3, Zenon DEF IndexMetas
  <2>4. /\ tables = [n \in DOMAIN tables |-> tables[n]]
        /\ indexes = [i \in DOMAIN indexes |-> indexes[i]]
    BY <2>1, Zenon DEF CatalogInv, LoadedFrom
  <2>5. /\ tables \in [DOMAIN tables -> Metas] /\ DOMAIN tables \subseteq TableNames
        /\ indexes \in [DOMAIN indexes -> IndexMetas] /\ DOMAIN indexes \subseteq IndexNames
    BY <2>2, <2>3, <2>4, Zenon
  <2>6. \/ stmt = Idle
        \/ stmt.kind = "insert" /\ stmt.todo \in Seq(Rows) \ {<<>>}
        \/ stmt.kind \in {"update", "delete"} /\ stmt.todo \subseteq TableRids(stmt.table)
    BY <2>1, Zenon DEF StatementInv
  <2> QED BY <2>1, <2>5, <2>6, Zenon DEF TypeOK, FileInv, CatalogInv
<1> QED BY <1>1, DatabaseSound, PTL
=============================================================================
