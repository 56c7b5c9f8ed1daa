------------------------------ MODULE HeapFile -------------------------------
(***************************************************************************)
(* Heap files (storage/heap_file.cpp): chains of slotted pages in one data *)
(* file, reached through the buffer pool.                                  *)
(*                                                                         *)
(* pages is what FetchPage shows, disk what a restart finds.  The pool     *)
(* writes a page back whenever it evicts it, so between two flushes disk   *)
(* holds any mixture of old and new pages.  AllocatePage writes a blank    *)
(* page and the header of the file at once.  Page 0 is that header; nothing *)
(* keeps a heap file from fetching it, and the pool does not see that      *)
(* PageManager writes it.                                                  *)
(*                                                                         *)
(* The loop of InsertRecord is one action per page it looks at; op is the  *)
(* call under way.  Calls are serialized by the caller (exec_mutex_).      *)
(*                                                                         *)
(* rows and safe are history: the records that callers hold ids for, and   *)
(* those of them that were there at the last FlushAll and have not been    *)
(* changed since.                                                          *)
(***************************************************************************)
EXTENDS SlottedPage, FiniteSets

CONSTANTS Files,       \* the heap files of one data file
          MaxPages,    \* bound: pages of the data file, the header included
          FetchFaults  \* whether FetchPage may return nullptr for a good page

ASSUME FileAssumption ==
  /\ MaxPages \in Nat \ {0}
  /\ FetchFaults \in BOOLEAN

VARIABLES pages, disk, page_count, first_page_id, last_insert_page_id, op, rows, safe

heapVars == <<pages, disk, page_count, first_page_id, last_insert_page_id, op, rows, safe>>

PageIds == 0 .. MaxPages - 1
RecordIds == PageIds \X (1 .. (PageSize - kHeaderSize) \div (kSlotSize + 1))
NoOp == [file |-> "none"]

\* A page of zeros, and the header of the data file, read as slotted pages:
\* no slots, no free space, and the next page is page 0, or the number of
\* pages, which is where the header keeps page_count.
Blank == [next |-> 0, slots |-> <<>>, free |-> 0]
HeaderPage(n) == [next |-> n, slots |-> <<>>, free |-> 0]

Fetchable(p) == p \in 0 .. page_count - 1

\* HeapFile::Scan: the pages reached from the first one until the chain ends
\* or a page cannot be fetched, which is the least set that has the first page
\* and with a page the next one.
ClosedUnderNext(m, first, n, S) ==
  (({first} \cup {m[p].next : p \in S}) \cap 0 .. n - 1) \subseteq S

Reached(m, first, n) ==
  {p \in 0 .. n - 1 : \A S \in SUBSET (0 .. n - 1) : ClosedUnderNext(m, first, n, S) => p \in S}

Chain(f) == Reached(pages, first_page_id[f], page_count)

Scan(f) ==
  [rid \in UNION {{p} \X LiveSlots(pages[p]) : p \in Chain(f)} |-> GetRecord(pages[rid[1]], rid[2])]

Init ==
  /\ pages = [p \in PageIds |-> IF p = 0 THEN HeaderPage(1) ELSE Blank]
  /\ disk = pages
  /\ page_count = 1
  /\ first_page_id = [f \in Files |-> kInvalidPageId]
  /\ last_insert_page_id = [f \in Files |-> kInvalidPageId]
  /\ op = NoOp
  /\ rows = [f \in Files |-> <<>>]
  /\ safe = [f \in Files |-> <<>>]

\* The pool and the data file after PageManager::AllocatePage.
DiskAfterAllocate == [disk EXCEPT ![page_count] = Blank, ![0] = HeaderPage(page_count + 1)]

Forget(m, rid) == [f \in Files |-> [r \in DOMAIN m[f] \ {rid} |-> m[f][r]]]

Remember(m, f, rid, rec) ==
  [m EXCEPT ![f] = [r \in DOMAIN @ \cup {rid} |-> IF r = rid THEN rec ELSE @[r]]]

\* The constructor without a first page.
Create(f) ==
  /\ op = NoOp
  /\ first_page_id[f] = kInvalidPageId
  /\ page_count < MaxPages
  /\ pages' = [pages EXCEPT ![page_count] = InitPage]
  /\ disk' = DiskAfterAllocate
  /\ page_count' = page_count + 1
  /\ first_page_id' = [first_page_id EXCEPT ![f] = page_count]
  /\ last_insert_page_id' = [last_insert_page_id EXCEPT ![f] = page_count]
  /\ UNCHANGED <<op, rows, safe>>

InsertCall(f, r) == [file |-> f, rec |-> r, current |-> last_insert_page_id[f], prev |-> kInvalidPageId]

BeginInsert(f, r) ==
  /\ op = NoOp
  /\ first_page_id[f] # kInvalidPageId
  /\ op' = InsertCall(f, r)
  /\ UNCHANGED <<pages, disk, page_count, first_page_id, last_insert_page_id, rows, safe>>

\* The loop of InsertRecord finds room ...
InsertHere ==
  /\ op # NoOp
  /\ Fetchable(op.current)
  /\ Fits(pages[op.current], op.rec)
  /\ pages' = [pages EXCEPT ![op.current] = InsertRecord(@, op.rec)]
  /\ last_insert_page_id' = [last_insert_page_id EXCEPT ![op.file] = op.current]
  /\ op' = NoOp
  /\ rows' = Remember(rows, op.file, <<op.current, SlotForInsert(pages[op.current])>>, op.rec)
  /\ UNCHANGED <<disk, page_count, first_page_id, safe>>

\* ... or goes on to the next page ...
InsertFurther ==
  /\ op # NoOp
  /\ Fetchable(op.current)
  /\ ~Fits(pages[op.current], op.rec)
  /\ op' = [op EXCEPT !.prev = op.current, !.current = pages[op.current].next]
  /\ UNCHANGED <<pages, disk, page_count, first_page_id, last_insert_page_id, rows, safe>>

\* ... or returns IOError, after the delete when the call is an update.
InsertFails ==
  /\ op # NoOp
  /\ op.current # kInvalidPageId
  /\ FetchFaults \/ ~Fetchable(op.current)
  /\ op' = NoOp
  /\ UNCHANGED <<pages, disk, page_count, first_page_id, last_insert_page_id, rows, safe>>

\* The new page, not linked yet (mutant of NewPageLinked).
NewPageUnlinked(p, prev, page) == [pages EXCEPT ![p] = page]

NewPageLinked(p, prev, page) ==
  [NewPageUnlinked(p, prev, page) EXCEPT ![prev] = SetNextPageId(@, p)]

\* At the end of the chain: AllocateNewPage, and the insert into the new page.
\* A record too large for an empty page leaves the page linked and empty.
InsertInNewPage ==
  /\ op # NoOp
  /\ op.current = kInvalidPageId
  /\ page_count < MaxPages
  /\ LET fits == Fits(InitPage, op.rec)
     IN  /\ pages' = NewPageLinked(page_count, op.prev,
                       IF fits THEN InsertRecord(InitPage, op.rec) ELSE InitPage)
         /\ last_insert_page_id' = IF fits
                                   THEN [last_insert_page_id EXCEPT ![op.file] = page_count]
                                   ELSE last_insert_page_id
  /\ disk' = DiskAfterAllocate
  /\ page_count' = page_count + 1
  /\ op' = NoOp
  /\ rows' = IF Fits(InitPage, op.rec)
             THEN Remember(rows, op.file, <<page_count, 1>>, op.rec)
             ELSE rows
  /\ UNCHANGED <<first_page_id, safe>>

\* Callers pass ids they got from a call or a scan.
Delete(f, rid) ==
  /\ op = NoOp
  /\ rid \in DOMAIN rows[f]
  /\ ~IsTombstoned(pages[rid[1]], rid[2])
  /\ pages' = [pages EXCEPT ![rid[1]] = DeleteRecord(@, rid[2])]
  /\ safe' = Forget(safe, rid)
  /\ rows' = Forget(rows, rid)
  /\ UNCHANGED <<disk, page_count, first_page_id, last_insert_page_id, op>>

\* UpdateRecord: in place, or delete and insert from the last page used.
Update(f, rid, r) ==
  /\ op = NoOp
  /\ rid \in DOMAIN rows[f]
  /\ ~IsTombstoned(pages[rid[1]], rid[2])
  /\ \/ /\ UpdatesInPlace(pages[rid[1]], rid[2], r)
        /\ pages' = [pages EXCEPT ![rid[1]] = UpdateRecordInPlace(@, rid[2], r)]
        /\ op' = NoOp
        /\ rows' = Remember(rows, f, rid, r)
     \/ /\ ~UpdatesInPlace(pages[rid[1]], rid[2], r)
        /\ pages' = [pages EXCEPT ![rid[1]] = DeleteRecord(@, rid[2])]
        /\ op' = InsertCall(f, r)
        /\ rows' = Forget(rows, rid)
  /\ safe' = Forget(safe, rid)
  /\ UNCHANGED <<disk, page_count, first_page_id, last_insert_page_id>>

\* The pool evicts a page and writes it back; the header page is never dirty
\* and is read again.
Evict(p) ==
  /\ Fetchable(p)
  /\ IF p = 0
     THEN pages' = [pages EXCEPT ![0] = disk[0]] /\ UNCHANGED disk
     ELSE disk' = [disk EXCEPT ![p] = pages[p]] /\ UNCHANGED pages
  /\ UNCHANGED <<page_count, first_page_id, last_insert_page_id, op, rows, safe>>

FlushAll ==
  /\ op = NoOp
  /\ disk' = [pages EXCEPT ![0] = disk[0]]
  /\ safe' = [f \in Files |-> Scan(f)]
  /\ UNCHANGED <<pages, page_count, first_page_id, last_insert_page_id, op, rows>>

\* The process dies and starts again.  The catalog still knows the first page
\* of every table it knew.
Crash ==
  /\ pages' = disk
  /\ last_insert_page_id' = first_page_id
  /\ op' = NoOp
  /\ UNCHANGED <<disk, page_count, first_page_id, safe>>
  /\ rows' = [f \in Files |-> Scan(f)]'

Next ==
  \/ \E f \in Files : Create(f)
  \/ \E f \in Files, r \in Records : BeginInsert(f, r)
  \/ InsertHere
  \/ InsertFurther
  \/ InsertFails
  \/ InsertInNewPage
  \/ \E f \in Files : \E rid \in DOMAIN rows[f] : Delete(f, rid)
  \/ \E f \in Files : \E rid \in DOMAIN rows[f], r \in Records : Update(f, rid, r)
  \/ \E p \in PageIds : Evict(p)
  \/ FlushAll
  \/ Crash

HeapSpec == Init /\ [][Next]_heapVars
-----------------------------------------------------------------------------
\* Type invariant.
HeapTypeOK ==
  /\ pages \in [PageIds -> [next : -1 .. MaxPages, slots : Seq(Slot), free : 0 .. PageSize]]
  /\ disk \in [PageIds -> [next : -1 .. MaxPages, slots : Seq(Slot), free : 0 .. PageSize]]
  /\ page_count \in 1 .. MaxPages
  /\ first_page_id \in [Files -> {kInvalidPageId} \cup PageIds]
  /\ last_insert_page_id \in [Files -> {kInvalidPageId} \cup PageIds]
  /\ op = NoOp \/ op \in [file : Files, rec : Records, current : -1 .. MaxPages, prev : -1 .. MaxPages]

Overlap(a, b) == a.offset < b.offset + b.length /\ b.offset < a.offset + a.length

PageSound(pg) ==
  /\ pg.slots # <<>> => DirectoryEnd(pg) <= pg.free
  /\ \A s \in LiveSlots(pg) :
        /\ pg.free <= pg.slots[s].offset
        /\ pg.slots[s].offset + pg.slots[s].length <= PageSize
        /\ pg.slots[s].length = pg.slots[s].rec.len
  /\ \A s, t \in LiveSlots(pg) : s # t => ~Overlap(pg.slots[s], pg.slots[t])

\* The directory of a page and its records never meet, and no two live
\* records share a byte, so that the bytes at a slot's offset are those that
\* were copied there last: in any order of inserts into new and reused slots
\* (slotted_page.hpp:79-109), deletes and updates in place, in the pool and
\* in whatever mixture of page images a crash leaves.
RegionsDisjoint == \A p \in PageIds : PageSound(pages[p]) /\ PageSound(disk[p])

\* Between calls a scan shows exactly the records that callers hold ids for,
\* under those ids: a record whose id InsertRecord or UpdateRecord returned is
\* on the chain, a deleted one is not, and an update that moves a record
\* leaves no copy (heap_file.cpp:33-135).
ScanShowsRows == op = NoOp => \A f \in Files : Scan(f) = rows[f]

Store == INSTANCE RecordStore WITH call <- IF op = NoOp THEN <<>> ELSE <<op.file, op.rec>>

\* A heap file is a map from record ids to records: an insert, and an update
\* that moves its record, gets an id that no live record has or leaves all as
\* it was; no call touches another record than its own; and only a crash
\* brings changes back, to a state that holds what was flushed
\* (heap_file.cpp:33-135, slotted_page.hpp:76-140).
ImplementsRecordStore == Store!Spec
=============================================================================
