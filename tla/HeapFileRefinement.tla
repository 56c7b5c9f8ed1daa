------------------------- MODULE HeapFileRefinement --------------------------
(***************************************************************************)
(* Heap files are record stores: a scan shows the records that callers     *)
(* hold ids for, and every step is a step of RecordStore or none.          *)
(*                                                                         *)
(* StoreInv holds for any number of heap files as long as the process does *)
(* not die, and for a single one in its data file whatever happens.  A     *)
(* crash under two of them can leave one's chain leading into the other's  *)
(* pages, so each result is stated twice.                                  *)
(***************************************************************************)
EXTENDS HeapFileProofs

-----------------------------------------------------------------------------
(* The calls. *)

\* The loop of InsertRecord stays on the chain of its file.
LEMMA OnChain ==
  ASSUME ShapeInv, op # NoOp
  PROVE  /\ op.file \in Files /\ op.rec \in Records /\ first_page_id[op.file] # kInvalidPageId
         /\ Fetchable(op.current) => op.current \in Chain(op.file)
<1>1. op \in [file : Files, rec : Records, current : -1 .. MaxPages, prev : -1 .. MaxPages]
  BY Zenon DEF ShapeInv, HeapInv
<1>2. op.file \in Files /\ op.rec \in Records
  BY <1>1, Zenon
<1>3. /\ first_page_id[op.file] # kInvalidPageId
      /\ IF op.prev = kInvalidPageId
         THEN op.current \in Chain(op.file)
         ELSE op.prev \in Chain(op.file) /\ op.current = pages[op.prev].next
  BY Zenon DEF ShapeInv, OpInv
<1>4. page_count \in Nat
  BY ShapeFacts, Zenon
<1>5. \A p \in Chain(op.file) : pages[p].next \in 0 .. page_count - 1 => pages[p].next \in Chain(op.file)
  BY <1>4, ReachedClosed, Zenon DEF Chain
<1>6. QED
  BY <1>2, <1>3, <1>5, Zenon DEF Fetchable

\* An insert that finds room adds its record under an id that was free.
LEMMA InsertHereKeeps ==
  ASSUME StoreInv, InsertHere, HeapInv'
  PROVE  /\ StoreInv'
         /\ <<op.current, SlotForInsert(pages[op.current])>> \in RecordIds
         /\ \A g \in Files : <<op.current, SlotForInsert(pages[op.current])>> \notin DOMAIN rows[g]
<1> DEFINE f == op.file
           p == op.current
           r == op.rec
           s == SlotForInsert(pages[p])
           q == InsertRecord(pages[p], r)
<1>1. /\ op # NoOp /\ Fetchable(p) /\ Fits(pages[p], r)
      /\ pages' = [pages EXCEPT ![p] = q]
      /\ last_insert_page_id' = [last_insert_page_id EXCEPT ![f] = p]
      /\ op' = NoOp
      /\ rows' = Remember(rows, f, <<p, s>>, r)
      /\ disk' = disk /\ page_count' = page_count /\ first_page_id' = first_page_id /\ safe' = safe
  BY Zenon DEF InsertHere
<1>2. f \in Files /\ r \in Records /\ p \in Chain(f)
  BY <1>1, OnChain, Zenon DEF StoreInv
<1>3. /\ p \in 0 .. page_count - 1 /\ GoodPage(pages[p]) /\ page_count \in Nat
      /\ 0 .. page_count - 1 \subseteq PageIds
  BY <1>2, ShapeFacts, Zenon DEF StoreInv
<1>4. p # 0
  <2>1. pages[0].slots = <<>> /\ pages[0].free = 0
    BY Zenon DEF StoreInv, ShapeInv, LinkInv
  <2>2. DirectoryEnd(pages[0]) = 12 /\ Tombstones(pages[0]) = {}
    BY <2>1 DEF DirectoryEnd, Tombstones, kHeaderSize, kSlotSize
  <2>3. r.len \in Nat
    BY <1>2, PageSizeNat, Zenon
  <2>4. ~(0 >= 12 + 4 + r.len)
    BY <2>3
  <2>5. ~Fits(pages[0], r)
    BY <2>1, <2>2, <2>4, Zenon DEF Fits, kSlotSize
  <2>6. QED
    BY <1>1, <2>5, Zenon
<1>5. Put(pages[p], q, s, r) /\ s \notin LiveSlots(pages[p]) /\ s \in SlotIds
  BY <1>1, <1>2, <1>3, InsertPuts, Zenon
<1>6. Edited(p, q)
  <2>1. q.next = pages[p].next
    BY <1>5, Zenon DEF Put
  <2>2. p \in 1 .. page_count - 1
    BY <1>3, <1>4
  <2>3. QED
    BY <1>1, <2>1, <2>2, Zenon DEF Edited
<1> HIDE DEF f, p, r, s, q
<1>7. ShapeInv'
  BY <1>1, <1>2, <1>6, EditedShape, Zenon DEF StoreInv
<1>8. RowsInv'
  BY <1>1, <1>2, <1>5, <1>6, EditedPut, Zenon
<1>9. SafeInv'
  <2>1. ASSUME NEW g \in Files, NEW rid \in DOMAIN safe[g], rid[1] = p
        PROVE  Holds(q, rid[2], safe[g][rid])
    <3>1. Holds(pages[p], rid[2], safe[g][rid])
      BY <2>1, Zenon DEF StoreInv, SafeInv
    <3>2. QED
      BY <1>5, <3>1, Zenon DEF Holds, Put
  <2>2. /\ safe = [g \in Files |-> safe[g]]
        /\ \A g \in Files : safe[g] = [rid \in DOMAIN safe[g] |-> safe[g][rid]]
    BY Zenon DEF StoreInv, SafeInv
  <2>3. QED
    BY <1>1, <1>6, <2>1, <2>2, EditedSafe
<1>10. <<p, s>> \in RecordIds
  BY <1>3, <1>5, Zenon DEF RecordIds, SlotIds
<1>11. ASSUME NEW g \in Files PROVE <<p, s>> \notin DOMAIN rows[g]
  <2>1. rows[g] = ScanOf(pages, Chain(g))
    BY RowsAreScans, Zenon DEF StoreInv
  <2>2. QED
    BY <1>5, <2>1, ScanOfFacts
<1>12. QED
  BY <1>7, <1>8, <1>9, <1>10, <1>11, Zenon DEF StoreInv, p, s

\* An id that a caller holds is that of a record of its file and of no other.
LEMMA RowFacts ==
  ASSUME StoreInv, NEW f \in Files, NEW rid \in DOMAIN rows[f]
  PROVE  /\ rid = <<rid[1], rid[2]>> /\ rid \in RecordIds
         /\ rid[1] \in Chain(f) /\ rid[1] \in 1 .. page_count - 1
         /\ rid[2] \in LiveSlots(pages[rid[1]]) /\ GoodPage(pages[rid[1]])
         /\ first_page_id[f] # kInvalidPageId
<1>1. rows[f] = ScanOf(pages, Chain(f))
  BY RowsAreScans, Zenon DEF StoreInv
<1>2. rid[1] \in Chain(f) /\ rid[2] \in LiveSlots(pages[rid[1]]) /\ rid = <<rid[1], rid[2]>>
  BY <1>1, ScanOfFacts
<1>3. /\ page_count \in Nat /\ Chain(f) \subseteq 0 .. page_count - 1 /\ LiveSlots(pages[0]) = {}
      /\ 0 .. page_count - 1 \subseteq PageIds
      /\ \A p \in 0 .. page_count - 1 : GoodPage(pages[p])
  BY ShapeFacts, Zenon DEF StoreInv
<1>4. rid[1] \in 1 .. page_count - 1 /\ rid[1] \in PageIds /\ GoodPage(pages[rid[1]])
  BY <1>2, <1>3
<1>5. rid[2] \in SlotIds
  BY <1>2, <1>4, SlotsBounded, Zenon DEF LiveSlots
<1>6. rid \in RecordIds
  BY <1>2, <1>4, <1>5, Zenon DEF RecordIds, SlotIds
<1>7. first_page_id[f] # kInvalidPageId
  BY <1>2, <1>3, ReachedNone DEF Chain, kInvalidPageId
<1>8. QED
  BY <1>2, <1>4, <1>6, <1>7, Zenon

\* A record that is deleted or overwritten is not to be found after a crash;
\* the others that were flushed are.
LEMMA ForgetSafe ==
  ASSUME StoreInv, NEW f \in Files, NEW rid \in DOMAIN rows[f], safe' = Forget(safe, rid),
         NEW q, Edited(rid[1], q),
         \A t \in LiveSlots(pages[rid[1]]) \ {rid[2]} :
           t \in LiveSlots(q) /\ GetRecord(q, t) = GetRecord(pages[rid[1]], t)
  PROVE  SafeInv' /\ \A g \in Files \ {f} : safe'[g] = safe[g]
<1>1. /\ safe = [g \in Files |-> safe[g]]
      /\ \A g \in Files : safe[g] = [x \in DOMAIN safe[g] |-> safe[g][x]]
  BY Zenon DEF StoreInv, SafeInv
<1>2. /\ safe' = [g \in Files |-> safe'[g]]
      /\ \A g \in Files : safe'[g] = WithoutRecord(safe[g], rid)
  BY ForgetFacts, Zenon
<1>3. ASSUME NEW g \in Files
      PROVE  /\ DOMAIN safe'[g] = DOMAIN safe[g] \ {rid}
             /\ \A x \in DOMAIN safe'[g] : safe'[g][x] = safe[g][x]
             /\ safe'[g] = [x \in DOMAIN safe'[g] |-> safe'[g][x]]
  <2>1. safe'[g] = [x \in DOMAIN safe[g] \ {rid} |-> safe[g][x]]
    BY <1>2, Zenon DEF WithoutRecord
  <2>2. QED
    BY <2>1, Zenon
<1>4. rid = <<rid[1], rid[2]>> /\ rid[1] \in Chain(f)
  BY RowFacts, Zenon
<1>5. ASSUME NEW g \in Files, NEW x \in DOMAIN safe'[g], x[1] = rid[1]
      PROVE  Holds(q, x[2], safe[g][x])
  <2>0. x \in DOMAIN safe[g] /\ x # rid
    <3>1. DOMAIN safe'[g] = DOMAIN safe[g] \ {rid}
      BY <1>3, Zenon
    <3> QED BY <3>1, Zenon
  <2>1. x = <<x[1], x[2]>> /\ Holds(pages[x[1]], x[2], safe[g][x])
    BY <2>0, Zenon DEF StoreInv, SafeInv
  <2>2. x[2] # rid[2]
    BY <1>4, <1>5, <2>0, <2>1, Zenon
  <2>3. QED
    BY <1>5, <2>1, <2>2, Zenon DEF Holds
<1>6. SafeInv'
  BY <1>2, <1>3, <1>5, EditedSafe
<1>7. ASSUME NEW g \in Files \ {f} PROVE safe'[g] = safe[g]
  <2>1. rid \notin DOMAIN safe[g]
    BY <1>4, Zenon DEF StoreInv, SafeInv, ShapeInv, ChainInv
  <2>2. DOMAIN safe[g] \ {rid} = DOMAIN safe[g]
    BY <2>1, Zenon
  <2>3. safe'[g] = [x \in DOMAIN safe[g] |-> safe[g][x]]
    BY <1>2, <2>2, Zenon DEF WithoutRecord
  <2>4. QED
    BY <1>1, <2>3, Zenon
<1>8. QED
  BY <1>6, <1>7, Zenon

\* A delete, and an update that deletes in order to insert elsewhere.
LEMMA DropKeeps ==
  ASSUME StoreInv, HeapInv', NEW f \in Files, NEW rid \in DOMAIN rows[f],
         pages' = [pages EXCEPT ![rid[1]] = DeleteRecord(@, rid[2])],
         safe' = Forget(safe, rid), rows' = Forget(rows, rid),
         UNCHANGED <<disk, page_count, first_page_id, last_insert_page_id>>,
         op' = NoOp \/ \E r \in Records : op' = InsertCall(f, r)
  PROVE  /\ StoreInv' /\ rid \in RecordIds
         /\ \A g \in Files \ {f} : rows'[g] = rows[g] /\ safe'[g] = safe[g]
<1> DEFINE p == rid[1]
           s == rid[2]
           q == DeleteRecord(pages[p], s)
<1>1. /\ rid = <<p, s>> /\ rid \in RecordIds
      /\ p \in Chain(f) /\ p \in 1 .. page_count - 1
      /\ s \in LiveSlots(pages[p]) /\ GoodPage(pages[p])
      /\ first_page_id[f] # kInvalidPageId
  BY RowFacts, Zenon
<1>2. Dropped(pages[p], q, s)
  BY <1>1, DeleteDrops, Zenon
<1>3. Edited(p, q)
  BY <1>1, <1>2, Zenon DEF Edited, Dropped
<1> HIDE DEF p, s, q
<1>4. ShapeInv'
  BY <1>1, <1>3, EditedShape, Zenon DEF StoreInv
<1>5. RowsInv' /\ \A g \in Files \ {f} : rows'[g] = rows[g]
  BY <1>1, <1>2, <1>3, EditedDrop, Zenon
<1>6. SafeInv' /\ \A g \in Files \ {f} : safe'[g] = safe[g]
  <2>1. \A t \in LiveSlots(pages[p]) \ {s} : t \in LiveSlots(q) /\ GetRecord(q, t) = GetRecord(pages[p], t)
    BY <1>2, Zenon DEF Dropped
  <2>2. QED
    BY <1>3, <2>1, ForgetSafe, Zenon DEF p, s
<1>7. QED
  BY <1>1, <1>4, <1>5, <1>6, Zenon DEF StoreInv

\* An update in place.
LEMMA ReplaceKeeps ==
  ASSUME StoreInv, HeapInv', NEW f \in Files, NEW rid \in DOMAIN rows[f], NEW r \in Records,
         UpdatesInPlace(pages[rid[1]], rid[2], r),
         pages' = [pages EXCEPT ![rid[1]] = UpdateRecordInPlace(@, rid[2], r)],
         safe' = Forget(safe, rid), rows' = Remember(rows, f, rid, r),
         UNCHANGED <<disk, page_count, first_page_id, last_insert_page_id>>,
         op' = NoOp
  PROVE  /\ StoreInv' /\ rid \in RecordIds
         /\ \A g \in Files \ {f} : safe'[g] = safe[g]
<1> DEFINE p == rid[1]
           s == rid[2]
           q == UpdateRecordInPlace(pages[p], s, r)
<1>1. /\ rid = <<p, s>> /\ rid \in RecordIds
      /\ p \in Chain(f) /\ p \in 1 .. page_count - 1
      /\ s \in LiveSlots(pages[p]) /\ GoodPage(pages[p])
      /\ first_page_id[f] # kInvalidPageId
  BY RowFacts, Zenon
<1>2. Put(pages[p], q, s, r)
  BY <1>1, UpdatePuts, Zenon
<1>3. Edited(p, q)
  BY <1>1, <1>2, Zenon DEF Edited, Put
<1> HIDE DEF p, s, q
<1>4. ShapeInv'
  BY <1>1, <1>3, EditedShape, Zenon DEF StoreInv
<1>5. RowsInv'
  BY <1>1, <1>2, <1>3, EditedPut, Zenon
<1>6. SafeInv' /\ \A g \in Files \ {f} : safe'[g] = safe[g]
  <2>1. \A t \in LiveSlots(pages[p]) \ {s} : t \in LiveSlots(q) /\ GetRecord(q, t) = GetRecord(pages[p], t)
    BY <1>2, Zenon DEF Put
  <2>2. QED
    BY <1>3, <2>1, ForgetSafe, Zenon DEF p, s
<1>7. QED
  BY <1>1, <1>4, <1>5, <1>6, Zenon DEF StoreInv

\* Steps that move a call along and leave pages and records alone.
LEMMA MoveKeeps ==
  ASSUME StoreInv, HeapInv', OpInv',
         UNCHANGED <<pages, disk, page_count, first_page_id, last_insert_page_id, rows, safe>>
  PROVE  StoreInv'
<1>1. \A f \in Files : Chain(f)' = Chain(f) /\ DiskChain(f)' = DiskChain(f) /\ Scan(f)' = Scan(f)
  BY DEF Chain, DiskChain, Scan
<1>2. LinkInv'
  BY Zenon DEF StoreInv, ShapeInv, LinkInv
<1>3. ChainInv'
  BY <1>1 DEF StoreInv, ShapeInv, ChainInv, OnlyFile
<1>4. RowsInv'
  BY <1>1, Zenon DEF StoreInv, RowsInv
<1>5. SafeInv'
  BY <1>1 DEF StoreInv, SafeInv, Holds
<1>6. QED
  BY <1>2, <1>3, <1>4, <1>5, Zenon DEF StoreInv, ShapeInv

\* InsertRecord begins on the page it used last, and goes from page to page.
LEMMA CallKeeps ==
  ASSUME StoreInv, HeapInv',
         (\E f \in Files, r \in Records : BeginInsert(f, r)) \/ InsertFurther \/ InsertFails
  PROVE  StoreInv'
<1>1. ASSUME NEW f \in Files, NEW r \in Records, BeginInsert(f, r) PROVE StoreInv'
  <2>1. /\ op' = InsertCall(f, r) /\ first_page_id[f] # kInvalidPageId
        /\ UNCHANGED <<pages, disk, page_count, first_page_id, last_insert_page_id, rows, safe>>
    BY <1>1, Zenon DEF BeginInsert
  <2>2. op'.file = f /\ op'.prev = kInvalidPageId /\ op'.current = last_insert_page_id[f]
    BY <2>1, Zenon DEF InsertCall
  <2>3. last_insert_page_id[f] \in Chain(f) /\ Chain(f)' = Chain(f)
    BY <2>1, Zenon DEF StoreInv, ShapeInv, ChainInv, Chain
  <2>4. OpInv'
    BY <2>1, <2>2, <2>3, Zenon DEF OpInv
  <2>5. QED
    BY <2>1, <2>4, MoveKeeps, Zenon
<1>2. CASE InsertFurther
  <2>1. /\ op # NoOp /\ Fetchable(op.current)
        /\ op' = [op EXCEPT !.prev = op.current, !.current = pages[op.current].next]
        /\ UNCHANGED <<pages, disk, page_count, first_page_id, last_insert_page_id, rows, safe>>
    BY <1>2, Zenon DEF InsertFurther
  <2>2. op.current \in Chain(op.file) /\ op.file \in Files /\ first_page_id[op.file] # kInvalidPageId
    BY <2>1, OnChain, Zenon DEF StoreInv
  <2>3. op'.file = op.file /\ op'.prev = op.current /\ op'.current = pages[op.current].next
    BY <2>1, Zenon DEF StoreInv, ShapeInv, HeapInv
  <2>4. op.current # kInvalidPageId
    BY <2>1 DEF Fetchable, kInvalidPageId
  <2>5. OpInv'
    BY <2>1, <2>2, <2>3, <2>4, Zenon DEF OpInv, Chain
  <2>6. QED
    BY <2>1, <2>5, MoveKeeps, Zenon
<1>3. CASE InsertFails
  <2>1. OpInv' /\ UNCHANGED <<pages, disk, page_count, first_page_id, last_insert_page_id, rows, safe>>
    BY <1>3, Zenon DEF InsertFails, OpInv
  <2>2. QED
    BY <2>1, MoveKeeps, Zenon
<1>4. QED
  BY <1>1, <1>2, <1>3, Zenon

-----------------------------------------------------------------------------
(* Steps that add a page. *)

Allocated ==
  /\ page_count < MaxPages
  /\ disk' = DiskAfterAllocate
  /\ page_count' = page_count + 1

\* The new page is blank on disk and on no chain there.
LEMMA DiskGrows ==
  ASSUME ShapeInv, Allocated
  PROVE  /\ disk'[0] = HeaderPage(page_count') /\ disk'[page_count] = Blank
         /\ \A p \in 1 .. page_count - 1 : disk'[p] = disk[p]
         /\ \A a \in Links(page_count) :
              Reached(disk', a, page_count') = Reached(disk, a, page_count)
<1>1. /\ disk \in [PageIds -> PageType] /\ page_count \in Nat /\ page_count >= 1
      /\ 0 .. page_count - 1 \subseteq PageIds /\ PageIds = 0 .. MaxPages - 1 /\ MaxPages \in Nat
  BY ShapeFacts, Zenon
<1>2. page_count \in PageIds /\ 0 \in PageIds /\ page_count # 0
  BY <1>1 DEF Allocated
<1>3. /\ disk'[0] = HeaderPage(page_count') /\ disk'[page_count] = Blank
      /\ \A p \in 1 .. page_count - 1 : disk'[p] = disk[p]
  BY <1>1, <1>2 DEF Allocated, DiskAfterAllocate
<1>4. ASSUME NEW a \in Links(page_count)
      PROVE  Reached(disk', a, page_count') = Reached(disk, a, page_count)
  <2> DEFINE n == page_count
             k == page_count + 1
             R == Reached(disk, a, n)
  <2>1. R \subseteq 0 .. n - 1
    BY <1>1, ReachedClosed, Zenon
  <2>2. a \in 0 .. k - 1 => a \in 0 .. n - 1
    BY <1>1 DEF Links, kInvalidPageId
  <2>3. ASSUME NEW p \in R
        PROVE  \/ disk'[p].next = disk[p].next /\ disk'[p].next \notin n .. k - 1
               \/ disk'[p].next \notin 0 .. k - 1 /\ disk[p].next \notin 0 .. n - 1
    <3>1. CASE p = 0
      <4>1. disk[p].next = n /\ disk'[p].next = k
        BY <1>3, <3>1 DEF ShapeInv, LinkInv, HeaderPage, Allocated
      <4>2. QED
        BY <1>1, <4>1
    <3>2. CASE p # 0
      <4>1. p \in 1 .. page_count - 1
        BY <1>1, <2>1, <3>2
      <4>2. disk[p].next \in Links(page_count)
        BY <1>1, <4>1 DEF ShapeInv, LinkInv, Links
      <4>3. disk[p].next \notin n .. k - 1
        BY <1>1, <4>2 DEF Links, kInvalidPageId
      <4>4. QED
        BY <1>3, <4>1, <4>3, Zenon
    <3>3. QED
      BY <3>1, <3>2, Zenon
  <2>4. n \in Nat /\ k \in Nat /\ n <= k
    BY <1>1
  <2> HIDE DEF n, k
  <2>5. Reached(disk', a, k) = Reached(disk, a, n)
    BY <2>2, <2>3, <2>4, ReachedSame
  <2>6. QED
    BY <2>5, Zenon DEF n, k, Allocated
<1>5. QED
  BY <1>3, <1>4, Zenon

\* The records that were flushed stay where they are.
LEMMA AllocatedSafe ==
  ASSUME StoreInv, Allocated, safe' = safe,
         \A f \in Files : first_page_id'[f] = first_page_id[f] \/ first_page_id[f] = kInvalidPageId,
         \A f \in Files : Chain(f) \subseteq Chain(f)',
         \A p \in 1 .. page_count - 1 : SameRecords(pages[p], pages'[p])
  PROVE  SafeInv'
<1>1. /\ page_count \in Nat /\ page_count >= 1
      /\ \A f \in Files : Chain(f) \subseteq 0 .. page_count - 1
      /\ LiveSlots(pages[0]) = {}
  BY ShapeFacts, Zenon DEF StoreInv
<1>2. /\ \A p \in 1 .. page_count - 1 : disk'[p] = disk[p]
      /\ \A a \in Links(page_count) : Reached(disk', a, page_count') = Reached(disk, a, page_count)
  BY DiskGrows, Zenon DEF StoreInv
<1>3. ASSUME NEW f \in Files, NEW rid \in DOMAIN safe[f]
      PROVE  /\ rid = <<rid[1], rid[2]>>
             /\ rid[1] \in Chain(f)' /\ rid[1] \in DiskChain(f)'
             /\ Holds(pages'[rid[1]], rid[2], safe[f][rid])
             /\ Holds(disk'[rid[1]], rid[2], safe[f][rid])
  <2>1. /\ rid = <<rid[1], rid[2]>>
        /\ rid[1] \in Chain(f) /\ rid[1] \in DiskChain(f)
        /\ Holds(pages[rid[1]], rid[2], safe[f][rid])
        /\ Holds(disk[rid[1]], rid[2], safe[f][rid])
    BY Zenon DEF StoreInv, SafeInv
  <2>2. rid[1] \in 1 .. page_count - 1
    BY <1>1, <2>1 DEF Holds
  <2>3. first_page_id[f] # kInvalidPageId
    BY <1>1, <2>1, ReachedNone DEF Chain, kInvalidPageId
  <2>4. first_page_id'[f] = first_page_id[f] /\ first_page_id[f] \in Links(page_count)
    BY <2>3, Zenon DEF StoreInv, ShapeInv, ChainInv
  <2>5. DiskChain(f)' = DiskChain(f)
    BY <1>2, <2>4, Zenon DEF DiskChain
  <2>6. QED
    BY <1>2, <2>1, <2>2, <2>5, Zenon DEF Holds, SameRecords
<1>4. /\ safe = [g \in Files |-> safe[g]]
      /\ \A g \in Files : safe[g] = [rid \in DOMAIN safe[g] |-> safe[g][rid]]
  BY Zenon DEF StoreInv, SafeInv
<1>5. QED
  BY <1>3, <1>4, Zenon DEF SafeInv, Holds

\* The chain of another file than the one that gets the page.
LEMMA OtherChain ==
  ASSUME ShapeInv, NEW f \in Files, NEW g \in Files, g # f, page_count' = page_count + 1,
         first_page_id'[g] = first_page_id[g],
         \A p \in Chain(g) \ {0} : pages'[p].next = pages[p].next
  PROVE  Chain(g)' = Chain(g)
<1> DEFINE n == page_count
           k == page_count + 1
           a == first_page_id[g]
<1>1. page_count \in Nat /\ Chain(g) \subseteq 0 .. n - 1
  BY ShapeFacts, Zenon
<1>2. a \in Links(n) /\ 0 \notin Chain(g)
  BY Zenon DEF ShapeInv, ChainInv, OnlyFile
<1>3. n \in Nat /\ k \in Nat /\ n <= k /\ (a \in 0 .. k - 1 => a \in 0 .. n - 1)
  BY <1>1, <1>2 DEF Links, kInvalidPageId
<1>4. ASSUME NEW p \in Chain(g)
      PROVE  pages'[p].next = pages[p].next /\ pages'[p].next \notin n .. k - 1
  <2>1. p \in 1 .. n - 1
    BY <1>1, <1>2
  <2>2. pages[p].next \in Links(n)
    BY <2>1, Zenon DEF ShapeInv, LinkInv
  <2>3. QED
    BY <1>1, <1>2, <2>2 DEF Links, kInvalidPageId
<1>5. Chain(g) = Reached(pages, a, n) /\ Chain(g)' = Reached(pages', a, k)
  BY Zenon DEF Chain
<1> HIDE DEF n, k, a
<1>6. QED
  BY <1>3, <1>4, <1>5, ReachedSame

\* The pages in the pool after a page has been added to a file, behind the
\* page e if that is not the invalid page.
PageAdded(e, pg) ==
  /\ Allocated
  /\ pages'[page_count] = pg /\ pg.next = kInvalidPageId
  /\ \A p \in 0 .. page_count - 1 : p # e => pages'[p] = pages[p]
  /\ e # kInvalidPageId => /\ e \in 1 .. page_count - 1
                           /\ pages[e].next = kInvalidPageId
                           /\ pages'[e] = SetNextPageId(pages[e], page_count)

\* Links stay links, and the records on the other pages stay.
LEMMA PageAddedLinks ==
  ASSUME ShapeInv, NEW e, NEW pg, PageAdded(e, pg)
  PROVE  /\ LinkInv'
         /\ e # kInvalidPageId => pages'[e].next = page_count
         /\ \A p \in 0 .. page_count - 1 : SameRecords(pages[p], pages'[p])
<1>1. /\ pages \in [PageIds -> PageType] /\ page_count \in Nat /\ page_count >= 1
      /\ 0 .. page_count - 1 \subseteq PageIds
      /\ page_count' = page_count + 1 /\ Allocated
  BY ShapeFacts, Zenon DEF PageAdded, Allocated
<1>2. /\ disk'[0] = HeaderPage(page_count') /\ disk'[page_count] = Blank
      /\ \A p \in 1 .. page_count - 1 : disk'[p] = disk[p]
  BY <1>1, DiskGrows, Zenon
<1>3. e # kInvalidPageId => /\ pages'[e].next = page_count /\ pages'[e].slots = pages[e].slots
  <2> SUFFICES ASSUME e # kInvalidPageId
               PROVE  pages'[e].next = page_count /\ pages'[e].slots = pages[e].slots
    BY Zenon
  <2>1. pages'[e] = [pages[e] EXCEPT !.next = page_count] /\ e \in PageIds
    BY <1>1 DEF PageAdded, SetNextPageId
  <2>2. pages[e] \in PageType
    BY <1>1, <2>1, Zenon
  <2>3. QED
    BY <2>1, <2>2, Zenon DEF PageType
<1>4. \A p \in 0 .. page_count - 1 : pages'[p].slots = pages[p].slots
  <2>1. ASSUME NEW p \in 0 .. page_count - 1 PROVE pages'[p].slots = pages[p].slots
    <3>1. CASE p = e
      BY <1>1, <1>3, <3>1 DEF kInvalidPageId
    <3>2. CASE p # e
      BY <3>2, Zenon DEF PageAdded
    <3>3. QED
      BY <3>1, <3>2, Zenon
  <2>2. QED
    BY <2>1, Zenon
<1>5. \A p \in 0 .. page_count - 1 : SameRecords(pages[p], pages'[p])
  BY <1>4, Zenon DEF SameRecords, LiveSlots, IsTombstoned, GetRecord
<1>6. ASSUME NEW p \in 1 .. page_count' - 1
      PROVE  /\ pages'[p].next \in Links(page_count')
             /\ disk'[p].next \in {pages'[p].next, kInvalidPageId, 0}
  <2>1. CASE p = page_count
    BY <1>1, <1>2, <2>1 DEF PageAdded, Blank, Links
  <2>2. CASE p # page_count
    <3>1. p \in 1 .. page_count - 1 /\ p \in 0 .. page_count - 1
      BY <1>1, <2>2
    <3>2. pages[p].next \in Links(page_count) /\ disk[p].next \in {pages[p].next, kInvalidPageId, 0}
      BY <3>1, Zenon DEF ShapeInv, LinkInv
    <3>3. disk'[p] = disk[p]
      BY <1>2, <3>1, Zenon
    <3>4. CASE p = e
      <4>1. e # kInvalidPageId
        BY <1>1, <3>1, <3>4 DEF kInvalidPageId
      <4>2. pages'[p].next = page_count /\ disk[p].next \in {kInvalidPageId, 0}
        BY <1>3, <3>2, <3>4, <4>1, Zenon DEF PageAdded
      <4>3. QED
        BY <1>1, <3>3, <4>2 DEF Links
    <3>5. CASE p # e
      <4>1. pages'[p] = pages[p]
        BY <3>1, <3>5, Zenon DEF PageAdded
      <4>2. QED
        BY <1>1, <3>2, <3>3, <4>1 DEF Links, kInvalidPageId
    <3>6. QED
      BY <3>4, <3>5, Zenon
  <2>3. QED
    BY <2>1, <2>2, Zenon
<1>7. pages'[0] = pages[0]
  <2>1. e # 0
    BY <1>1 DEF PageAdded, kInvalidPageId
  <2>2. QED
    BY <1>1, <2>1 DEF PageAdded
<1>8. LinkInv'
  <2>1. pages'[0].slots = <<>> /\ pages'[0].free = 0
    BY <1>7, Zenon DEF ShapeInv, LinkInv
  <2>2. QED
    BY <1>2, <1>6, <2>1, Zenon DEF LinkInv
<1>9. QED
  BY <1>3, <1>5, <1>8, Zenon

\* Then a file has the new page at the end of its chain, and the other chains
\* are as they were.
ChainsGrow(f) ==
  /\ Chain(f)' = Chain(f) \cup {page_count}
  /\ \A g \in Files \ {f} : Chain(g)' = Chain(g)

\* What is left of the shape once the chains are known.
LEMMA GrownShape ==
  ASSUME ShapeInv, HeapInv', LinkInv', op' = NoOp, NEW f \in Files, ChainsGrow(f),
         0 \notin Chain(f), page_count' = page_count + 1,
         first_page_id'[f] \in {first_page_id[f], page_count} \ {kInvalidPageId},
         last_insert_page_id'[f] \in Chain(f)',
         \A g \in Files \ {f} : /\ first_page_id'[g] = first_page_id[g]
                                /\ last_insert_page_id'[g] = last_insert_page_id[g]
  PROVE  ShapeInv'
<1>1. /\ page_count \in Nat /\ page_count >= 1
      /\ \A g \in Files : Chain(g) \subseteq 0 .. page_count - 1
  BY ShapeFacts, Zenon
<1>2. \A g \in Files : page_count \notin Chain(g)
  BY <1>1
<1>3. ChainInv
  BY Zenon DEF ShapeInv
<1>4. \A x \in Links(page_count) : x \in Links(page_count')
  BY <1>1 DEF Links
<1>5. page_count \in Links(page_count') \ {0}
  BY <1>1 DEF Links
<1>6. ASSUME NEW g \in Files
      PROVE  /\ first_page_id'[g] \in Links(page_count') \ {0}
             /\ first_page_id'[g] # kInvalidPageId => last_insert_page_id'[g] \in Chain(g)'
             /\ 0 \notin Chain(g)'
             /\ \A h \in Files : g # h => Chain(g)' \cap Chain(h)' = {}
  <2>1. first_page_id'[g] \in Links(page_count') \ {0}
    BY <1>3, <1>4, <1>5, Zenon DEF ChainInv
  <2>2. first_page_id'[g] # kInvalidPageId => last_insert_page_id'[g] \in Chain(g)'
    BY <1>3 DEF ChainInv, ChainsGrow
  <2>3. 0 \notin Chain(g)'
    BY <1>1, <1>3 DEF ChainInv, ChainsGrow, OnlyFile
  <2>4. \A h \in Files : g # h => Chain(g)' \cap Chain(h)' = {}
    BY <1>2, <1>3 DEF ChainInv, ChainsGrow
  <2>5. QED
    BY <2>1, <2>2, <2>3, <2>4, Zenon
<1>7. ChainInv'
  BY <1>6, Zenon DEF ChainInv
<1>8. OpInv'
  BY Zenon DEF OpInv
<1>9. QED
  BY <1>7, <1>8, Zenon DEF ShapeInv

\* The first page of a heap file.
LEMMA CreateKeeps ==
  ASSUME StoreInv, HeapInv', NEW f \in Files, Create(f)
  PROVE  StoreInv'
<1> DEFINE n == page_count
<1>1. /\ op = NoOp /\ op' = op /\ rows' = rows /\ safe' = safe
      /\ first_page_id[f] = kInvalidPageId
      /\ pages' = [pages EXCEPT ![n] = InitPage]
      /\ first_page_id' = [first_page_id EXCEPT ![f] = n]
      /\ last_insert_page_id' = [last_insert_page_id EXCEPT ![f] = n]
      /\ Allocated
  BY Zenon DEF Create, Allocated
<1>2. /\ pages \in [PageIds -> PageType] /\ n \in Nat /\ n >= 1 /\ n \in PageIds
      /\ 0 .. n - 1 \subseteq PageIds /\ page_count' = n + 1
      /\ ShapeInv
  BY <1>1, ShapeFacts DEF Allocated, StoreInv
<1>3. PageAdded(kInvalidPageId, InitPage)
  <2>1. InitPage.next = kInvalidPageId
    BY Zenon DEF InitPage
  <2>2. QED
    BY <1>1, <1>2, <2>1 DEF PageAdded
<1>4. /\ LinkInv' /\ \A p \in 0 .. n - 1 : SameRecords(pages[p], pages'[p])
  BY <1>2, <1>3, PageAddedLinks, Zenon
<1>5. /\ first_page_id'[f] = n /\ last_insert_page_id'[f] = n
      /\ \A g \in Files \ {f} : /\ first_page_id'[g] = first_page_id[g]
                                /\ last_insert_page_id'[g] = last_insert_page_id[g]
  BY <1>1, Zenon DEF StoreInv, ShapeInv, HeapInv
<1>6. Chain(f) = {}
  BY <1>1, <1>2, ReachedNone DEF Chain, kInvalidPageId
<1>7. Chain(f)' = {n}
  <2> DEFINE T == {n}
  <2>1. \A p \in T : pages'[p].next \notin 0 .. n
    BY <1>2, <1>3 DEF PageAdded, kInvalidPageId
  <2>2. n + 1 \in Nat /\ 0 .. (n + 1) - 1 = 0 .. n /\ n \in 0 .. n /\ n \in T
    BY <1>2
  <2> HIDE DEF T
  <2>3. Reached(pages', n, n + 1) \subseteq T
    BY <2>1, <2>2, ReachedLeast, Zenon
  <2>4. n \in Reached(pages', n, n + 1)
    BY <2>2, ReachedClosed, Zenon
  <2>5. Chain(f)' = Reached(pages', n, n + 1)
    BY <1>2, <1>5, Zenon DEF Chain
  <2>6. QED
    BY <2>3, <2>4, <2>5, Zenon DEF T
<1>8. \A g \in Files \ {f} : Chain(g)' = Chain(g)
  <2>1. ASSUME NEW g \in Files \ {f} PROVE Chain(g)' = Chain(g)
    <3>1. Chain(g) \subseteq 0 .. n - 1
      BY <1>2, ShapeFacts, Zenon
    <3>2. \A p \in Chain(g) \ {0} : pages'[p].next = pages[p].next
      BY <1>2, <1>3, <3>1 DEF PageAdded, kInvalidPageId
    <3>3. QED
      BY <1>2, <1>5, <3>2, OtherChain, Zenon
  <2>2. QED
    BY <2>1, Zenon
<1>9. ChainsGrow(f)
  BY <1>6, <1>7, <1>8, Zenon DEF ChainsGrow
<1>10. ShapeInv'
  <2>1. n # kInvalidPageId
    BY <1>2 DEF kInvalidPageId
  <2>2. QED
    BY <1>1, <1>2, <1>4, <1>5, <1>6, <1>7, <1>9, <2>1, GrownShape, Zenon
<1>11. /\ rows = [g \in Files |-> rows[g]]
       /\ \A g \in Files : rows[g] = ScanOf(pages, Chain(g))
  BY RowsAreScans, Zenon DEF StoreInv
<1>12. \A g \in Files : Chain(g) \subseteq 0 .. n - 1
  BY <1>2, ShapeFacts, Zenon
<1>13. rows'[f] = ScanOf(pages', Chain(f)')
  <2>1. LiveSlots(pages'[n]) = {} /\ n \notin Chain(f)
    BY <1>3, <1>6 DEF PageAdded, InitPage, LiveSlots
  <2>2. \A p \in Chain(f) : SameRecords(pages[p], pages'[p])
    BY <1>6, Zenon
  <2>3. ScanOf(pages', Chain(f) \cup {n}) = ScanOf(pages, Chain(f))
    BY <2>1, <2>2, ScanEmptyPage
  <2>4. QED
    BY <1>1, <1>9, <1>11, <2>3, Zenon DEF ChainsGrow
<1>14. ASSUME NEW g \in Files \ {f} PROVE rows'[g] = ScanOf(pages', Chain(g)')
  <2>1. \A p \in Chain(g) : SameRecords(pages[p], pages'[p])
    BY <1>4, <1>12, Zenon
  <2>2. ScanOf(pages', Chain(g)) = ScanOf(pages, Chain(g))
    BY <2>1, ScanSame, Zenon
  <2>3. QED
    BY <1>1, <1>8, <1>11, <2>2, Zenon
<1>15. RowsInv'
  BY <1>1, <1>11, <1>13, <1>14, ScansAreRows, Zenon
<1>16. SafeInv'
  <2>1. \A g \in Files : Chain(g) \subseteq Chain(g)'
    BY <1>9, Zenon DEF ChainsGrow
  <2>2. \A g \in Files : first_page_id'[g] = first_page_id[g] \/ first_page_id[g] = kInvalidPageId
    BY <1>1, <1>5, Zenon
  <2>3. \A p \in 1 .. page_count - 1 : SameRecords(pages[p], pages'[p])
    BY <1>2, <1>4
  <2>4. QED
    BY <1>1, <2>1, <2>2, <2>3, AllocatedSafe, Zenon
<1>17. QED
  BY <1>10, <1>15, <1>16, Zenon DEF StoreInv

\* An insert that comes to the end of its chain is on the last page, and the
\* chain does not run into the header.
LEMMA AtTheEnd ==
  ASSUME ShapeInv, op # NoOp, op.current = kInvalidPageId
  PROVE  /\ op.prev \in Chain(op.file) /\ op.prev \in 1 .. page_count - 1
         /\ op.prev # kInvalidPageId
         /\ pages[op.prev].next = kInvalidPageId /\ 0 \notin Chain(op.file)
<1> DEFINE f == op.file
           e == op.prev
           n == page_count
<1>1. f \in Files /\ first_page_id[f] # kInvalidPageId
  BY OnChain, Zenon
<1>2. page_count \in Nat /\ n >= 1 /\ Chain(f) \subseteq 0 .. n - 1
  BY <1>1, ShapeFacts, Zenon
<1>3. kInvalidPageId \notin Chain(f)
  BY <1>2 DEF kInvalidPageId
<1>4. e # kInvalidPageId /\ e \in Chain(f) /\ pages[e].next = kInvalidPageId
  BY <1>3, Zenon DEF ShapeInv, OpInv
<1>5. 0 \in Chain(f) => pages[0].next = n
  BY <1>1, Zenon DEF ShapeInv, ChainInv
<1>6. kInvalidPageId \notin 0 .. n - 1 /\ n \notin 0 .. n - 1 /\ n # kInvalidPageId
  BY <1>2 DEF kInvalidPageId
<1>7. ASSUME 0 \in Chain(f) PROVE FALSE
  <2>1. Chain(f) = Reached(pages, first_page_id[f], n)
    BY Zenon DEF Chain
  <2> HIDE DEF n, e
  <2>2. e = 0
    BY <1>2, <1>4, <1>5, <1>6, <1>7, <2>1, OneEnd DEF n
  <2>3. QED
    BY <1>4, <1>5, <1>6, <1>7, <2>2, Zenon
<1>8. e \in 1 .. n - 1
  BY <1>2, <1>4, <1>7
<1>9. QED
  BY <1>4, <1>7, <1>8, Zenon

\* What the step does to the pages, and the chain it makes.
LEMMA NewPageChains ==
  ASSUME ShapeInv, InsertInNewPage, NEW f \in Files, f = op.file, NEW pg,
         pg = IF Fits(InitPage, op.rec) THEN InsertRecord(InitPage, op.rec) ELSE InitPage
  PROVE  PageAdded(op.prev, pg) /\ ChainsGrow(f)
<1> DEFINE e == op.prev
           n == page_count
           a == first_page_id[f]
<1>1. /\ op # NoOp /\ op.current = kInvalidPageId /\ Allocated
      /\ first_page_id' = first_page_id
      /\ pages' = NewPageLinked(n, e, pg)
  BY Zenon DEF InsertInNewPage, Allocated
<1>2. op.rec \in Records
  BY <1>1, OnChain, Zenon
<1>3. /\ e \in Chain(f) /\ e \in 1 .. n - 1 /\ e # kInvalidPageId
      /\ pages[e].next = kInvalidPageId /\ 0 \notin Chain(f)
  BY <1>1, AtTheEnd, Zenon
<1>4. /\ pages \in [PageIds -> PageType] /\ n \in Nat /\ n >= 1 /\ n \in PageIds
      /\ 0 .. n - 1 \subseteq PageIds /\ page_count' = n + 1
      /\ \A g \in Files : Chain(g) \subseteq 0 .. n - 1
  BY <1>1, ShapeFacts DEF Allocated
<1>5. pg.next = kInvalidPageId
  <2>1. InitPage.next = kInvalidPageId
    BY Zenon DEF InitPage
  <2>2. ASSUME Fits(InitPage, op.rec) PROVE InsertRecord(InitPage, op.rec).next = kInvalidPageId
    BY <1>2, <2>1, <2>2, InitPageGood, InsertPuts, Zenon DEF Put
  <2>3. QED
    BY <2>1, <2>2, Zenon
<1>6. PageAdded(e, pg)
  <2>1. pages' = [[pages EXCEPT ![n] = pg] EXCEPT ![e] = SetNextPageId(@, n)]
    BY <1>1, Zenon DEF NewPageLinked, NewPageUnlinked
  <2>2. e \in PageIds /\ e # n /\ n \notin 0 .. n - 1
    BY <1>3, <1>4
  <2>3. /\ pages'[n] = pg /\ pages'[e] = SetNextPageId(pages[e], n)
        /\ \A p \in 0 .. n - 1 : p # e => pages'[p] = pages[p]
    BY <1>4, <2>1, <2>2, Zenon
  <2>4. QED
    BY <1>1, <1>3, <1>5, <2>3, Zenon DEF PageAdded
<1>7. pages'[e].next = n
  BY <1>3, <1>6, PageAddedLinks, Zenon
<1>8. Chain(f)' = Chain(f) \cup {n}
  <2>1. Chain(f) = Reached(pages, a, n) /\ Chain(f)' = Reached(pages', a, n + 1)
    BY <1>1, <1>4, Zenon DEF Chain
  <2>2. a # n
    BY <1>2, <1>4 DEF ShapeInv, ChainInv, Links, kInvalidPageId
  <2>3. pages[e].next \notin 0 .. n - 1 /\ pages'[n].next \notin 0 .. n
    BY <1>3, <1>4, <1>6 DEF PageAdded, kInvalidPageId
  <2>4. ASSUME NEW p \in Chain(f) \ {e} PROVE pages'[p].next = pages[p].next /\ pages[p].next # n
    <3>1. p \in 1 .. n - 1 /\ p \in 0 .. n - 1
      BY <1>2, <1>3, <1>4
    <3>2. pages[p].next \in Links(n)
      BY <3>1, Zenon DEF ShapeInv, LinkInv
    <3>3. QED
      BY <1>4, <1>6, <3>1, <3>2 DEF PageAdded, Links, kInvalidPageId
  <2> HIDE DEF a, n, e
  <2>5. QED
    BY <1>3, <1>4, <1>7, <2>1, <2>2, <2>3, <2>4, ReachedGrows
<1>9. ASSUME NEW g \in Files \ {f} PROVE Chain(g)' = Chain(g)
  <2>1. e \notin Chain(g)
    BY <1>2, <1>3, Zenon DEF ShapeInv, ChainInv
  <2>2. \A p \in Chain(g) \ {0} : pages'[p].next = pages[p].next
    BY <1>4, <1>6, <2>1, Zenon DEF PageAdded
  <2>3. QED
    BY <1>1, <1>2, <1>4, <2>2, OtherChain, Zenon
<1>10. QED
  BY <1>6, <1>8, <1>9, Zenon DEF ChainsGrow

\* An insert into a new page adds its record if it fits an empty page, and
\* nothing but the page if it does not.
LEMMA NewPageKeeps ==
  ASSUME StoreInv, HeapInv', InsertInNewPage
  PROVE  /\ StoreInv'
         /\ Fits(InitPage, op.rec) => <<page_count, 1>> \in RecordIds
         /\ \A g \in Files : <<page_count, 1>> \notin DOMAIN rows[g]
<1>0. PICK f \in Files : f = op.file
  BY OnChain, Zenon DEF StoreInv, InsertInNewPage
<1> DEFINE n == page_count
           r == op.rec
           fits == Fits(InitPage, r)
           pg == IF fits THEN InsertRecord(InitPage, r) ELSE InitPage
<1>1. /\ op # NoOp /\ op' = NoOp /\ op.current = kInvalidPageId
      /\ safe' = safe /\ first_page_id' = first_page_id
      /\ last_insert_page_id' = IF fits THEN [last_insert_page_id EXCEPT ![f] = n]
                                ELSE last_insert_page_id
      /\ rows' = IF fits THEN Remember(rows, f, <<n, 1>>, r) ELSE rows
  BY <1>0, Zenon DEF InsertInNewPage
<1>2. ShapeInv /\ r \in Records /\ first_page_id[f] # kInvalidPageId
  BY <1>0, <1>1, OnChain, Zenon DEF StoreInv
<1>3. PageAdded(op.prev, pg) /\ ChainsGrow(f)
  BY <1>0, <1>2, NewPageChains, Zenon
<1>4. /\ n \in Nat /\ n \in PageIds /\ page_count' = n + 1 /\ Allocated
      /\ \A g \in Files : Chain(g) \subseteq 0 .. n - 1
  BY <1>2, <1>3, ShapeFacts DEF PageAdded, Allocated
<1>5. LinkInv' /\ \A p \in 0 .. n - 1 : SameRecords(pages[p], pages'[p])
  BY <1>2, <1>3, PageAddedLinks, Zenon
<1>6. fits => /\ Put(InitPage, pg, 1, r) /\ 1 \in SlotIds
  <2>1. SlotForInsert(InitPage) = 1
    BY DEF SlotForInsert, Tombstones, InitPage
  <2>2. QED
    BY <1>2, <2>1, InitPageGood, InsertPuts, Zenon
<1>7. LiveSlots(InitPage) = {}
  BY DEF InitPage, LiveSlots
<1> HIDE DEF fits, pg
<1>8. ShapeInv'
  <2>1. last_insert_page_id'[f] \in Chain(f)'
    <3>1. last_insert_page_id[f] \in Chain(f)
      BY <1>2, Zenon DEF ShapeInv, ChainInv
    <3>2. last_insert_page_id'[f] = n \/ last_insert_page_id'[f] = last_insert_page_id[f]
      BY <1>1, <1>2, Zenon DEF ShapeInv, HeapInv
    <3>3. QED
      BY <1>3, <3>1, <3>2, Zenon DEF ChainsGrow
  <2>2. \A g \in Files \ {f} : last_insert_page_id'[g] = last_insert_page_id[g]
    BY <1>1, <1>2, Zenon DEF ShapeInv, HeapInv
  <2>3. 0 \notin Chain(f)
    BY <1>0, <1>1, <1>2, AtTheEnd, Zenon
  <2>4. QED
    BY <1>1, <1>2, <1>3, <1>4, <1>5, <2>1, <2>2, <2>3, GrownShape, Zenon
<1>9. /\ rows = [g \in Files |-> rows[g]]
      /\ \A g \in Files : rows[g] = ScanOf(pages, Chain(g))
  BY RowsAreScans, Zenon DEF StoreInv
<1>10. /\ rows' = [g \in Files |-> rows'[g]]
       /\ rows'[f] = IF fits THEN WithRecord(rows[f], <<n, 1>>, r) ELSE rows[f]
       /\ \A g \in Files \ {f} : rows'[g] = rows[g]
  <2>1. CASE fits
    BY <1>1, <1>2, <1>9, <2>1, RememberFacts
  <2>2. CASE ~fits
    BY <1>1, <1>9, <2>2, Zenon
  <2>3. QED
    BY <2>1, <2>2, Zenon
<1>11. rows'[f] = ScanOf(pages', Chain(f)')
  <2> DEFINE D == Chain(f) \cup {n}
             w == [p \in D |-> IF p = n THEN InitPage ELSE pages'[p]]
  <2>1. n \notin Chain(f)
    BY <1>2, <1>4
  <2>2. ScanOf(w, D) = ScanOf(pages, Chain(f))
    <3>1. LiveSlots(w[n]) = {}
      BY <1>7, Zenon
    <3>2. \A p \in Chain(f) : SameRecords(pages[p], w[p])
      BY <1>2, <1>4, <1>5, <2>1, Zenon
    <3> HIDE DEF w
    <3>3. QED
      BY <2>1, <3>1, <3>2, ScanEmptyPage
  <2>3. Chain(f)' = D /\ pages'[n] = pg /\ n \in D
    BY <1>3, Zenon DEF ChainsGrow, PageAdded
  <2>4. w[n] = InitPage /\ \A p \in D \ {n} : pages'[p] = w[p]
    BY Zenon
  <2> HIDE DEF D, w
  <2>5. CASE fits
    <3>1. ScanOf(pages', D) = WithRecord(ScanOf(w, D), <<n, 1>>, r)
      BY <1>6, <2>3, <2>4, <2>5, ScanPut
    <3>2. QED
      BY <1>2, <1>9, <1>10, <2>2, <2>3, <2>5, <3>1, Zenon
  <2>6. CASE ~fits
    <3>1. \A p \in D : pages'[p] = w[p]
      BY <2>3, <2>4, <2>6, Zenon DEF pg
    <3>2. ScanOf(pages', D) = ScanOf(w, D)
      BY <3>1, ScanSame, Zenon DEF SameRecords
    <3>3. QED
      BY <1>2, <1>9, <1>10, <2>2, <2>3, <2>6, <3>2, Zenon
  <2>7. QED
    BY <2>5, <2>6, Zenon
<1>12. ASSUME NEW g \in Files \ {f} PROVE rows'[g] = ScanOf(pages', Chain(g)')
  <2>1. \A p \in Chain(g) : SameRecords(pages[p], pages'[p])
    BY <1>4, <1>5, Zenon
  <2>2. ScanOf(pages', Chain(g)) = ScanOf(pages, Chain(g))
    BY <2>1, ScanSame, Zenon
  <2>3. QED
    BY <1>3, <1>9, <1>10, <2>2, Zenon DEF ChainsGrow
<1>13. RowsInv'
  BY <1>10, <1>11, <1>12, ScansAreRows, Zenon
<1>14. SafeInv'
  <2>1. \A g \in Files : Chain(g) \subseteq Chain(g)'
    BY <1>3, Zenon DEF ChainsGrow
  <2>2. \A p \in 1 .. page_count - 1 : SameRecords(pages[p], pages'[p])
    BY <1>4, <1>5
  <2>3. QED
    BY <1>1, <1>4, <2>1, <2>2, AllocatedSafe, Zenon
<1>15. fits => <<n, 1>> \in RecordIds
  BY <1>4, <1>6, Zenon DEF RecordIds, SlotIds
<1>16. ASSUME NEW g \in Files PROVE <<n, 1>> \notin DOMAIN rows[g]
  <2>1. n \notin Chain(g)
    BY <1>4
  <2>2. QED
    BY <1>9, <2>1, ScanOfFacts
<1>17. QED
  BY <1>8, <1>13, <1>14, <1>15, <1>16, Zenon DEF StoreInv, fits

-----------------------------------------------------------------------------
(* Evictions, flushes and crashes. *)

\* A page that is written back may be the first version of the page to be on
\* disk, or have got a next page: a chain on disk loses no page but the header,
\* which a page of zeros leads to.
LEMMA WrittenChain ==
  ASSUME ShapeInv, page_count' = page_count, first_page_id' = first_page_id,
         disk'[0] = disk[0],
         \A x \in 1 .. page_count - 1 : disk'[x] \in {disk[x], pages[x]},
         NEW f \in Files
  PROVE  DiskChain(f) \subseteq DiskChain(f)' \cup {0}
<1> DEFINE a == first_page_id[f]
           n == page_count
           T == DiskChain(f)' \cup {0}
<1>1. n \in Nat /\ n >= 1
  BY ShapeFacts, Zenon
<1>2. DiskChain(f)' = Reached(disk', a, n) /\ DiskChain(f) = Reached(disk, a, n)
  BY Zenon DEF DiskChain
<1>3. /\ DiskChain(f)' \subseteq 0 .. n - 1
      /\ a \in 0 .. n - 1 => a \in DiskChain(f)'
      /\ \A x \in DiskChain(f)' : disk'[x].next \in 0 .. n - 1 => disk'[x].next \in DiskChain(f)'
  BY <1>1, <1>2, ReachedClosed
<1>4. ASSUME NEW x \in T, disk[x].next \in 0 .. n - 1 PROVE disk[x].next \in T
  <2>1. CASE x = 0
    <3>1. disk[x].next = n
      BY <2>1 DEF ShapeInv, LinkInv, HeaderPage
    <3>2. QED
      BY <1>1, <1>4, <3>1
  <2>2. CASE x # 0
    <3>1. x \in DiskChain(f)' /\ x \in 1 .. n - 1
      BY <1>1, <1>3, <2>2
    <3>2. disk[x].next \in {pages[x].next, kInvalidPageId, 0} /\ disk'[x] \in {disk[x], pages[x]}
      BY <3>1, Zenon DEF ShapeInv, LinkInv
    <3>3. disk[x].next # kInvalidPageId
      BY <1>1, <1>4 DEF kInvalidPageId
    <3>4. QED
      BY <1>3, <1>4, <3>1, <3>2, <3>3, Zenon
  <2>3. QED
    BY <2>1, <2>2, Zenon
<1>5. a \in 0 .. n - 1 => a \in T
  BY <1>3, Zenon
<1> HIDE DEF T, a, n
<1>6. Reached(disk, a, n) \subseteq T
  BY <1>1, <1>4, <1>5, ReachedLeast, Zenon
<1>7. QED
  BY <1>2, <1>6, Zenon DEF T

\* The pool writes a page back.
LEMMA WriteBackKeeps ==
  ASSUME StoreInv, HeapInv', NEW p \in PageIds, Evict(p), p # 0
  PROVE  StoreInv'
<1>1. /\ disk' = [disk EXCEPT ![p] = pages[p]] /\ p \in 0 .. page_count - 1
      /\ UNCHANGED <<pages, page_count, first_page_id, last_insert_page_id, op, rows, safe>>
  BY Zenon DEF Evict, Fetchable
<1>2. /\ disk \in [PageIds -> PageType] /\ page_count \in Nat /\ page_count >= 1
      /\ 0 .. page_count - 1 \subseteq PageIds /\ ShapeInv
      /\ \A f \in Files : Chain(f) \subseteq 0 .. page_count - 1
      /\ LiveSlots(pages[0]) = {}
  BY ShapeFacts, Zenon DEF StoreInv
<1>3. /\ disk'[0] = disk[0] /\ disk'[p] = pages[p]
      /\ \A x \in 1 .. page_count - 1 : x # p => disk'[x] = disk[x]
  BY <1>1, <1>2
<1>4. \A f \in Files : Chain(f)' = Chain(f) /\ Scan(f)' = Scan(f)
  BY <1>1 DEF Chain, Scan
<1>5. LinkInv'
  <2>1. LinkInv
    BY <1>2, Zenon DEF ShapeInv
  <2>2. \A x \in 1 .. page_count - 1 :
           /\ pages'[x].next \in Links(page_count)
           /\ disk'[x].next \in {pages'[x].next, kInvalidPageId, 0}
    BY <1>1, <1>3, <2>1, Zenon DEF LinkInv
  <2>3. QED
    BY <1>1, <1>3, <2>1, <2>2, Zenon DEF LinkInv
<1>6. ChainInv'
  BY <1>1, <1>4 DEF StoreInv, ShapeInv, ChainInv, OnlyFile
<1>7. OpInv'
  BY <1>1, Zenon DEF StoreInv, ShapeInv, OpInv, Chain
<1>8. RowsInv'
  BY <1>1, <1>4, Zenon DEF StoreInv, RowsInv
<1>9. SafeInv'
  <2>1. ASSUME NEW f \in Files, NEW rid \in DOMAIN safe[f]
        PROVE  /\ rid = <<rid[1], rid[2]>>
               /\ rid[1] \in Chain(f)' /\ rid[1] \in DiskChain(f)'
               /\ Holds(pages'[rid[1]], rid[2], safe[f][rid])
               /\ Holds(disk'[rid[1]], rid[2], safe[f][rid])
    <3>1. /\ rid = <<rid[1], rid[2]>>
          /\ rid[1] \in Chain(f) /\ rid[1] \in DiskChain(f)
          /\ Holds(pages[rid[1]], rid[2], safe[f][rid])
          /\ Holds(disk[rid[1]], rid[2], safe[f][rid])
      BY Zenon DEF StoreInv, SafeInv
    <3>2. rid[1] \in 1 .. page_count - 1
      BY <1>2, <3>1 DEF Holds
    <3>3. DiskChain(f) \subseteq DiskChain(f)' \cup {0}
      BY <1>1, <1>2, <1>3, WrittenChain, Zenon
    <3>4. rid[1] # 0
      BY <3>2
    <3>5. QED
      BY <1>1, <1>3, <1>4, <3>1, <3>2, <3>3, <3>4, Zenon
  <2>2. /\ safe = [g \in Files |-> safe[g]]
        /\ \A g \in Files : safe[g] = [rid \in DOMAIN safe[g] |-> safe[g][rid]]
    BY Zenon DEF StoreInv, SafeInv
  <2>3. QED
    BY <1>1, <2>1, <2>2 DEF SafeInv, Holds
<1>10. QED
  BY <1>5, <1>6, <1>7, <1>8, <1>9, Zenon DEF StoreInv, ShapeInv

\* The pool drops the header page and reads it again.
LEMMA RereadKeeps ==
  ASSUME StoreInv, HeapInv', Evict(0)
  PROVE  StoreInv'
<1>1. /\ pages' = [pages EXCEPT ![0] = disk[0]]
      /\ UNCHANGED <<disk, page_count, first_page_id, last_insert_page_id, op, rows, safe>>
  BY Zenon DEF Evict
<1>2. /\ pages \in [PageIds -> PageType] /\ page_count \in Nat /\ page_count >= 1
      /\ 0 .. page_count - 1 \subseteq PageIds /\ ShapeInv
      /\ \A f \in Files : Chain(f) \subseteq 0 .. page_count - 1
      /\ LiveSlots(pages[0]) = {} /\ LiveSlots(disk[0]) = {}
  BY ShapeFacts, Zenon DEF StoreInv
<1>3. /\ pages'[0] = disk[0] /\ 0 \in 0 .. page_count - 1
      /\ \A x \in 0 .. page_count - 1 : x # 0 => pages'[x] = pages[x]
  BY <1>1, <1>2
<1>4. disk[0] = HeaderPage(page_count) /\ disk[0].next = page_count
  BY <1>2 DEF ShapeInv, LinkInv, HeaderPage
<1>5. ASSUME NEW f \in Files, NEW x \in Chain(f) PROVE pages'[x].next = pages[x].next
  <2>1. 0 \in Chain(f) => pages[0].next = page_count
    BY <1>2, Zenon DEF ShapeInv, ChainInv
  <2>2. QED
    BY <1>2, <1>3, <1>4, <2>1, Zenon
<1>6. ASSUME NEW f \in Files PROVE Chain(f)' = Chain(f)
  <2>1. Reached(pages', first_page_id[f], page_count) = Reached(pages, first_page_id[f], page_count)
    BY <1>2, <1>5, ReachedSame DEF Chain
  <2>2. QED
    BY <1>1, <2>1, Zenon DEF Chain
<1>7. \A x \in 0 .. page_count - 1 : SameRecords(pages[x], pages'[x])
  BY <1>2, <1>3, Zenon DEF SameRecords
<1>8. LinkInv'
  <2>1. LinkInv
    BY <1>2, Zenon DEF ShapeInv
  <2>2. \A x \in 1 .. page_count - 1 : pages'[x] = pages[x]
    BY <1>2, <1>3
  <2>3. pages'[0].slots = <<>> /\ pages'[0].free = 0
    BY <1>3, <1>4 DEF HeaderPage
  <2>4. QED
    BY <1>1, <2>1, <2>2, <2>3, Zenon DEF LinkInv
<1>9. ChainInv'
  BY <1>1, <1>2, <1>3, <1>4, <1>6 DEF ShapeInv, ChainInv, OnlyFile
<1>10. OpInv'
  <2>1. CASE op = NoOp
    BY <1>1, <2>1, Zenon DEF OpInv
  <2>2. CASE op # NoOp
    <3>1. PICK f \in Files : f = op.file
      BY <1>2, <2>2, OnChain, Zenon
    <3>2. /\ first_page_id[f] # kInvalidPageId
          /\ IF op.prev = kInvalidPageId
             THEN op.current \in Chain(f)
             ELSE op.prev \in Chain(f) /\ op.current = pages[op.prev].next
      BY <1>2, <2>2, <3>1, Zenon DEF ShapeInv, OpInv
    <3>3. op'.file = f /\ Chain(f)' = Reached(pages', first_page_id'[f], page_count')
      BY <1>1, <3>1, Zenon DEF Chain
    <3>4. /\ first_page_id'[f] # kInvalidPageId
          /\ IF op'.prev = kInvalidPageId
             THEN op'.current \in Chain(f)'
             ELSE op'.prev \in Chain(f)' /\ op'.current = pages'[op'.prev].next
      BY <1>1, <1>5, <1>6, <3>2, Zenon
    <3>5. QED
      BY <3>3, <3>4, Zenon DEF OpInv, Chain
  <2>3. QED
    BY <2>1, <2>2, Zenon
<1>11. RowsInv'
  <2>1. /\ rows = [f \in Files |-> rows[f]]
        /\ \A f \in Files : rows[f] = ScanOf(pages, Chain(f))
    BY RowsAreScans, Zenon DEF StoreInv
  <2>2. ASSUME NEW f \in Files PROVE rows'[f] = ScanOf(pages', Chain(f)')
    <3>1. ScanOf(pages', Chain(f)) = ScanOf(pages, Chain(f))
      BY <1>2, <1>7, ScanSame, Zenon
    <3>2. QED
      BY <1>1, <1>6, <2>1, <3>1, Zenon
  <2>3. QED
    BY <1>1, <2>1, <2>2, ScansAreRows, Zenon
<1>12. SafeInv'
  <2>1. \A f \in Files : DiskChain(f)' = DiskChain(f)
    BY <1>1, Zenon DEF DiskChain
  <2>2. ASSUME NEW f \in Files, NEW rid \in DOMAIN safe[f]
        PROVE  /\ rid = <<rid[1], rid[2]>>
               /\ rid[1] \in Chain(f)' /\ rid[1] \in DiskChain(f)'
               /\ Holds(pages'[rid[1]], rid[2], safe[f][rid])
               /\ Holds(disk[rid[1]], rid[2], safe[f][rid])
    <3>1. /\ rid = <<rid[1], rid[2]>>
          /\ rid[1] \in Chain(f) /\ rid[1] \in DiskChain(f)
          /\ Holds(pages[rid[1]], rid[2], safe[f][rid])
          /\ Holds(disk[rid[1]], rid[2], safe[f][rid])
      BY Zenon DEF StoreInv, SafeInv
    <3>2. SameRecords(pages[rid[1]], pages'[rid[1]])
      BY <1>2, <1>7, <3>1, Zenon
    <3>3. QED
      BY <1>6, <2>1, <3>1, <3>2, Zenon DEF Holds, SameRecords
  <2>3. /\ safe = [g \in Files |-> safe[g]]
        /\ \A g \in Files : safe[g] = [rid \in DOMAIN safe[g] |-> safe[g][rid]]
    BY Zenon DEF StoreInv, SafeInv
  <2>4. QED
    BY <1>1, <2>2, <2>3 DEF SafeInv, Holds
<1>13. QED
  BY <1>8, <1>9, <1>10, <1>11, <1>12, Zenon DEF StoreInv, ShapeInv

\* After FlushAll the records that a scan shows are on disk, on the chain.
LEMMA FlushKeeps ==
  ASSUME StoreInv, HeapInv', FlushAll
  PROVE  StoreInv' /\ safe' = rows
<1>1. /\ op = NoOp /\ disk' = [pages EXCEPT ![0] = disk[0]]
      /\ safe' = [f \in Files |-> Scan(f)]
      /\ UNCHANGED <<pages, page_count, first_page_id, last_insert_page_id, op, rows>>
  BY Zenon DEF FlushAll
<1>2. /\ pages \in [PageIds -> PageType] /\ page_count \in Nat /\ page_count >= 1
      /\ 0 .. page_count - 1 \subseteq PageIds /\ ShapeInv
      /\ \A f \in Files : Chain(f) \subseteq 0 .. page_count - 1
      /\ LiveSlots(pages[0]) = {}
  BY ShapeFacts, Zenon DEF StoreInv
<1>3. disk'[0] = disk[0] /\ \A x \in 1 .. page_count - 1 : disk'[x] = pages[x]
  BY <1>1, <1>2
<1>4. \A f \in Files : Chain(f)' = Chain(f) /\ Scan(f)' = Scan(f)
  BY <1>1 DEF Chain, Scan
<1>5. LinkInv'
  <2>1. LinkInv
    BY <1>2, Zenon DEF ShapeInv
  <2>2. QED
    BY <1>1, <1>3, <2>1, Zenon DEF LinkInv
<1>6. ChainInv'
  BY <1>1, <1>4 DEF StoreInv, ShapeInv, ChainInv, OnlyFile
<1>7. OpInv'
  BY <1>1, Zenon DEF OpInv
<1>8. RowsInv' /\ safe' = rows
  BY <1>1, <1>4, Zenon DEF StoreInv, RowsInv
<1>9. ASSUME NEW f \in Files PROVE Chain(f) \subseteq DiskChain(f)' \cup {0}
  <2> DEFINE a == first_page_id[f]
             n == page_count
             D == DiskChain(f)'
             C == Chain(f)
             T == (D \cup {0}) \cap C
  <2>1. D = Reached(disk', a, n) /\ C = Reached(pages, a, n)
    BY <1>1, Zenon DEF DiskChain, Chain
  <2>2. /\ a \in 0 .. n - 1 => a \in D
        /\ \A x \in D : disk'[x].next \in 0 .. n - 1 => disk'[x].next \in D
        /\ a \in 0 .. n - 1 => a \in C
        /\ \A x \in C : pages[x].next \in 0 .. n - 1 => pages[x].next \in C
        /\ C \subseteq 0 .. n - 1
    BY <1>2, <2>1, ReachedClosed
  <2>3. ASSUME NEW x \in T, pages[x].next \in 0 .. n - 1 PROVE pages[x].next \in T
    <3>1. CASE x = 0
      <4>1. pages[0].next = n
        BY <1>2, <3>1, Zenon DEF ShapeInv, ChainInv
      <4>2. QED
        BY <1>2, <2>3, <3>1, <4>1
    <3>2. CASE x # 0
      <4>1. x \in D /\ x \in C /\ x \in 1 .. n - 1
        BY <1>2, <2>2, <3>2
      <4>2. disk'[x] = pages[x]
        BY <1>3, <4>1, Zenon
      <4>3. QED
        BY <2>2, <2>3, <4>1, <4>2, Zenon
    <3>3. QED
      BY <3>1, <3>2, Zenon
  <2>4. a \in 0 .. n - 1 => a \in T
    BY <2>2, Zenon
  <2>5. n \in Nat
    BY <1>2, Zenon
  <2> HIDE DEF T, a, n, C, D
  <2>6. Reached(pages, a, n) \subseteq T
    BY <2>3, <2>4, <2>5, ReachedLeast, Zenon
  <2>7. C \subseteq D \cup {0}
    BY <2>1, <2>6, Zenon DEF T
  <2>8. QED
    BY <2>7, Zenon DEF C, D
<1>10. SafeInv'
  <2>1. \A f \in Files : safe'[f] = ScanOf(pages, Chain(f))
    BY <1>1, Zenon DEF Scan, ScanOf
  <2>2. \A f \in Files : safe'[f] = [rid \in DOMAIN safe'[f] |-> safe'[f][rid]]
    BY <2>1, ScanOfFacts
  <2>3. safe' = [f \in Files |-> safe'[f]]
    BY <1>1, Zenon
  <2>4. ASSUME NEW f \in Files, NEW rid \in DOMAIN safe'[f]
        PROVE  /\ rid = <<rid[1], rid[2]>>
               /\ rid[1] \in Chain(f)' /\ rid[1] \in DiskChain(f)'
               /\ Holds(pages'[rid[1]], rid[2], safe'[f][rid])
               /\ Holds(disk'[rid[1]], rid[2], safe'[f][rid])
    <3>1. /\ rid = <<rid[1], rid[2]>> /\ rid[1] \in Chain(f)
          /\ rid[2] \in LiveSlots(pages[rid[1]])
          /\ safe'[f][rid] = GetRecord(pages[rid[1]], rid[2])
      BY <2>1, ScanOfFacts
    <3>2. rid[1] \in 1 .. page_count - 1 /\ rid[1] # 0
      BY <1>2, <3>1
    <3>3. rid[1] \in DiskChain(f)'
      BY <1>9, <3>1, <3>2, Zenon
    <3>4. QED
      BY <1>1, <1>3, <1>4, <3>1, <3>2, <3>3, Zenon DEF Holds
  <2>5. QED
    BY <2>2, <2>3, <2>4, Zenon DEF SafeInv, Holds
<1>11. QED
  BY <1>5, <1>6, <1>7, <1>8, <1>10, Zenon DEF StoreInv, ShapeInv

OneFile == \A f, g \in Files : f = g

\* After a crash the pages are those on disk.  One heap file alone in its
\* data file has a chain that keeps what was flushed.
LEMMA CrashKeeps ==
  ASSUME StoreInv, HeapInv', Crash, OneFile
  PROVE  /\ StoreInv'
         /\ \A f \in Files : \A rid \in DOMAIN safe[f] :
              rid \in DOMAIN rows'[f] /\ rows'[f][rid] = safe[f][rid]
<1>1. /\ pages' = disk /\ last_insert_page_id' = first_page_id /\ op' = NoOp
      /\ UNCHANGED <<disk, page_count, first_page_id, safe>>
      /\ RowsInv'
  BY Zenon DEF Crash, RowsInv
<1>2. page_count \in Nat /\ page_count >= 1 /\ ShapeInv /\ LiveSlots(disk[0]) = {}
  BY ShapeFacts, Zenon DEF StoreInv
<1>3. \A f \in Files : Chain(f)' = DiskChain(f) /\ DiskChain(f)' = DiskChain(f)
  BY <1>1, Zenon DEF Chain, DiskChain
<1>4. LinkInv
  BY <1>2, Zenon DEF ShapeInv
<1>5. LinkInv'
  <2>1. \A x \in 1 .. page_count - 1 : disk[x].next \in Links(page_count)
    BY <1>2, <1>4 DEF LinkInv, Links
  <2>2. disk[0] = HeaderPage(page_count) /\ disk[0].slots = <<>> /\ disk[0].free = 0
    BY <1>4 DEF LinkInv, HeaderPage
  <2>3. QED
    BY <1>1, <2>1, <2>2, Zenon DEF LinkInv
<1>6. ChainInv'
  <2>1. ASSUME NEW f \in Files
        PROVE  /\ first_page_id[f] \in Links(page_count) \ {0}
               /\ first_page_id[f] # kInvalidPageId => first_page_id[f] \in DiskChain(f)
    <3>1. first_page_id[f] \in Links(page_count) \ {0}
      BY <1>2, Zenon DEF ShapeInv, ChainInv
    <3>2. first_page_id[f] # kInvalidPageId => first_page_id[f] \in 0 .. page_count - 1
      BY <3>1, Zenon DEF Links
    <3>3. QED
      BY <1>2, <3>1, <3>2, ReachedClosed, Zenon DEF DiskChain
  <2>2. disk[0].next = page_count
    BY <1>4 DEF LinkInv, HeaderPage
  <2>3. QED
    BY <1>1, <1>3, <2>1, <2>2, Zenon DEF ChainInv, OnlyFile, OneFile
<1>7. OpInv'
  BY <1>1, Zenon DEF OpInv
<1>8. ASSUME NEW f \in Files, NEW rid \in DOMAIN safe[f]
      PROVE  /\ rid = <<rid[1], rid[2]>> /\ rid[1] \in DiskChain(f)
             /\ Holds(disk[rid[1]], rid[2], safe[f][rid])
  BY Zenon DEF StoreInv, SafeInv
<1>9. SafeInv'
  <2>1. /\ safe = [g \in Files |-> safe[g]]
        /\ \A g \in Files : safe[g] = [rid \in DOMAIN safe[g] |-> safe[g][rid]]
    BY Zenon DEF StoreInv, SafeInv
  <2>2. QED
    BY <1>1, <1>3, <1>8, <2>1 DEF SafeInv, Holds
<1>10. ASSUME NEW f \in Files, NEW rid \in DOMAIN safe[f]
       PROVE  rid \in DOMAIN rows'[f] /\ rows'[f][rid] = safe[f][rid]
  <2>1. rows'[f] = ScanOf(disk, DiskChain(f))
    <3>1. rows' = [g \in Files |-> Scan(g)']
      BY <1>1, Zenon DEF RowsInv
    <3>2. rows'[f] = Scan(f)'
      BY <3>1, Zenon
    <3>3. Scan(f)' = ScanOf(pages', Chain(f)')
      BY Zenon DEF Scan, ScanOf
    <3>4. QED
      BY <1>1, <1>3, <3>2, <3>3, Zenon
  <2>2. rid \in DOMAIN ScanOf(disk, DiskChain(f))
    BY <1>8, ScanOfFacts, Zenon DEF Holds
  <2>3. QED
    BY <1>8, <2>1, <2>2, ScanOfFacts DEF Holds
<1>11. QED
  BY <1>1, <1>5, <1>6, <1>7, <1>9, <1>10, Zenon DEF StoreInv, ShapeInv

-----------------------------------------------------------------------------
(* Each step of a heap file is a step of the record store, or none. *)

Call == IF op = NoOp THEN <<>> ELSE <<op.file, op.rec>>

StoreStep == [Store!Next]_<<rows, safe, Call>>

\* The store waits for a call exactly when the heap file does.
LEMMA CallFacts ==
  /\ Store!Idle <=> op = NoOp
  /\ Store!Idle' <=> op' = NoOp
  /\ op # NoOp => Call = <<op.file, op.rec>>
  /\ op' # NoOp => Call' = <<op'.file, op'.rec>>
  /\ \A f, r : InsertCall(f, r) # NoOp
<1>1. \A a, b : <<a, b>> # <<>>
  BY Zenon
<1>2. ASSUME NEW f, NEW r PROVE InsertCall(f, r) # NoOp
  <2>1. "rec" \in DOMAIN InsertCall(f, r)
    BY Zenon DEF InsertCall
  <2>2. "rec" \notin DOMAIN NoOp
    BY Zenon DEF NoOp
  <2>3. QED
    BY <2>1, <2>2, Zenon
<1>3. QED
  BY <1>1, <1>2, Zenon DEF Store!Idle, Call

\* A call that ends with a record under a free id.
LEMMA InsertRefines ==
  ASSUME StoreInv, op # NoOp, op' = NoOp, NEW rid \in RecordIds,
         \A g \in Files : rid \notin DOMAIN rows[g],
         rows' = Remember(rows, op.file, rid, op.rec), safe' = safe
  PROVE  Store!Next
<1>1. Call = <<op.file, op.rec>> /\ ~Store!Idle /\ Store!Idle'
  BY CallFacts, Zenon
<1>2. Call[1] = op.file /\ Call[2] = op.rec
  BY <1>1, Zenon
<1>3. rows' = [rows EXCEPT ![op.file] = Store!With(@, rid, op.rec)]
  BY Zenon DEF Remember, Store!With
<1>4. Store!Insert(rid)
  BY <1>1, <1>2, <1>3, Zenon DEF Store!Insert, Call
<1>5. QED
  BY <1>4, Zenon DEF Store!Next

\* A call that ends with nothing done.
LEMMA FailRefines ==
  ASSUME op # NoOp, op' = NoOp, rows' = rows, safe' = safe
  PROVE  Store!Next
<1>1. ~Store!Idle /\ Store!Idle'
  BY CallFacts, Zenon
<1>2. Store!Fail
  BY <1>1, Zenon DEF Store!Fail
<1>3. QED
  BY <1>2, Zenon DEF Store!Next

\* A record that is deleted, for good or to be inserted elsewhere.
LEMMA RemoveRefines ==
  ASSUME StoreInv, op = NoOp, NEW f \in Files, NEW rid \in RecordIds, rid \in DOMAIN rows[f],
         op' = NoOp \/ \E r \in Records : op' = InsertCall(f, r),
         rows' = Forget(rows, rid), safe' = Forget(safe, rid),
         \A g \in Files \ {f} : rows'[g] = rows[g] /\ safe'[g] = safe[g]
  PROVE  Store!Next
<1>1. Store!Idle /\ (Store!Idle' \/ \E r \in Records : Call' = <<f, r>>)
  <2>1. CASE op' = NoOp
    BY <2>1, CallFacts, Zenon
  <2>2. CASE op' # NoOp
    <3>1. PICK r \in Records : op' = InsertCall(f, r)
      BY <2>2, Zenon
    <3>2. op'.file = f /\ op'.rec = r
      BY <3>1, Zenon DEF InsertCall
    <3>3. Call' = <<f, r>>
      BY <2>2, <3>2, CallFacts, Zenon
    <3>4. QED
      BY <3>3, CallFacts, Zenon
  <2>3. QED
    BY <2>1, <2>2, Zenon
<1>2. rows = [g \in Files |-> rows[g]] /\ safe = [g \in Files |-> safe[g]]
  BY RowsAreScans, Zenon DEF StoreInv, SafeInv
<1>3. /\ rows' = [g \in Files |-> rows'[g]] /\ rows'[f] = Store!Without(rows[f], rid)
      /\ safe' = [g \in Files |-> safe'[g]] /\ safe'[f] = Store!Without(safe[f], rid)
  <2>1. rows' = [g \in Files |-> rows'[g]] /\ rows'[f] = WithoutRecord(rows[f], rid)
    BY ForgetFacts
  <2>2. safe' = [g \in Files |-> safe'[g]] /\ safe'[f] = WithoutRecord(safe[f], rid)
    BY ForgetFacts
  <2>3. QED
    BY <2>1, <2>2, Zenon DEF Store!Without, WithoutRecord
<1>4. rows' = [rows EXCEPT ![f] = Store!Without(@, rid)]
  <2> DEFINE v == Store!Without(rows[f], rid)
  <2>1. rows'[f] = v
    BY <1>3, Zenon
  <2> HIDE DEF v
  <2>2. rows' = [rows EXCEPT ![f] = v]
    BY <1>2, <1>3, <2>1, Zenon
  <2>3. QED
    BY <2>2, Zenon DEF v
<1>5. safe' = [safe EXCEPT ![f] = Store!Without(@, rid)]
  <2> DEFINE v == Store!Without(safe[f], rid)
  <2>1. safe'[f] = v
    BY <1>3, Zenon
  <2> HIDE DEF v
  <2>2. safe' = [safe EXCEPT ![f] = v]
    BY <1>2, <1>3, <2>1, Zenon
  <2>3. QED
    BY <2>2, Zenon DEF v
<1>6. Store!Remove(f, rid)
  BY <1>1, <1>4, <1>5, Zenon DEF Store!Remove, Call
<1>7. QED
  BY <1>6, Zenon DEF Store!Next

\* A record that is overwritten in place.
LEMMA ReplaceRefines ==
  ASSUME StoreInv, op = NoOp, op' = NoOp, NEW f \in Files, NEW rid \in RecordIds,
         rid \in DOMAIN rows[f], NEW r \in Records,
         rows' = Remember(rows, f, rid, r), safe' = Forget(safe, rid),
         \A g \in Files \ {f} : safe'[g] = safe[g]
  PROVE  Store!Next
<1>1. Store!Idle /\ Store!Idle'
  BY CallFacts, Zenon
<1>2. safe = [g \in Files |-> safe[g]]
  BY Zenon DEF StoreInv, SafeInv
<1>3. safe' = [g \in Files |-> safe'[g]] /\ safe'[f] = Store!Without(safe[f], rid)
  BY ForgetFacts DEF Store!Without, WithoutRecord
<1>4. rows' = [rows EXCEPT ![f] = Store!With(@, rid, r)]
  BY Zenon DEF Remember, Store!With
<1>5. safe' = [safe EXCEPT ![f] = Store!Without(@, rid)]
  <2> DEFINE v == Store!Without(safe[f], rid)
  <2>1. safe'[f] = v
    BY <1>3, Zenon
  <2> HIDE DEF v
  <2>2. safe' = [safe EXCEPT ![f] = v]
    BY <1>2, <1>3, <2>1, Zenon
  <2>3. QED
    BY <2>2, Zenon DEF v
<1>6. Store!Replace(f, rid, r)
  BY <1>1, <1>4, <1>5, Zenon DEF Store!Replace
<1>7. QED
  BY <1>6, Zenon DEF Store!Next

\* The step of every action: the invariant, and what it is to the store.
LEMMA StoreKeeps ==
  ASSUME StoreInv, [Next]_heapVars, OneFile \/ ~Crash
  PROVE  StoreInv' /\ StoreStep
<1>1. HeapInv'
  BY HeapInvStep, Zenon DEF StoreInv, ShapeInv
<1>2. ASSUME op' = op, rows' = rows, safe' = safe PROVE StoreStep
  BY <1>2, Zenon DEF StoreStep, Call
<1>3. ASSUME NEW f \in Files, Create(f) PROVE StoreInv' /\ StoreStep
  <2>1. op' = op /\ rows' = rows /\ safe' = safe
    BY <1>3, Zenon DEF Create
  <2>2. QED
    BY <1>1, <1>2, <1>3, <2>1, CreateKeeps, Zenon
<1>4. ASSUME NEW f \in Files, NEW r \in Records, BeginInsert(f, r) PROVE StoreInv' /\ StoreStep
  <2>1. op = NoOp /\ op' = InsertCall(f, r) /\ rows' = rows /\ safe' = safe
    BY <1>4, Zenon DEF BeginInsert
  <2>2. op'.file = f /\ op'.rec = r
    BY <2>1, Zenon DEF InsertCall
  <2>3. Store!Idle /\ Call' = <<f, r>>
    BY <2>1, <2>2, CallFacts, Zenon
  <2>4. Store!Begin(f, r)
    BY <2>1, <2>3, Zenon DEF Store!Begin, Call
  <2>5. StoreStep
    BY <2>4, Zenon DEF StoreStep, Store!Next
  <2>6. QED
    BY <1>1, <1>4, <2>5, CallKeeps, Zenon
<1>5. CASE InsertHere
  <2>1. /\ op # NoOp /\ op' = NoOp /\ safe' = safe
        /\ rows' = Remember(rows, op.file, <<op.current, SlotForInsert(pages[op.current])>>, op.rec)
    BY <1>5, Zenon DEF InsertHere
  <2>2. /\ StoreInv'
        /\ <<op.current, SlotForInsert(pages[op.current])>> \in RecordIds
        /\ \A g \in Files : <<op.current, SlotForInsert(pages[op.current])>> \notin DOMAIN rows[g]
    BY <1>1, <1>5, InsertHereKeeps, Zenon
  <2> DEFINE rid == <<op.current, SlotForInsert(pages[op.current])>>
  <2> HIDE DEF rid
  <2>3. Store!Next
    BY <2>1, <2>2, InsertRefines, Zenon DEF rid
  <2>4. QED
    BY <2>2, <2>3, Zenon DEF StoreStep
<1>6. CASE InsertFurther
  <2>1. /\ op # NoOp /\ rows' = rows /\ safe' = safe
        /\ op' = [op EXCEPT !.prev = op.current, !.current = pages[op.current].next]
    BY <1>6, Zenon DEF InsertFurther
  <2>2. op \in [file : Files, rec : Records, current : -1 .. MaxPages, prev : -1 .. MaxPages]
    BY <2>1, Zenon DEF StoreInv, ShapeInv, HeapInv
  <2>3. op'.file = op.file /\ op'.rec = op.rec /\ DOMAIN op' = DOMAIN op
    BY <2>1, <2>2, Zenon
  <2>4. op' # NoOp
    <3>1. "rec" \in DOMAIN op'
      BY <2>2, <2>3, Zenon
    <3>2. "rec" \notin DOMAIN NoOp
      BY Zenon DEF NoOp
    <3>3. QED
      BY <3>1, <3>2, Zenon
  <2>5. Call' = Call
    BY <2>1, <2>3, <2>4 DEF Call
  <2>6. StoreStep
    BY <2>1, <2>5, Zenon DEF StoreStep
  <2>7. QED
    BY <1>1, <1>6, <2>6, CallKeeps, Zenon
<1>7. CASE InsertFails
  <2>1. op # NoOp /\ op' = NoOp /\ rows' = rows /\ safe' = safe
    BY <1>7, Zenon DEF InsertFails
  <2>2. StoreStep
    BY <2>1, FailRefines, Zenon DEF StoreStep
  <2>3. QED
    BY <1>1, <1>7, <2>2, CallKeeps, Zenon
<1>8. CASE InsertInNewPage
  <2>1. /\ op # NoOp /\ op' = NoOp /\ safe' = safe
        /\ rows' = IF Fits(InitPage, op.rec)
                   THEN Remember(rows, op.file, <<page_count, 1>>, op.rec)
                   ELSE rows
    BY <1>8, Zenon DEF InsertInNewPage
  <2>2. /\ StoreInv'
        /\ Fits(InitPage, op.rec) => <<page_count, 1>> \in RecordIds
        /\ \A g \in Files : <<page_count, 1>> \notin DOMAIN rows[g]
    BY <1>1, <1>8, NewPageKeeps, Zenon
  <2> DEFINE rid == <<page_count, 1>>
  <2> HIDE DEF rid
  <2>3. Store!Next
    <3>1. CASE Fits(InitPage, op.rec)
      BY <2>1, <2>2, <3>1, InsertRefines, Zenon DEF rid
    <3>2. CASE ~Fits(InitPage, op.rec)
      BY <2>1, <3>2, FailRefines, Zenon
    <3>3. QED
      BY <3>1, <3>2, Zenon
  <2>4. QED
    BY <2>2, <2>3, Zenon DEF StoreStep
<1>9. ASSUME NEW f \in Files, NEW rid \in DOMAIN rows[f], Delete(f, rid)
      PROVE  StoreInv' /\ StoreStep
  <2>1. /\ op = NoOp /\ op' = NoOp
        /\ pages' = [pages EXCEPT ![rid[1]] = DeleteRecord(@, rid[2])]
        /\ safe' = Forget(safe, rid) /\ rows' = Forget(rows, rid)
        /\ UNCHANGED <<disk, page_count, first_page_id, last_insert_page_id>>
    BY <1>9, Zenon DEF Delete
  <2>2. /\ StoreInv' /\ rid \in RecordIds
        /\ \A g \in Files \ {f} : rows'[g] = rows[g] /\ safe'[g] = safe[g]
    BY <1>1, <2>1, DropKeeps, Zenon
  <2>3. Store!Next
    BY <2>1, <2>2, RemoveRefines, Zenon
  <2>4. QED
    BY <2>2, <2>3, Zenon DEF StoreStep
<1>10. ASSUME NEW f \in Files, NEW rid \in DOMAIN rows[f], NEW r \in Records, Update(f, rid, r)
       PROVE  StoreInv' /\ StoreStep
  <2>1. /\ op = NoOp /\ safe' = Forget(safe, rid)
        /\ UNCHANGED <<disk, page_count, first_page_id, last_insert_page_id>>
    BY <1>10, Zenon DEF Update
  <2>2. CASE UpdatesInPlace(pages[rid[1]], rid[2], r)
    <3>1. /\ pages' = [pages EXCEPT ![rid[1]] = UpdateRecordInPlace(@, rid[2], r)]
          /\ op' = NoOp /\ rows' = Remember(rows, f, rid, r)
      BY <1>10, <2>2, Zenon DEF Update
    <3>2. /\ StoreInv' /\ rid \in RecordIds
          /\ \A g \in Files \ {f} : safe'[g] = safe[g]
      BY <1>1, <2>1, <2>2, <3>1, ReplaceKeeps, Zenon
    <3>3. Store!Next
      BY <2>1, <3>1, <3>2, ReplaceRefines, Zenon
    <3>4. QED
      BY <3>2, <3>3, Zenon DEF StoreStep
  <2>3. CASE ~UpdatesInPlace(pages[rid[1]], rid[2], r)
    <3>1. /\ pages' = [pages EXCEPT ![rid[1]] = DeleteRecord(@, rid[2])]
          /\ op' = InsertCall(f, r) /\ rows' = Forget(rows, rid)
      BY <1>10, <2>3, Zenon DEF Update
    <3>2. /\ StoreInv' /\ rid \in RecordIds
          /\ \A g \in Files \ {f} : rows'[g] = rows[g] /\ safe'[g] = safe[g]
      BY <1>1, <2>1, <3>1, DropKeeps, Zenon
    <3>3. Store!Next
      BY <2>1, <3>1, <3>2, RemoveRefines, Zenon
    <3>4. QED
      BY <3>2, <3>3, Zenon DEF StoreStep
  <2>4. QED
    BY <2>2, <2>3, Zenon
<1>11. ASSUME NEW p \in PageIds, Evict(p) PROVE StoreInv' /\ StoreStep
  <2>1. op' = op /\ rows' = rows /\ safe' = safe
    BY <1>11, Zenon DEF Evict
  <2>2. StoreInv'
    BY <1>1, <1>11, WriteBackKeeps, RereadKeeps, Zenon
  <2>3. QED
    BY <1>2, <2>1, <2>2, Zenon
<1>12. CASE FlushAll
  <2>1. op = NoOp /\ op' = NoOp /\ rows' = rows
    BY <1>12, Zenon DEF FlushAll
  <2>2. StoreInv' /\ safe' = rows
    BY <1>1, <1>12, FlushKeeps, Zenon
  <2>3. Store!Persist
    BY <2>1, <2>2, CallFacts, Zenon DEF Store!Persist
  <2>4. QED
    BY <2>2, <2>3, Zenon DEF StoreStep, Store!Next
<1>13. CASE Crash
  <2>1. op' = NoOp /\ safe' = safe /\ OneFile
    BY <1>13, Zenon DEF Crash
  <2>2. /\ StoreInv'
        /\ \A f \in Files : \A rid \in DOMAIN safe[f] :
             rid \in DOMAIN rows'[f] /\ rows'[f][rid] = safe[f][rid]
    BY <1>1, <1>13, <2>1, CrashKeeps, Zenon
  <2>3. rows' = [f \in Files |-> rows'[f]]
    BY <2>2, RowsAreScans, Zenon DEF StoreInv, RowsInv
  <2>4. Store!Restart
    BY <2>1, <2>2, <2>3, CallFacts, Zenon DEF Store!Restart
  <2>5. QED
    BY <2>2, <2>4, Zenon DEF StoreStep, Store!Next
<1>14. CASE UNCHANGED heapVars
  <2>1. /\ op' = op /\ rows' = rows /\ safe' = safe
        /\ UNCHANGED <<pages, disk, page_count, first_page_id, last_insert_page_id, rows, safe>>
    BY <1>14, Zenon DEF heapVars
  <2>2. OpInv'
    BY <2>1, Zenon DEF StoreInv, ShapeInv, OpInv, Chain
  <2>3. QED
    BY <1>1, <1>2, <2>1, <2>2, MoveKeeps, Zenon
<1>15. QED
  BY <1>3, <1>4, <1>5, <1>6, <1>7, <1>8, <1>9, <1>10, <1>11, <1>12, <1>13, <1>14, Zenon DEF Next

\* The store begins as the heap files do.
LEMMA StoreBegins == Init => Store!Init
BY Zenon DEF Init, Store!Init, Store!Idle

\* Between calls and during them the scans show the rows.
LEMMA StoreShows == StoreInv => ScanShowsRows
<1> SUFFICES ASSUME StoreInv PROVE \A f \in Files : Scan(f) = rows[f]
  BY Zenon DEF ScanShowsRows
<1>1. \A f \in Files : rows[f] = ScanOf(pages, Chain(f))
  BY RowsAreScans, Zenon DEF StoreInv
<1>2. QED
  BY <1>1, Zenon DEF Scan, ScanOf

\* Any number of heap files in one data file, while the process lives.
UndisturbedSpec == Init /\ [][Next /\ ~Crash]_heapVars

\* The step of every action but a crash.
LEMMA UndisturbedKeeps == StoreInv /\ [Next /\ ~Crash]_heapVars => StoreInv' /\ StoreStep
<1> SUFFICES ASSUME StoreInv, [Next /\ ~Crash]_heapVars PROVE StoreInv' /\ StoreStep
  BY Zenon
<1>1. CASE Next /\ ~Crash
  BY <1>1, StoreKeeps, Zenon
<1>2. CASE UNCHANGED heapVars
  <2>1. HeapInv'
    BY <1>2, HeapInvStep, Zenon DEF StoreInv, ShapeInv
  <2>2. OpInv' /\ UNCHANGED <<pages, disk, page_count, first_page_id, last_insert_page_id, rows, safe>>
    BY <1>2, Zenon DEF StoreInv, ShapeInv, OpInv, Chain, heapVars
  <2>3. StoreStep
    BY <1>2, Zenon DEF heapVars, StoreStep, Call
  <2>4. QED
    BY <2>1, <2>2, <2>3, MoveKeeps, Zenon
<1>3. QED
  BY <1>1, <1>2, Zenon

-----------------------------------------------------------------------------
\* A scan shows exactly the records that callers hold ids for: with one heap
\* file in its data file, for every page size, set of records and number of
\* pages, in every order of calls, evictions, flushes and crashes
\* (heap_file.cpp:33-135).
THEOREM ScansShowRows ==
  ASSUME OneFile
  PROVE  HeapSpec => []ScanShowsRows
<1>1. StoreInv /\ [Next]_heapVars => StoreInv'
  BY StoreKeeps, Zenon
<1>2. QED
  BY <1>1, StoreInit, StoreShows, PTL DEF HeapSpec

\* The same with any number of heap files in the data file, as the tables and
\* the catalog have it, as long as the process does not die.
THEOREM ScansShowRowsOfAll == UndisturbedSpec => []ScanShowsRows
<1>1. StoreInv /\ [Next /\ ~Crash]_heapVars => StoreInv'
  BY UndisturbedKeeps, Zenon
<1>2. QED
  BY <1>1, StoreInit, StoreShows, PTL DEF UndisturbedSpec

\* One heap file is a map from record ids to records: a call takes effect on
\* its own record at once or not at all, ids are given only when free, and a
\* crash, between any two page writes, loses nothing that was flushed and not
\* changed since (heap_file.cpp:33-135, slotted_page.hpp:76-140).
THEOREM HeapFileImplementsStore ==
  ASSUME OneFile
  PROVE  HeapSpec => ImplementsRecordStore
<1>1. StoreInv /\ [Next]_heapVars => StoreInv' /\ StoreStep
  BY StoreKeeps, Zenon
<1>2. QED
  BY <1>1, StoreInit, StoreBegins, PTL
  DEF HeapSpec, ImplementsRecordStore, Store!Spec, StoreStep, Call

\* Any number of heap files in a data file are as many such maps, as long as
\* the process does not die: no call of one reaches a record of another.
THEOREM HeapFilesImplementStore == UndisturbedSpec => ImplementsRecordStore
<1>1. StoreInv /\ [Next /\ ~Crash]_heapVars => StoreInv' /\ StoreStep
  BY UndisturbedKeeps, Zenon
<1>2. QED
  BY <1>1, StoreInit, StoreBegins, PTL
  DEF UndisturbedSpec, ImplementsRecordStore, Store!Spec, StoreStep, Call
=============================================================================
