--------------------------- MODULE HeapFileProofs ----------------------------
(***************************************************************************)
(* Slotted pages keep their directory and their records apart, for every   *)
(* page size, every set of record lengths and any number of pages.         *)
(*                                                                         *)
(* What follows the two theorems prepares HeapFileRefinement: the chain of *)
(* a heap file as the least set closed under next pages, what a changed    *)
(* page does to it and to a scan, and the invariant of the chains.         *)
(***************************************************************************)
EXTENDS HeapFile, WellFoundedInduction, TLAPS

PageType == [next : -1 .. MaxPages, slots : Seq(Slot), free : 0 .. PageSize]

\* Every slot was made for a record of at least a byte, and the bytes of a
\* deleted record are not given back.
Compact(pg) == pg.free + Len(pg.slots) <= PageSize

GoodPage(pg) == pg \in PageType /\ PageSound(pg) /\ Compact(pg)

-----------------------------------------------------------------------------
\* A set of numbers that is not empty has a least one: the slot that the search
\* for a tombstone stops at.
LEMMA LeastExists ==
  ASSUME NEW T, T \subseteq Nat, T # {}
  PROVE  \E s \in T : \A t \in T : s <= t
<1>1. PICK x \in T : \A y \in T : ~(<<y, x>> \in OpToRel(<, Nat))
  BY NatLessThanWellFounded, WFMin, Zenon
<1>2. \A y \in T : ~(y < x)
  BY <1>1, Zenon DEF OpToRel
<1>3. QED
  BY <1>2

\* A directory in which one slot is overwritten.
LEMMA ExceptSlot ==
  ASSUME NEW q \in Seq(Slot), NEW i \in 1 .. Len(q), NEW e \in Slot
  PROVE  [q EXCEPT ![i] = e] \in Seq(Slot) /\ Len([q EXCEPT ![i] = e]) = Len(q)
OBVIOUS

\* What the search for a slot returns: a deleted slot, or one more slot.
LEMMA SlotForInsertSpec ==
  ASSUME NEW pg, pg \in PageType
  PROVE  IF Tombstones(pg) = {} THEN SlotForInsert(pg) = Len(pg.slots) + 1
                                ELSE SlotForInsert(pg) \in Tombstones(pg)
<1>1. CASE Tombstones(pg) = {}
  BY <1>1, Zenon DEF SlotForInsert
<1>2. CASE Tombstones(pg) # {}
  <2>1. Tombstones(pg) \subseteq Nat
    BY DEF Tombstones, PageType
  <2>2. \E s \in Tombstones(pg) : \A t \in Tombstones(pg) : s <= t
    BY <1>2, <2>1, LeastExists, Zenon
  <2>3. QED
    BY <1>2, <2>2, Zenon DEF SlotForInsert
<1>3. QED
  BY <1>1, <1>2, Zenon

-----------------------------------------------------------------------------
(* What the operations of a slotted page preserve. *)

\* Page size and record lengths fit 16 bits.
LEMMA PageSizeNat ==
  /\ kMaxUint16 \in Nat /\ PageSize \in Nat /\ PageSize >= 12
  /\ \A r \in Records : r.len \in Nat /\ r.len \in 1 .. kMaxUint16
<1>1. kMaxUint16 \in Nat
  BY DEF kMaxUint16
<1>2. PageSize \in 12 .. kMaxUint16 /\ Lengths \subseteq 1 .. kMaxUint16
  BY PageAssumption, Zenon DEF kHeaderSize
<1>3. \A r \in Records : r.len \in Lengths
  BY Zenon DEF Records
<1>4. \A n \in 1 .. kMaxUint16 : n \in Nat
  BY <1>1
<1>5. PageSize \in Nat /\ PageSize >= 12
  BY <1>1, <1>2
<1>6. QED
  BY <1>1, <1>2, <1>3, <1>4, <1>5, Zenon

\* A page without slots is good: the header of the file, and a page of zeros.
LEMMA EmptyPagesGood ==
  ASSUME NEW n \in -1 .. MaxPages
  PROVE  GoodPage([next |-> n, slots |-> <<>>, free |-> 0])
<1>1. [next |-> n, slots |-> <<>>, free |-> 0] \in PageType
  BY PageSizeNat DEF PageType
<1>2. QED
  BY <1>1, PageSizeNat DEF GoodPage, PageSound, LiveSlots, Compact

\* A page is good once SlottedPage::Init has run on it.
LEMMA InitPageGood == GoodPage(InitPage)
<1>1. InitPage \in PageType
  BY PageSizeNat, FileAssumption DEF PageType, InitPage, kInvalidPageId
<1>2. QED
  BY <1>1, PageSizeNat DEF GoodPage, PageSound, LiveSlots, InitPage, Compact

\* SetNextPageId keeps a page good.
LEMMA LinkGood ==
  ASSUME NEW pg, GoodPage(pg), NEW p \in -1 .. MaxPages
  PROVE  GoodPage(SetNextPageId(pg, p))
<1> DEFINE q == SetNextPageId(pg, p)
<1>1. q \in PageType /\ q.slots = pg.slots /\ q.free = pg.free
  BY Zenon DEF GoodPage, PageType, SetNextPageId
<1>2. LiveSlots(q) = LiveSlots(pg) /\ DirectoryEnd(q) = DirectoryEnd(pg)
  BY <1>1, Zenon DEF LiveSlots, IsTombstoned, DirectoryEnd
<1> HIDE DEF q
<1>3. GoodPage(q)
  BY <1>1, <1>2, Zenon DEF GoodPage, PageSound, Compact
<1>4. QED
  BY <1>3, Zenon DEF q

\* A record goes right below the lowest one, into a slot that holds no record,
\* and the other slots stay as they are.
LEMMA InsertSlots ==
  ASSUME NEW pg, GoodPage(pg), NEW r \in Records, Fits(pg, r)
  PROVE  LET q == InsertRecord(pg, r)
             s == SlotForInsert(pg)
             top == pg.free - r.len
             new == [offset |-> top, length |-> r.len, rec |-> r]
         IN  /\ IF Tombstones(pg) = {} THEN s = Len(pg.slots) + 1 ELSE s \in Tombstones(pg)
             /\ s \in DOMAIN q.slots
             /\ new \in Slot /\ top \in 0 .. PageSize
             /\ q.free = top /\ q.next = pg.next
             /\ q.slots \in Seq(Slot)
             /\ Len(q.slots) = IF Tombstones(pg) = {} THEN Len(pg.slots) + 1 ELSE Len(pg.slots)
             /\ q.slots[s] = new
             /\ \A t \in DOMAIN q.slots \ {s} : t \in DOMAIN pg.slots /\ q.slots[t] = pg.slots[t]
             /\ \A t \in DOMAIN pg.slots \ {s} : t \in DOMAIN q.slots
<1> DEFINE q == InsertRecord(pg, r)
           s == SlotForInsert(pg)
           top == pg.free - r.len
           new == [offset |-> top, length |-> r.len, rec |-> r]
<1>1. /\ pg \in PageType /\ pg.slots \in Seq(Slot) /\ Len(pg.slots) \in Nat
      /\ pg.free \in 0 .. PageSize /\ PageSize \in Nat
  BY PageSizeNat DEF GoodPage, PageType
<1>2. r.len \in 1 .. kMaxUint16 /\ r.len \in Nat
  BY PageSizeNat, Zenon
<1>3. top \in 0 .. PageSize
  <2>1. DirectoryEnd(pg) \in Nat
    BY <1>1 DEF DirectoryEnd, kHeaderSize, kSlotSize
  <2>2. pg.free >= DirectoryEnd(pg) + (IF Tombstones(pg) = {} THEN 4 ELSE 0) + r.len
    BY Zenon DEF Fits, kSlotSize
  <2>3. QED
    BY <1>1, <1>2, <2>1, <2>2
<1>4. new \in Slot
  BY <1>1, <1>2, <1>3 DEF Slot
<1>5. IF Tombstones(pg) = {} THEN s = Len(pg.slots) + 1 ELSE s \in Tombstones(pg)
  BY <1>1, SlotForInsertSpec, Zenon
<1>6. /\ q.slots = WithSlot(pg.slots, s, new)
      /\ q.free = top
      /\ q.next = pg.next
  BY <1>1, Zenon DEF InsertRecord, PageType
<1> HIDE DEF s, new, top
<1>7. /\ s \in DOMAIN q.slots
      /\ q.slots \in Seq(Slot)
      /\ Len(q.slots) = IF Tombstones(pg) = {} THEN Len(pg.slots) + 1 ELSE Len(pg.slots)
      /\ q.slots[s] = new
      /\ \A t \in DOMAIN q.slots \ {s} : t \in DOMAIN pg.slots /\ q.slots[t] = pg.slots[t]
      /\ \A t \in DOMAIN pg.slots \ {s} : t \in DOMAIN q.slots
  <2>1. CASE Tombstones(pg) = {}
    BY <1>1, <1>4, <1>5, <1>6, <2>1 DEF WithSlot
  <2>2. CASE Tombstones(pg) # {}
    <3>1. s \in 1 .. Len(pg.slots)
      BY <1>1, <1>5, <2>2 DEF Tombstones
    <3>2. q.slots = [pg.slots EXCEPT ![s] = new]
      BY <1>1, <1>6, <3>1 DEF WithSlot
    <3>3. q.slots \in Seq(Slot) /\ Len(q.slots) = Len(pg.slots)
      BY <1>1, <1>4, <3>1, <3>2, ExceptSlot, Zenon
    <3>4. QED
      BY <1>1, <2>2, <3>1, <3>2, <3>3
  <2>3. QED
    BY <2>1, <2>2, Zenon
<1> HIDE DEF q
<1>8. QED
  BY <1>3, <1>4, <1>5, <1>6, <1>7, Zenon DEF q, s, new, top

\* Fits left room for the record and for the directory with its new slot.
LEMMA InsertGood ==
  ASSUME NEW pg, GoodPage(pg), NEW r \in Records, Fits(pg, r)
  PROVE  GoodPage(InsertRecord(pg, r))
<1> DEFINE q == InsertRecord(pg, r)
           s == SlotForInsert(pg)
           top == pg.free - r.len
           new == [offset |-> top, length |-> r.len, rec |-> r]
<1>1. /\ pg \in PageType /\ pg.slots \in Seq(Slot) /\ Len(pg.slots) \in Nat
      /\ pg.free \in 0 .. PageSize /\ PageSize \in Nat
  BY PageSizeNat DEF GoodPage, PageType
<1>2. r.len \in 1 .. kMaxUint16
  BY PageSizeNat, Zenon
<1>3. /\ DirectoryEnd(pg) \in Nat
      /\ top >= DirectoryEnd(pg)
      /\ Tombstones(pg) = {} => top >= DirectoryEnd(pg) + 4
  <2>1. DirectoryEnd(pg) \in Nat
    BY <1>1 DEF DirectoryEnd, kHeaderSize, kSlotSize
  <2>2. pg.free >= DirectoryEnd(pg) + (IF Tombstones(pg) = {} THEN 4 ELSE 0) + r.len
    BY Zenon DEF Fits, kSlotSize
  <2>3. QED
    BY <1>1, <1>2, <2>1, <2>2
<1>4. new \in Slot /\ top \in 0 .. PageSize
  BY InsertSlots, Zenon
<1>6. q.free = top /\ q.next = pg.next
  BY InsertSlots, Zenon
<1>7. /\ q.slots \in Seq(Slot)
      /\ Len(q.slots) = IF Tombstones(pg) = {} THEN Len(pg.slots) + 1 ELSE Len(pg.slots)
      /\ q.slots[s] = new
      /\ \A t \in DOMAIN q.slots \ {s} : t \in DOMAIN pg.slots /\ q.slots[t] = pg.slots[t]
  BY InsertSlots, Zenon
<1> HIDE DEF s, new, top
<1>8. q \in PageType
  BY <1>1, <1>4, <1>6, <1>7, Zenon DEF PageType, InsertRecord
<1>9. DirectoryEnd(q) <= q.free
  BY <1>1, <1>3, <1>6, <1>7 DEF DirectoryEnd, kHeaderSize, kSlotSize
<1>10. \A t \in LiveSlots(q) \ {s} :
          /\ t \in LiveSlots(pg) /\ q.slots[t] = pg.slots[t]
          /\ top + r.len <= q.slots[t].offset
          /\ q.slots[t].offset + q.slots[t].length <= PageSize
          /\ q.slots[t].length = q.slots[t].rec.len
  <2>1. pg.free = top + r.len
    BY <1>1, <1>2 DEF top
  <2>2. \A t \in LiveSlots(q) \ {s} : t \in LiveSlots(pg) /\ q.slots[t] = pg.slots[t]
    BY <1>7, Zenon DEF LiveSlots, IsTombstoned
  <2>3. QED
    BY <2>1, <2>2, Zenon DEF GoodPage, PageSound
<1>11. /\ new.offset = top /\ new.length = r.len /\ new.rec.len = r.len
       /\ top + r.len <= PageSize
  BY <1>1, <1>2 DEF new, top
<1> HIDE DEF q
<1>12. \A t \in LiveSlots(q) : q.slots[t] \in Slot
  BY <1>7 DEF LiveSlots
<1>13. \A t, u \in LiveSlots(q) : t # u => ~Overlap(q.slots[t], q.slots[u])
  <2> SUFFICES ASSUME NEW t \in LiveSlots(q), NEW u \in LiveSlots(q), t # u
               PROVE  ~Overlap(q.slots[t], q.slots[u])
    BY Zenon
  <2>1. CASE t # s /\ u # s
    BY <1>10, <2>1, Zenon DEF GoodPage, PageSound
  <2>2. CASE t = s
    <3>1. q.slots[t] = new /\ top + r.len <= q.slots[u].offset /\ q.slots[u].offset \in Nat
      BY <1>1, <1>7, <1>10, <1>12, <2>2 DEF Slot
    <3>2. QED
      BY <1>1, <1>2, <1>4, <1>11, <3>1 DEF Overlap
  <2>3. CASE u = s
    <3>1. q.slots[u] = new /\ top + r.len <= q.slots[t].offset /\ q.slots[t].offset \in Nat
      BY <1>1, <1>7, <1>10, <1>12, <2>3 DEF Slot
    <3>2. QED
      BY <1>1, <1>2, <1>4, <1>11, <3>1 DEF Overlap
  <2>4. QED
    BY <2>1, <2>2, <2>3, Zenon
<1>14. \A t \in LiveSlots(q) :
          /\ q.free <= q.slots[t].offset
          /\ q.slots[t].offset + q.slots[t].length <= PageSize
          /\ q.slots[t].length = q.slots[t].rec.len
  <2> SUFFICES ASSUME NEW t \in LiveSlots(q)
               PROVE  /\ q.free <= q.slots[t].offset
                      /\ q.slots[t].offset + q.slots[t].length <= PageSize
                      /\ q.slots[t].length = q.slots[t].rec.len
    BY Zenon
  <2>1. top \in Nat /\ r.len \in Nat /\ q.free = top
    BY <1>2, <1>4, <1>6
  <2>2. CASE t = s
    <3>1. q.slots[t] = new
      BY <1>7, <2>2, Zenon
    <3>2. QED
      BY <1>11, <2>1, <3>1
  <2>3. CASE t # s
    <3>1. q.slots[t].offset \in Nat
      BY <1>1, <1>12 DEF Slot
    <3>2. /\ top + r.len <= q.slots[t].offset
          /\ q.slots[t].offset + q.slots[t].length <= PageSize
          /\ q.slots[t].length = q.slots[t].rec.len
      BY <1>10, <2>3, Zenon
    <3>3. q.free <= q.slots[t].offset
      BY <2>1, <3>1, <3>2
    <3>4. QED
      BY <3>2, <3>3, Zenon
  <2>4. QED
    BY <2>2, <2>3, Zenon
<1>15. Compact(q)
  <2>1. pg.free + Len(pg.slots) <= PageSize /\ top = pg.free - r.len
    BY Zenon DEF GoodPage, Compact, top
  <2>2. r.len \in Nat /\ r.len >= 1 /\ pg.free \in Nat
    BY <1>1, <1>2, PageSizeNat
  <2>3. Len(q.slots) <= Len(pg.slots) + 1 /\ Len(q.slots) \in Nat
    BY <1>1, <1>7
  <2>4. \A a, b, c, d \in Nat : a + b <= PageSize /\ c >= 1 /\ d <= b + 1 => (a - c) + d <= PageSize
    BY <1>1
  <2>5. (pg.free - r.len) + Len(q.slots) <= PageSize
    BY <1>1, <2>1, <2>2, <2>3, <2>4, Zenon
  <2>6. QED
    BY <1>6, <2>1, <2>5, Zenon DEF Compact
<1>16. QED
  BY <1>8, <1>9, <1>13, <1>14, <1>15, Zenon DEF GoodPage, PageSound, q

\* Offsets and lengths are numbers.
LEMMA SlotNat ==
  ASSUME NEW e \in Slot PROVE e.offset \in Nat /\ e.length \in Nat
BY PageSizeNat DEF Slot

\* A page in which one slot gets a smaller length and stays where it is.
LEMMA ShrinkGood ==
  ASSUME NEW pg, GoodPage(pg), NEW s \in DOMAIN pg.slots,
         NEW e \in Slot, e.offset = pg.slots[s].offset,
         e.length = 0 \/ (/\ ~IsTombstoned(pg, s)
                         /\ e.length <= pg.slots[s].length
                         /\ e.length = e.rec.len)
  PROVE  GoodPage([pg EXCEPT !.slots = [pg.slots EXCEPT ![s] = e]])
<1> DEFINE q == [pg EXCEPT !.slots = [pg.slots EXCEPT ![s] = e]]
<1>1. /\ pg \in PageType /\ pg.slots \in Seq(Slot) /\ pg.free \in 0 .. PageSize
      /\ s \in 1 .. Len(pg.slots) /\ DOMAIN pg.slots = 1 .. Len(pg.slots)
  BY DEF GoodPage, PageType
<1>2. q.slots = [pg.slots EXCEPT ![s] = e] /\ q.free = pg.free /\ q.next = pg.next
  BY <1>1, Zenon DEF PageType
<1>3. q.slots \in Seq(Slot) /\ Len(q.slots) = Len(pg.slots)
  BY <1>1, <1>2, ExceptSlot
<1>4. q \in PageType
  BY <1>1, <1>2, <1>3, Zenon DEF PageType
<1>5. DirectoryEnd(q) = DirectoryEnd(pg)
  BY <1>3, Zenon DEF DirectoryEnd
<1> HIDE DEF q
<1>6. /\ DOMAIN q.slots = DOMAIN pg.slots /\ q.slots[s] = e
      /\ \A t \in DOMAIN q.slots \ {s} : q.slots[t] = pg.slots[t]
  BY <1>1, <1>2, Zenon
<1>7. \A t \in LiveSlots(q) :
         /\ t \in LiveSlots(pg)
         /\ q.slots[t].offset = pg.slots[t].offset
         /\ q.slots[t].length <= pg.slots[t].length
         /\ q.slots[t].length = q.slots[t].rec.len
  <2> SUFFICES ASSUME NEW t \in LiveSlots(q)
               PROVE  /\ t \in LiveSlots(pg)
                      /\ q.slots[t].offset = pg.slots[t].offset
                      /\ q.slots[t].length <= pg.slots[t].length
                      /\ q.slots[t].length = q.slots[t].rec.len
    BY Zenon
  <2>1. t \in DOMAIN pg.slots /\ pg.slots[t] \in Slot /\ pg.slots[t].length \in Nat
    <3>1. t \in DOMAIN pg.slots
      BY <1>6, Zenon DEF LiveSlots
    <3>2. pg.slots[t] \in Slot
      BY <1>1, <3>1
    <3>3. QED
      BY <3>1, <3>2, SlotNat, Zenon
  <2>2. CASE t = s
    <3>1. e.length # 0
      BY <1>6, <2>2, Zenon DEF LiveSlots, IsTombstoned
    <3>2. QED
      BY <1>6, <2>1, <2>2, <3>1, Zenon DEF LiveSlots
  <2>3. CASE t # s
    <3>1. q.slots[t] = pg.slots[t]
      BY <1>6, <2>1, <2>3, Zenon
    <3>2. t \in LiveSlots(pg)
      BY <1>6, <3>1, Zenon DEF LiveSlots, IsTombstoned
    <3>3. QED
      BY <2>1, <3>1, <3>2 DEF GoodPage, PageSound
  <2>4. QED
    BY <2>2, <2>3, Zenon
<1>8. \A t \in LiveSlots(q) : /\ q.slots[t].offset \in Nat /\ q.slots[t].length \in Nat
                              /\ pg.slots[t].length \in Nat
  <2> SUFFICES ASSUME NEW t \in LiveSlots(q)
               PROVE  /\ q.slots[t].offset \in Nat /\ q.slots[t].length \in Nat
                      /\ pg.slots[t].length \in Nat
    BY Zenon
  <2>1. t \in DOMAIN q.slots /\ t \in DOMAIN pg.slots
    BY <1>6, Zenon DEF LiveSlots
  <2>2. q.slots[t] \in Slot /\ pg.slots[t] \in Slot
    BY <1>1, <1>3, <2>1
  <2>3. QED
    BY <2>2, SlotNat, Zenon
<1>9. \A t \in LiveSlots(q) :
         /\ q.free <= q.slots[t].offset
         /\ q.slots[t].offset + q.slots[t].length <= PageSize
         /\ q.slots[t].length = q.slots[t].rec.len
  <2> SUFFICES ASSUME NEW t \in LiveSlots(q)
               PROVE  /\ q.free <= q.slots[t].offset
                      /\ q.slots[t].offset + q.slots[t].length <= PageSize
                      /\ q.slots[t].length = q.slots[t].rec.len
    BY Zenon
  <2>1. /\ pg.free <= pg.slots[t].offset
        /\ pg.slots[t].offset + pg.slots[t].length <= PageSize
    BY <1>7, Zenon DEF GoodPage, PageSound
  <2>2. QED
    BY <1>2, <1>7, <1>8, <2>1, PageSizeNat
<1>10. \A t, u \in LiveSlots(q) : t # u => ~Overlap(q.slots[t], q.slots[u])
  <2> SUFFICES ASSUME NEW t \in LiveSlots(q), NEW u \in LiveSlots(q), t # u
               PROVE  ~Overlap(q.slots[t], q.slots[u])
    BY Zenon
  <2>1. ~Overlap(pg.slots[t], pg.slots[u])
    BY <1>7, Zenon DEF GoodPage, PageSound
  <2>2. QED
    BY <1>7, <1>8, <2>1 DEF Overlap
<1>11. pg.slots # <<>>
  BY <1>1
<1>12. GoodPage(q)
  BY <1>2, <1>3, <1>4, <1>5, <1>9, <1>10, <1>11, Zenon DEF GoodPage, PageSound, Compact
<1>13. QED
  BY <1>12, Zenon DEF q

\* SlottedPage::DeleteRecord keeps a page good.
LEMMA DeleteGood ==
  ASSUME NEW pg, GoodPage(pg), NEW s \in DOMAIN pg.slots
  PROVE  GoodPage(DeleteRecord(pg, s))
<1> DEFINE e == [pg.slots[s] EXCEPT !.length = 0]
<1>1. pg.slots[s] \in Slot
  BY DEF GoodPage, PageType
<1>2. e \in Slot /\ e.offset = pg.slots[s].offset /\ e.length = 0
  BY <1>1, PageSizeNat DEF Slot
<1>3. DeleteRecord(pg, s) = [pg EXCEPT !.slots = [pg.slots EXCEPT ![s] = e]]
  BY Zenon DEF DeleteRecord
<1> HIDE DEF e
<1>4. QED
  BY <1>2, <1>3, ShrinkGood

\* SlottedPage::UpdateRecordInPlace keeps a page good.
LEMMA UpdateGood ==
  ASSUME NEW pg, GoodPage(pg), NEW s, NEW r \in Records, UpdatesInPlace(pg, s, r)
  PROVE  GoodPage(UpdateRecordInPlace(pg, s, r))
<1> DEFINE e == [pg.slots[s] EXCEPT !.length = r.len, !.rec = r]
<1>1. s \in DOMAIN pg.slots /\ ~IsTombstoned(pg, s) /\ r.len <= pg.slots[s].length
  BY Zenon DEF UpdatesInPlace, IsTombstoned
<1>2. pg.slots[s] \in Slot
  BY <1>1 DEF GoodPage, PageType
<1>3. r.len \in 0 .. kMaxUint16
  BY PageSizeNat
<1>4. e \in Slot /\ e.offset = pg.slots[s].offset /\ e.length = r.len /\ e.rec.len = r.len
  BY <1>2, <1>3, Zenon DEF Slot
<1>5. UpdateRecordInPlace(pg, s, r) = [pg EXCEPT !.slots = [pg.slots EXCEPT ![s] = e]]
  BY <1>1, <1>2, Zenon DEF UpdateRecordInPlace, Slot, GoodPage, PageType
<1> HIDE DEF e
<1>6. QED
  BY <1>1, <1>4, <1>5, ShrinkGood

-----------------------------------------------------------------------------
(* The heap files. *)

\* The pages of the pool and of the file are good ones; the rest of the type
\* invariant is what is needed for the ids of the pages written.
PagesGood(m) == m \in [PageIds -> PageType] /\ \A p \in PageIds : GoodPage(m[p])

HeapInv ==
  /\ PagesGood(pages) /\ PagesGood(disk)
  /\ page_count \in 1 .. MaxPages
  /\ first_page_id \in [Files -> {kInvalidPageId} \cup PageIds]
  /\ last_insert_page_id \in [Files -> {kInvalidPageId} \cup PageIds]
  /\ op = NoOp \/ op \in [file : Files, rec : Records, current : -1 .. MaxPages, prev : -1 .. MaxPages]

\* The type and the disjointness of regions follow from the invariant.
LEMMA HeapInvImplies == HeapInv => HeapTypeOK /\ RegionsDisjoint
<1> SUFFICES ASSUME HeapInv PROVE HeapTypeOK /\ RegionsDisjoint
  BY Zenon
<1>1. HeapTypeOK
  BY Zenon DEF HeapInv, HeapTypeOK, PagesGood, PageType
<1>2. RegionsDisjoint
  BY Zenon DEF HeapInv, RegionsDisjoint, PagesGood, GoodPage
<1>3. QED
  BY <1>1, <1>2, Zenon

\* One page changes to a good one.
LEMMA OnePage ==
  ASSUME NEW m, PagesGood(m), NEW p, NEW pg, p \in PageIds => GoodPage(pg)
  PROVE  PagesGood([m EXCEPT ![p] = pg])
BY Zenon DEF PagesGood, GoodPage

\* A new data file satisfies it.
LEMMA HeapInvInit == Init => HeapInv
<1> SUFFICES ASSUME Init PROVE HeapInv
  BY Zenon
<1>1. GoodPage(HeaderPage(1)) /\ GoodPage(Blank)
  BY EmptyPagesGood, FileAssumption DEF HeaderPage, Blank
<1>2. PagesGood(pages)
  BY <1>1, Zenon DEF Init, PagesGood, GoodPage
<1>3. QED
  BY <1>2, FileAssumption DEF Init, HeapInv

\* PageManager::AllocatePage writes a page of zeros and the header, both good.
LEMMA AllocateGood ==
  ASSUME HeapInv, page_count < MaxPages
  PROVE  PagesGood(DiskAfterAllocate) /\ page_count \in PageIds /\ page_count + 1 \in 1 .. MaxPages
<1>1. GoodPage(HeaderPage(page_count + 1)) /\ GoodPage(Blank)
  BY EmptyPagesGood, FileAssumption DEF HeaderPage, Blank, HeapInv
<1>2. PagesGood([disk EXCEPT ![page_count] = Blank])
  BY <1>1, OnePage, Zenon DEF HeapInv
<1>3. PagesGood(DiskAfterAllocate)
  BY <1>1, <1>2, OnePage, Zenon DEF DiskAfterAllocate
<1>4. QED
  BY <1>3, FileAssumption DEF HeapInv, PageIds

\* Every call on a heap file, every write-back and every crash keeps it.
LEMMA HeapInvStep == HeapInv /\ [Next]_heapVars => HeapInv'
<1> SUFFICES ASSUME HeapInv, [Next]_heapVars PROVE HeapInv'
  BY Zenon
<1>0. /\ PagesGood(pages) /\ PagesGood(disk) /\ page_count \in 1 .. MaxPages /\ MaxPages \in Nat
      /\ \A p \in PageIds : GoodPage(pages[p]) /\ GoodPage(disk[p])
      /\ PageIds = 0 .. MaxPages - 1
  BY FileAssumption, Zenon DEF HeapInv, PagesGood, PageIds
<1>1. ASSUME NEW f \in Files, Create(f) PROVE HeapInv'
  <2>1. page_count < MaxPages
    BY <1>1, Zenon DEF Create
  <2>2. PagesGood(DiskAfterAllocate) /\ page_count \in PageIds /\ page_count + 1 \in 1 .. MaxPages
    BY <2>1, AllocateGood, Zenon
  <2>3. PagesGood(pages')
    BY <1>0, <1>1, InitPageGood, OnePage, Zenon DEF Create
  <2>4. QED
    BY <1>1, <2>2, <2>3, Zenon DEF Create, HeapInv
<1>2. ASSUME NEW f \in Files, NEW r \in Records, BeginInsert(f, r) PROVE HeapInv'
  <2>1. op' \in [file : Files, rec : Records, current : -1 .. MaxPages, prev : -1 .. MaxPages]
    BY <1>0, <1>2 DEF BeginInsert, InsertCall, HeapInv, kInvalidPageId
  <2>2. QED
    BY <1>2, <2>1, Zenon DEF BeginInsert, HeapInv
<1>3. CASE InsertHere
  <2>1. op.current \in PageIds /\ op.rec \in Records
    BY <1>0, <1>3 DEF InsertHere, Fetchable, HeapInv
  <2>2. GoodPage(InsertRecord(pages[op.current], op.rec))
    BY <1>0, <1>3, <2>1, InsertGood, Zenon DEF InsertHere
  <2>3. PagesGood(pages')
    BY <1>0, <1>3, <2>2, OnePage, Zenon DEF InsertHere
  <2>4. QED
    BY <1>3, <2>1, <2>3, Zenon DEF InsertHere, HeapInv
<1>4. CASE InsertFurther
  <2>1. op.current \in PageIds /\ op.current \in -1 .. MaxPages
    BY <1>0, <1>4 DEF InsertFurther, Fetchable
  <2>2. pages[op.current].next \in -1 .. MaxPages
    BY <1>0, <2>1, Zenon DEF GoodPage, PageType
  <2>3. op' \in [file : Files, rec : Records, current : -1 .. MaxPages, prev : -1 .. MaxPages]
    BY <1>4, <2>1, <2>2, Zenon DEF InsertFurther, HeapInv
  <2>4. QED
    BY <1>4, <2>3, Zenon DEF InsertFurther, HeapInv
<1>5. CASE InsertFails
  BY <1>5, Zenon DEF InsertFails, HeapInv
<1>6. CASE InsertInNewPage
  <2>1. op.rec \in Records /\ page_count < MaxPages
    BY <1>6, Zenon DEF InsertInNewPage, HeapInv
  <2>2. PagesGood(DiskAfterAllocate) /\ page_count \in PageIds /\ page_count + 1 \in 1 .. MaxPages
    BY <2>1, AllocateGood, Zenon
  <2> DEFINE pg == IF Fits(InitPage, op.rec) THEN InsertRecord(InitPage, op.rec) ELSE InitPage
             m == [pages EXCEPT ![page_count] = pg]
  <2>3. GoodPage(pg)
    BY <2>1, InitPageGood, InsertGood, Zenon
  <2> HIDE DEF pg
  <2>4. PagesGood(m)
    BY <1>0, <2>3, OnePage, Zenon
  <2>5. op.prev \in PageIds => GoodPage(SetNextPageId(m[op.prev], page_count))
    <3>1. page_count \in -1 .. MaxPages
      BY <1>0
    <3>2. QED
      BY <2>4, <3>1, LinkGood, Zenon DEF PagesGood
  <2>6. pages' = [m EXCEPT ![op.prev] = SetNextPageId(@, page_count)]
    <3>1. pages' = NewPageLinked(page_count, op.prev, pg)
      BY <1>6, Zenon DEF InsertInNewPage, pg
    <3>2. QED
      BY <3>1, Zenon DEF NewPageLinked, NewPageUnlinked
  <2> HIDE DEF m
  <2>7. PagesGood(pages')
    BY <2>4, <2>5, <2>6, OnePage, Zenon
  <2>8. last_insert_page_id' \in [Files -> {kInvalidPageId} \cup PageIds]
    BY <1>6, <2>2, Zenon DEF InsertInNewPage, HeapInv
  <2>9. QED
    BY <1>6, <2>2, <2>7, <2>8, Zenon DEF InsertInNewPage, HeapInv
<1>7. ASSUME NEW rid, ~IsTombstoned(pages[rid[1]], rid[2])
      PROVE  PagesGood([pages EXCEPT ![rid[1]] = DeleteRecord(@, rid[2])])
  <2>1. rid[1] \in PageIds => GoodPage(DeleteRecord(pages[rid[1]], rid[2]))
    BY <1>0, <1>7, DeleteGood, Zenon DEF IsTombstoned
  <2>2. QED
    BY <1>0, <2>1, OnePage, Zenon
<1>8. ASSUME NEW f \in Files, NEW rid \in DOMAIN rows[f], Delete(f, rid) PROVE HeapInv'
  <2>1. PagesGood(pages')
    BY <1>7, <1>8, Zenon DEF Delete
  <2>2. QED
    BY <1>8, <2>1, Zenon DEF Delete, HeapInv
<1>9. ASSUME NEW f \in Files, NEW rid \in DOMAIN rows[f], NEW r \in Records, Update(f, rid, r)
      PROVE  HeapInv'
  <2>1. CASE UpdatesInPlace(pages[rid[1]], rid[2], r)
    <3>1. rid[1] \in PageIds => GoodPage(UpdateRecordInPlace(pages[rid[1]], rid[2], r))
      BY <1>0, <2>1, UpdateGood, Zenon
    <3>2. pages' = [pages EXCEPT ![rid[1]] = UpdateRecordInPlace(@, rid[2], r)] /\ op' = NoOp
      BY <1>9, <2>1, Zenon DEF Update
    <3>3. PagesGood(pages')
      BY <1>0, <3>1, <3>2, OnePage, Zenon
    <3>4. QED
      BY <1>9, <3>2, <3>3, Zenon DEF Update, HeapInv
  <2>2. CASE ~UpdatesInPlace(pages[rid[1]], rid[2], r)
    <3>1. /\ pages' = [pages EXCEPT ![rid[1]] = DeleteRecord(@, rid[2])]
          /\ op' = InsertCall(f, r) /\ ~IsTombstoned(pages[rid[1]], rid[2])
      BY <1>9, <2>2, Zenon DEF Update
    <3>2. PagesGood(pages')
      BY <1>7, <3>1, Zenon
    <3>3. op' \in [file : Files, rec : Records, current : -1 .. MaxPages, prev : -1 .. MaxPages]
      BY <1>0, <3>1 DEF InsertCall, HeapInv, kInvalidPageId
    <3>4. QED
      BY <1>9, <3>2, <3>3, Zenon DEF Update, HeapInv
  <2>3. QED
    BY <2>1, <2>2, Zenon
<1>10. ASSUME NEW p \in PageIds, Evict(p) PROVE HeapInv'
  <2>1. PagesGood(pages') /\ PagesGood(disk')
    <3>1. CASE p = 0
      <4>1. pages' = [pages EXCEPT ![0] = disk[0]] /\ disk' = disk /\ 0 \in PageIds
        BY <1>10, <3>1, Zenon DEF Evict
      <4>2. QED
        BY <1>0, <4>1, OnePage, Zenon
    <3>2. CASE p # 0
      BY <1>0, <1>10, <3>2, OnePage DEF Evict
    <3>3. QED
      BY <3>1, <3>2, Zenon
  <2>2. QED
    BY <1>10, <2>1, Zenon DEF Evict, HeapInv
<1>11. CASE FlushAll
  <2>1. 0 \in PageIds
    BY <1>0
  <2>2. PagesGood(disk')
    BY <1>0, <1>11, <2>1, OnePage, Zenon DEF FlushAll
  <2>3. QED
    BY <1>11, <2>2, Zenon DEF FlushAll, HeapInv
<1>12. CASE Crash
  BY <1>12, Zenon DEF Crash, HeapInv
<1>13. CASE UNCHANGED heapVars
  BY <1>13, Zenon DEF heapVars, HeapInv
<1>14. QED
  BY <1>1, <1>2, <1>3, <1>4, <1>5, <1>6, <1>8, <1>9, <1>10, <1>11, <1>12, <1>13, Zenon DEF Next

\* The pages, the file and the call under way keep their types.
THEOREM HeapTypeCorrect == HeapSpec => []HeapTypeOK
BY HeapInvImplies, HeapInvInit, HeapInvStep, PTL DEF HeapSpec

\* The directory and the records of a page never meet and no two records
\* share a byte, in the pool and in the file, for every page size, record
\* lengths, number of pages and of heap files, whatever is evicted, flushed
\* or lost in a crash (slotted_page.hpp:76-140, heap_file.cpp:18-116).
THEOREM RegionsStayDisjoint == HeapSpec => []RegionsDisjoint
BY HeapInvImplies, HeapInvInit, HeapInvStep, PTL DEF HeapSpec

-----------------------------------------------------------------------------
(* The chain of a heap file as the least closed set. *)

\* A scan visits the first page, and behind a page the next one.
LEMMA ReachedClosed ==
  ASSUME NEW m, NEW a, NEW n \in Nat
  PROVE  /\ Reached(m, a, n) \subseteq 0 .. n - 1
         /\ a \in 0 .. n - 1 => a \in Reached(m, a, n)
         /\ \A p \in Reached(m, a, n) :
              m[p].next \in 0 .. n - 1 => m[p].next \in Reached(m, a, n)
<1>1. Reached(m, a, n) \subseteq 0 .. n - 1
  BY Zenon DEF Reached
<1>2. a \in 0 .. n - 1 => a \in Reached(m, a, n)
  BY Zenon DEF Reached, ClosedUnderNext
<1>3. ASSUME NEW p \in Reached(m, a, n), m[p].next \in 0 .. n - 1
      PROVE  m[p].next \in Reached(m, a, n)
  <2>1. ASSUME NEW S \in SUBSET (0 .. n - 1), ClosedUnderNext(m, a, n, S)
        PROVE  m[p].next \in S
    <3>1. p \in S
      BY <2>1, Zenon DEF Reached
    <3>2. QED
      BY <1>3, <2>1, <3>1, Zenon DEF ClosedUnderNext
  <2>2. QED
    BY <1>3, <2>1, Zenon DEF Reached
<1>4. QED
  BY <1>1, <1>2, <1>3, Zenon

\* It visits no page outside a set that has the first page and with a page
\* the next one.
LEMMA ReachedLeast ==
  ASSUME NEW m, NEW a, NEW n \in Nat, NEW S,
         a \in 0 .. n - 1 => a \in S,
         \A p \in S : p \in 0 .. n - 1 /\ m[p].next \in 0 .. n - 1 => m[p].next \in S
  PROVE  Reached(m, a, n) \subseteq S
<1> DEFINE T == S \cap 0 .. n - 1
<1>1. T \in SUBSET (0 .. n - 1)
  BY Zenon
<1>2. ClosedUnderNext(m, a, n, T)
  BY Zenon DEF ClosedUnderNext
<1> HIDE DEF T
<1>3. Reached(m, a, n) \subseteq T
  BY <1>1, <1>2, Zenon DEF Reached
<1>4. QED
  BY <1>3, Zenon DEF T

\* A chain none of whose links changes, or ends or begins to be fetchable,
\* is the same chain in a file that has grown.
LEMMA ReachedSame ==
  ASSUME NEW m, NEW a, NEW n \in Nat, NEW w, NEW k \in Nat, n <= k,
         a \in 0 .. k - 1 => a \in 0 .. n - 1,
         \A p \in Reached(m, a, n) :
           \/ w[p].next = m[p].next /\ w[p].next \notin n .. k - 1
           \/ w[p].next \notin 0 .. k - 1 /\ m[p].next \notin 0 .. n - 1
  PROVE  Reached(w, a, k) = Reached(m, a, n)
<1> DEFINE R == Reached(m, a, n)
           Q == Reached(w, a, k)
           S == Q \cap R
<1>0. \A x : x \in 0 .. n - 1 => x \in 0 .. k - 1
  OBVIOUS
<1>1. /\ R \subseteq 0 .. n - 1
      /\ a \in 0 .. n - 1 => a \in R
      /\ \A p \in R : m[p].next \in 0 .. n - 1 => m[p].next \in R
  BY ReachedClosed, Zenon
<1>2. /\ Q \subseteq 0 .. k - 1
      /\ a \in 0 .. k - 1 => a \in Q
      /\ \A p \in Q : w[p].next \in 0 .. k - 1 => w[p].next \in Q
  BY ReachedClosed, Zenon
<1> HIDE DEF R
<1>3. Q \subseteq R
  <2>1. ASSUME NEW p \in R, w[p].next \in 0 .. k - 1 PROVE w[p].next \in R
    <3>1. w[p].next = m[p].next /\ w[p].next \notin n .. k - 1
      BY <2>1, Zenon DEF R
    <3>2. QED
      BY <1>1, <2>1, <3>1
  <2>2. QED
    BY <1>1, <2>1, ReachedLeast, Zenon
<1> HIDE DEF Q
<1>4. R \subseteq S
  <2>1. ASSUME NEW p \in S, m[p].next \in 0 .. n - 1 PROVE m[p].next \in S
    <3>1. w[p].next = m[p].next
      BY <2>1, Zenon DEF R
    <3>2. QED
      BY <1>0, <1>1, <1>2, <2>1, <3>1, Zenon
  <2>2. a \in 0 .. n - 1 => a \in S
    BY <1>0, <1>1, <1>2, Zenon
  <2> HIDE DEF S
  <2>3. QED
    BY <2>1, <2>2, ReachedLeast, Zenon DEF R
<1>5. QED
  BY <1>3, <1>4, Zenon DEF Q, R

\* The last page of a chain gets the new page of the file as its next page.
LEMMA ReachedGrows ==
  ASSUME NEW m, NEW a, NEW n \in Nat, NEW w, NEW e \in Reached(m, a, n), a # n,
         m[e].next \notin 0 .. n - 1, w[e].next = n, w[n].next \notin 0 .. n,
         \A p \in Reached(m, a, n) \ {e} : w[p].next = m[p].next /\ m[p].next # n
  PROVE  Reached(w, a, n + 1) = Reached(m, a, n) \cup {n}
<1> DEFINE R == Reached(m, a, n)
           Q == Reached(w, a, n + 1)
           S == Q \cap R
           T == R \cup {n}
<1>0. n + 1 \in Nat /\ 0 .. (n + 1) - 1 = 0 .. n /\ \A x : x \in 0 .. n <=> x \in 0 .. n - 1 \/ x = n
  OBVIOUS
<1>1. /\ R \subseteq 0 .. n - 1
      /\ a \in 0 .. n - 1 => a \in R
      /\ \A p \in R : m[p].next \in 0 .. n - 1 => m[p].next \in R
  BY ReachedClosed, Zenon
<1>2. /\ Q \subseteq 0 .. n
      /\ a \in 0 .. n => a \in Q
      /\ \A p \in Q : w[p].next \in 0 .. n => w[p].next \in Q
  BY <1>0, ReachedClosed, Zenon
<1> HIDE DEF R
<1>3. Q \subseteq T
  <2>1. ASSUME NEW p \in T, w[p].next \in 0 .. n PROVE w[p].next \in T
    <3>1. CASE p = n \/ p = e
      BY <2>1, <3>1, Zenon
    <3>2. CASE p # n /\ p # e
      <4>1. p \in R /\ w[p].next = m[p].next /\ m[p].next # n
        BY <3>2, Zenon DEF R
      <4>2. QED
        BY <1>0, <1>1, <2>1, <4>1, Zenon
    <3>3. QED
      BY <3>1, <3>2, Zenon
  <2>2. a \in 0 .. n => a \in T
    BY <1>0, <1>1, Zenon
  <2> HIDE DEF T
  <2>3. QED
    BY <1>0, <2>1, <2>2, ReachedLeast, Zenon
<1> HIDE DEF Q
<1>4. R \subseteq S
  <2>1. ASSUME NEW p \in S, m[p].next \in 0 .. n - 1 PROVE m[p].next \in S
    <3>1. p # e /\ w[p].next = m[p].next
      BY <2>1, Zenon DEF R
    <3>2. QED
      BY <1>0, <1>1, <1>2, <2>1, <3>1, Zenon
  <2>2. a \in 0 .. n - 1 => a \in S
    BY <1>0, <1>1, <1>2, Zenon
  <2> HIDE DEF S
  <2>3. QED
    BY <2>1, <2>2, ReachedLeast, Zenon DEF R
<1>5. n \in Q
  <2>1. e \in Q
    BY <1>4, Zenon DEF R
  <2>2. QED
    BY <1>0, <1>2, <2>1, Zenon
<1>6. QED
  BY <1>3, <1>4, <1>5, Zenon DEF Q, R

\* A file whose first page is not there has no chain.
LEMMA ReachedNone ==
  ASSUME NEW m, NEW a, NEW n \in Nat, a \notin 0 .. n - 1
  PROVE  Reached(m, a, n) = {}
<1> DEFINE T == {}
<1>1. \A y \in T : m[y].next \in T
  BY Zenon
<1> HIDE DEF T
<1>2. Reached(m, a, n) \subseteq T
  BY <1>1, ReachedLeast, Zenon
<1>3. QED
  BY <1>2, Zenon DEF T

\* A chain has one end: the scan stops at one page only.
LEMMA OneEnd ==
  ASSUME NEW m, NEW a, NEW n \in Nat,
         NEW p \in Reached(m, a, n), m[p].next \notin 0 .. n - 1,
         NEW q \in Reached(m, a, n), m[q].next \notin 0 .. n - 1
  PROVE  p = q
<1> SUFFICES ASSUME p # q PROVE FALSE
  BY Zenon
<1> DEFINE From(x) == Reached(m, x, n)
           S == {x \in 0 .. n - 1 : p \in From(x) /\ q \in From(x)}
<1>1. ASSUME NEW x \in 0 .. n - 1
      PROVE  From(x) \subseteq {x} \cup From(m[x].next)
  <2> DEFINE T == {x} \cup From(m[x].next)
  <2>1. /\ m[x].next \in 0 .. n - 1 => m[x].next \in From(m[x].next)
        /\ \A y \in From(m[x].next) : m[y].next \in 0 .. n - 1 => m[y].next \in From(m[x].next)
    BY ReachedClosed, Zenon
  <2>2. \A y \in T : m[y].next \in 0 .. n - 1 => m[y].next \in T
    BY <2>1, Zenon
  <2> HIDE DEF T
  <2>3. x \in T
    BY Zenon DEF T
  <2>4. From(x) \subseteq T
    BY <2>2, <2>3, ReachedLeast, Zenon
  <2>5. QED
    BY <2>4, Zenon DEF T
<1>2. ASSUME NEW x, x \notin 0 .. n - 1 PROVE From(x) = {}
  BY <1>2, ReachedNone, Zenon
<1>3. a \in 0 .. n - 1
  BY <1>2, Zenon
<1>4. a \in S
  BY <1>3, Zenon
<1>5. ASSUME NEW x \in S PROVE m[x].next \in S
  <2>1. x \in 0 .. n - 1 /\ p \in From(x) /\ q \in From(x)
    BY <1>5, Zenon
  <2> HIDE DEF From
  <2>2. x = p \/ x = q \/ (p \in From(m[x].next) /\ q \in From(m[x].next))
    BY <1>1, <2>1, Zenon
  <2>3. x # p
    <3>1. SUFFICES ASSUME x = p PROVE FALSE
      BY Zenon
    <3>2. From(m[x].next) = {}
      BY <1>2, <3>1, Zenon
    <3>3. QED
      BY <1>1, <2>1, <3>1, <3>2, Zenon
  <2>4. x # q
    <3>1. SUFFICES ASSUME x = q PROVE FALSE
      BY Zenon
    <3>2. From(m[x].next) = {}
      BY <1>2, <3>1, Zenon
    <3>3. QED
      BY <1>1, <2>1, <3>1, <3>2, Zenon
  <2>5. m[x].next \in 0 .. n - 1
    BY <1>2, <2>2, <2>3, <2>4, Zenon
  <2>6. QED
    BY <2>2, <2>3, <2>4, <2>5, Zenon
<1>6. Reached(m, a, n) \subseteq S
  <2> HIDE DEF S
  <2>1. QED
    BY <1>4, <1>5, ReachedLeast, Zenon
<1>7. p \in S
  BY <1>6, Zenon
<1>8. m[p].next \in S
  BY <1>5, <1>7, Zenon
<1>9. QED
  BY <1>8, Zenon

-----------------------------------------------------------------------------
(* What the operations of a slotted page do to its records. *)

Put(pg, q, s, r) ==
  /\ q.next = pg.next
  /\ LiveSlots(q) = LiveSlots(pg) \cup {s}
  /\ GetRecord(q, s) = r
  /\ \A t \in LiveSlots(pg) \ {s} : GetRecord(q, t) = GetRecord(pg, t)

Dropped(pg, q, s) ==
  /\ q.next = pg.next
  /\ LiveSlots(q) = LiveSlots(pg) \ {s}
  /\ \A t \in LiveSlots(q) : GetRecord(q, t) = GetRecord(pg, t)

SlotIds == 1 .. (PageSize - kHeaderSize) \div (kSlotSize + 1)

\* The slots of a page: each takes four bytes of directory and has taken a
\* byte of record.
LEMMA SlotsBounded ==
  ASSUME NEW pg, GoodPage(pg)
  PROVE  DOMAIN pg.slots \subseteq SlotIds
<1>1. /\ pg.slots \in Seq(Slot) /\ Len(pg.slots) \in Nat /\ DOMAIN pg.slots = 1 .. Len(pg.slots)
      /\ PageSize \in Nat /\ PageSize >= 12 /\ pg.free \in Nat
  BY PageSizeNat DEF GoodPage, PageType
<1>2. CASE pg.slots = <<>>
  BY <1>1, <1>2
<1>3. CASE pg.slots # <<>>
  <2>1. 12 + Len(pg.slots) * 4 <= pg.free /\ pg.free + Len(pg.slots) <= PageSize
    BY <1>3, Zenon DEF GoodPage, PageSound, Compact, DirectoryEnd, kHeaderSize, kSlotSize
  <2>2. \A n, k, x \in Nat : 12 + n * 4 <= k /\ k + n <= x => 5 * n <= x - 12
    OBVIOUS
  <2>3. 5 * Len(pg.slots) <= PageSize - 12
    BY <1>1, <2>1, <2>2, Zenon
  <2>4. \A n, x \in Nat : 5 * n <= x => n <= x \div 5
    OBVIOUS
  <2>5. PageSize - 12 \in Nat
    BY <1>1
  <2>6. Len(pg.slots) <= (PageSize - 12) \div 5
    BY <1>1, <2>3, <2>4, <2>5, Zenon
  <2>7. SlotIds = 1 .. (PageSize - 12) \div 5
    BY DEF SlotIds, kHeaderSize, kSlotSize
  <2>8. (PageSize - 12) \div 5 \in Int
    BY <2>5
  <2>9. QED
    BY <1>1, <2>6, <2>7, <2>8
<1>4. QED
  BY <1>2, <1>3, Zenon

\* An insert adds its record in a slot that held none, and moves no other.
LEMMA InsertPuts ==
  ASSUME NEW pg, GoodPage(pg), NEW r \in Records, Fits(pg, r)
  PROVE  /\ Put(pg, InsertRecord(pg, r), SlotForInsert(pg), r)
         /\ SlotForInsert(pg) \notin LiveSlots(pg)
         /\ SlotForInsert(pg) \in SlotIds
<1> DEFINE q == InsertRecord(pg, r)
           s == SlotForInsert(pg)
<1>1. /\ IF Tombstones(pg) = {} THEN s = Len(pg.slots) + 1 ELSE s \in Tombstones(pg)
      /\ s \in DOMAIN q.slots
      /\ q.next = pg.next
      /\ q.slots[s] = [offset |-> pg.free - r.len, length |-> r.len, rec |-> r]
      /\ \A t \in DOMAIN q.slots \ {s} : t \in DOMAIN pg.slots /\ q.slots[t] = pg.slots[t]
      /\ \A t \in DOMAIN pg.slots \ {s} : t \in DOMAIN q.slots
  BY InsertSlots, Zenon
<1>2. q.slots[s].rec = r /\ q.slots[s].length = r.len /\ r.len # 0
  BY <1>1, PageSizeNat
<1>3. pg.slots \in Seq(Slot) /\ Len(pg.slots) \in Nat /\ DOMAIN pg.slots = 1 .. Len(pg.slots)
  BY DEF GoodPage, PageType
<1>4. GoodPage(q)
  BY InsertGood, Zenon
<1>5. s \in SlotIds
  BY <1>1, <1>4, SlotsBounded, Zenon
<1> HIDE DEF q, s
<1>6. s \notin LiveSlots(pg)
  BY <1>1, <1>3 DEF LiveSlots, IsTombstoned, Tombstones
<1>7. LiveSlots(q) = LiveSlots(pg) \cup {s}
  BY <1>1, <1>2, Zenon DEF LiveSlots, IsTombstoned
<1>8. Put(pg, q, s, r)
  BY <1>1, <1>2, <1>7, Zenon DEF Put, LiveSlots, GetRecord
<1>9. QED
  BY <1>5, <1>6, <1>8, Zenon DEF q, s

\* A delete takes its record out and moves no other.
LEMMA DeleteDrops ==
  ASSUME NEW pg, GoodPage(pg), NEW s \in LiveSlots(pg)
  PROVE  Dropped(pg, DeleteRecord(pg, s), s)
<1> DEFINE e == [pg.slots[s] EXCEPT !.length = 0]
           q == DeleteRecord(pg, s)
<1>1. s \in DOMAIN pg.slots /\ pg.slots \in Seq(Slot) /\ pg.slots[s] \in Slot /\ pg \in PageType
  BY DEF GoodPage, PageType, LiveSlots
<1>2. e.length = 0
  BY <1>1, Zenon DEF Slot
<1>3. q = [pg EXCEPT !.slots = [pg.slots EXCEPT ![s] = e]]
  BY Zenon DEF DeleteRecord
<1> HIDE DEF e
<1>4. q.slots = [pg.slots EXCEPT ![s] = e] /\ q.next = pg.next
  BY <1>1, <1>3, Zenon DEF PageType
<1> HIDE DEF q
<1>5. /\ DOMAIN q.slots = DOMAIN pg.slots /\ q.slots[s].length = 0
      /\ \A t \in DOMAIN q.slots \ {s} : q.slots[t] = pg.slots[t]
  BY <1>1, <1>2, <1>4, Zenon
<1>6. LiveSlots(q) = LiveSlots(pg) \ {s}
  BY <1>5 DEF LiveSlots, IsTombstoned
<1>7. QED
  BY <1>4, <1>5, <1>6, Zenon DEF Dropped, LiveSlots, GetRecord, q

\* An update in place changes its record and no other.
LEMMA UpdatePuts ==
  ASSUME NEW pg, GoodPage(pg), NEW s, NEW r \in Records, UpdatesInPlace(pg, s, r)
  PROVE  Put(pg, UpdateRecordInPlace(pg, s, r), s, r)
<1> DEFINE e == [pg.slots[s] EXCEPT !.length = r.len, !.rec = r]
           q == UpdateRecordInPlace(pg, s, r)
<1>1. s \in LiveSlots(pg) /\ s \in DOMAIN pg.slots
  BY Zenon DEF UpdatesInPlace, IsTombstoned, LiveSlots
<1>2. pg.slots \in Seq(Slot) /\ pg.slots[s] \in Slot /\ pg \in PageType
  BY <1>1 DEF GoodPage, PageType
<1>3. e.length = r.len /\ e.rec = r /\ r.len # 0
  BY <1>2, PageSizeNat DEF Slot
<1>4. q = [pg EXCEPT !.slots = [pg.slots EXCEPT ![s] = e]]
  BY <1>1, <1>2, Zenon DEF UpdateRecordInPlace, Slot, PageType
<1> HIDE DEF e
<1>5. q.slots = [pg.slots EXCEPT ![s] = e] /\ q.next = pg.next
  BY <1>2, <1>4, Zenon DEF PageType
<1> HIDE DEF q
<1>6. /\ DOMAIN q.slots = DOMAIN pg.slots /\ q.slots[s] = e
      /\ \A t \in DOMAIN q.slots \ {s} : q.slots[t] = pg.slots[t]
  BY <1>1, <1>2, <1>5, Zenon
<1>7. LiveSlots(q) = LiveSlots(pg) \cup {s}
  BY <1>1, <1>3, <1>6, Zenon DEF LiveSlots, IsTombstoned
<1>8. QED
  BY <1>3, <1>5, <1>6, <1>7, Zenon DEF Put, LiveSlots, GetRecord, q

-----------------------------------------------------------------------------
(* What a scan shows. *)

ScanOf(m, C) ==
  [rid \in UNION {{p} \X LiveSlots(m[p]) : p \in C} |-> GetRecord(m[rid[1]], rid[2])]

SameRecords(pg, q) ==
  /\ LiveSlots(q) = LiveSlots(pg)
  /\ \A t \in LiveSlots(pg) : GetRecord(q, t) = GetRecord(pg, t)

WithRecord(S, rid, r) == [x \in DOMAIN S \cup {rid} |-> IF x = rid THEN r ELSE S[x]]
WithoutRecord(S, rid) == [x \in DOMAIN S \ {rid} |-> S[x]]

\* A scan shows the live records of the pages of its chain.
LEMMA ScanOfFacts ==
  ASSUME NEW m, NEW C
  PROVE  /\ \A rid : rid \in DOMAIN ScanOf(m, C) <=>
                       /\ rid[1] \in C /\ rid[2] \in LiveSlots(m[rid[1]])
                       /\ rid = <<rid[1], rid[2]>>
         /\ \A rid \in DOMAIN ScanOf(m, C) : ScanOf(m, C)[rid] = GetRecord(m[rid[1]], rid[2])
         /\ ScanOf(m, C) = [rid \in DOMAIN ScanOf(m, C) |-> ScanOf(m, C)[rid]]
<1> DEFINE D == UNION {{p} \X LiveSlots(m[p]) : p \in C}
<1>1. \A rid : rid \in D <=> /\ rid[1] \in C /\ rid[2] \in LiveSlots(m[rid[1]])
                             /\ rid = <<rid[1], rid[2]>>
  OBVIOUS
<1>2. ScanOf(m, C) = [rid \in D |-> GetRecord(m[rid[1]], rid[2])]
  BY Zenon DEF ScanOf
<1> HIDE DEF D
<1>3. DOMAIN ScanOf(m, C) = D
  BY <1>2, Zenon
<1>4. QED
  BY <1>1, <1>2, <1>3, Zenon

\* Two scans that show the same records under the same ids.
LEMMA ScanSame ==
  ASSUME NEW m, NEW C, NEW w, \A p \in C : SameRecords(m[p], w[p])
  PROVE  ScanOf(w, C) = ScanOf(m, C)
<1>1. \A rid : rid \in DOMAIN ScanOf(w, C) <=> rid \in DOMAIN ScanOf(m, C)
  BY ScanOfFacts DEF SameRecords
<1>2. DOMAIN ScanOf(w, C) = DOMAIN ScanOf(m, C)
  BY <1>1, Zenon
<1>3. \A rid \in DOMAIN ScanOf(m, C) : ScanOf(w, C)[rid] = ScanOf(m, C)[rid]
  <2> SUFFICES ASSUME NEW rid \in DOMAIN ScanOf(m, C) PROVE ScanOf(w, C)[rid] = ScanOf(m, C)[rid]
    BY Zenon
  <2>1. rid[1] \in C /\ rid[2] \in LiveSlots(m[rid[1]])
    BY ScanOfFacts, Zenon
  <2>2. /\ ScanOf(m, C)[rid] = GetRecord(m[rid[1]], rid[2])
        /\ ScanOf(w, C)[rid] = GetRecord(w[rid[1]], rid[2])
    BY <1>2, ScanOfFacts
  <2>3. QED
    BY <2>1, <2>2, Zenon DEF SameRecords
<1>4. /\ ScanOf(m, C) = [rid \in DOMAIN ScanOf(m, C) |-> ScanOf(m, C)[rid]]
      /\ ScanOf(w, C) = [rid \in DOMAIN ScanOf(w, C) |-> ScanOf(w, C)[rid]]
  BY ScanOfFacts, Zenon
<1>5. QED
  BY <1>2, <1>3, <1>4, Zenon

\* A record is put into a slot of a page of the chain.
LEMMA ScanPut ==
  ASSUME NEW m, NEW C, NEW w, NEW p \in C, NEW s, NEW r, Put(m[p], w[p], s, r),
         \A q \in C \ {p} : w[q] = m[q]
  PROVE  ScanOf(w, C) = WithRecord(ScanOf(m, C), <<p, s>>, r)
<1> DEFINE S == ScanOf(m, C)
           T == ScanOf(w, C)
<1>1. /\ \A rid : rid \in DOMAIN S <=> /\ rid[1] \in C /\ rid[2] \in LiveSlots(m[rid[1]])
                                       /\ rid = <<rid[1], rid[2]>>
      /\ \A rid \in DOMAIN S : S[rid] = GetRecord(m[rid[1]], rid[2])
      /\ \A rid : rid \in DOMAIN T <=> /\ rid[1] \in C /\ rid[2] \in LiveSlots(w[rid[1]])
                                       /\ rid = <<rid[1], rid[2]>>
      /\ \A rid \in DOMAIN T : T[rid] = GetRecord(w[rid[1]], rid[2])
      /\ T = [rid \in DOMAIN T |-> T[rid]]
  BY ScanOfFacts
<1> HIDE DEF S, T
<1>2. \A rid : rid \in DOMAIN T <=> rid \in DOMAIN S \/ rid = <<p, s>>
  BY <1>1 DEF Put
<1>3. \A rid \in DOMAIN T : T[rid] = IF rid = <<p, s>> THEN r ELSE S[rid]
  <2> SUFFICES ASSUME NEW rid \in DOMAIN T PROVE T[rid] = IF rid = <<p, s>> THEN r ELSE S[rid]
    BY Zenon
  <2>1. T[rid] = GetRecord(w[rid[1]], rid[2]) /\ rid = <<rid[1], rid[2]>>
    BY <1>1, Zenon
  <2>2. CASE rid = <<p, s>>
    BY <2>1, <2>2, Zenon DEF Put
  <2>3. CASE rid # <<p, s>>
    <3>1. /\ S[rid] = GetRecord(m[rid[1]], rid[2])
          /\ rid[1] \in C /\ rid[2] \in LiveSlots(m[rid[1]])
      BY <1>1, <1>2, <2>3, Zenon
    <3>2. rid[1] # p \/ rid[2] # s
      BY <2>1, <2>3, Zenon
    <3>3. GetRecord(w[rid[1]], rid[2]) = GetRecord(m[rid[1]], rid[2])
      BY <3>1, <3>2, Zenon DEF Put
    <3>4. QED
      BY <2>1, <2>3, <3>1, <3>3, Zenon
  <2>4. QED
    BY <2>2, <2>3, Zenon
<1>4. DOMAIN T = DOMAIN S \cup {<<p, s>>}
  BY <1>2, Zenon
<1>5. T = WithRecord(S, <<p, s>>, r)
  BY <1>1, <1>3, <1>4 DEF WithRecord
<1>6. QED
  BY <1>5, Zenon DEF S, T

\* A record is deleted from a page of the chain.
LEMMA ScanDrop ==
  ASSUME NEW m, NEW C, NEW w, NEW p \in C, NEW s, Dropped(m[p], w[p], s),
         \A q \in C \ {p} : w[q] = m[q]
  PROVE  ScanOf(w, C) = WithoutRecord(ScanOf(m, C), <<p, s>>)
<1> DEFINE S == ScanOf(m, C)
           T == ScanOf(w, C)
<1>1. /\ \A rid : rid \in DOMAIN S <=> /\ rid[1] \in C /\ rid[2] \in LiveSlots(m[rid[1]])
                                       /\ rid = <<rid[1], rid[2]>>
      /\ \A rid \in DOMAIN S : S[rid] = GetRecord(m[rid[1]], rid[2])
      /\ \A rid : rid \in DOMAIN T <=> /\ rid[1] \in C /\ rid[2] \in LiveSlots(w[rid[1]])
                                       /\ rid = <<rid[1], rid[2]>>
      /\ \A rid \in DOMAIN T : T[rid] = GetRecord(w[rid[1]], rid[2])
      /\ T = [rid \in DOMAIN T |-> T[rid]]
  BY ScanOfFacts
<1> HIDE DEF S, T
<1>2. \A rid : rid \in DOMAIN T <=> rid \in DOMAIN S /\ rid # <<p, s>>
  BY <1>1 DEF Dropped
<1>3. \A rid \in DOMAIN T : T[rid] = S[rid]
  <2> SUFFICES ASSUME NEW rid \in DOMAIN T PROVE T[rid] = S[rid]
    BY Zenon
  <2>1. /\ T[rid] = GetRecord(w[rid[1]], rid[2]) /\ rid[1] \in C /\ rid[2] \in LiveSlots(w[rid[1]])
        /\ S[rid] = GetRecord(m[rid[1]], rid[2])
    BY <1>1, <1>2, Zenon
  <2>2. QED
    BY <2>1, Zenon DEF Dropped
<1>4. DOMAIN T = DOMAIN S \ {<<p, s>>}
  BY <1>2, Zenon
<1>5. T = WithoutRecord(S, <<p, s>>)
  BY <1>1, <1>3, <1>4 DEF WithoutRecord
<1>6. QED
  BY <1>5, Zenon DEF S, T

\* The chain gets a page without records.
LEMMA ScanEmptyPage ==
  ASSUME NEW m, NEW C, NEW w, NEW n, LiveSlots(w[n]) = {}, n \notin C,
         \A q \in C : SameRecords(m[q], w[q])
  PROVE  ScanOf(w, C \cup {n}) = ScanOf(m, C)
<1> DEFINE D == C \cup {n}
           S == ScanOf(w, C)
           T == ScanOf(w, D)
<1>1. /\ \A rid : rid \in DOMAIN S <=> /\ rid[1] \in C /\ rid[2] \in LiveSlots(w[rid[1]])
                                       /\ rid = <<rid[1], rid[2]>>
      /\ \A rid \in DOMAIN S : S[rid] = GetRecord(w[rid[1]], rid[2])
      /\ \A rid : rid \in DOMAIN T <=> /\ rid[1] \in D /\ rid[2] \in LiveSlots(w[rid[1]])
                                       /\ rid = <<rid[1], rid[2]>>
      /\ \A rid \in DOMAIN T : T[rid] = GetRecord(w[rid[1]], rid[2])
      /\ T = [rid \in DOMAIN T |-> T[rid]]
      /\ S = [rid \in DOMAIN S |-> S[rid]]
  BY ScanOfFacts
<1> HIDE DEF S, T
<1>2. \A rid : rid \in DOMAIN T <=> rid \in DOMAIN S
  BY <1>1, Zenon
<1>3. DOMAIN S = DOMAIN T /\ \A rid \in DOMAIN T : T[rid] = S[rid]
  BY <1>1, <1>2, Zenon
<1>4. T = S
  BY <1>1, <1>3, Zenon
<1>5. S = ScanOf(m, C)
  BY ScanSame, Zenon DEF S
<1>6. QED
  BY <1>4, <1>5, Zenon DEF T

-----------------------------------------------------------------------------
(* The inductive invariant of the chains.  All of it holds for any heap     *)
(* files as long as the process does not die, and for one heap file         *)
(* whatever happens.                                                        *)

OnlyFile(f) == \A g \in Files : g = f

DiskChain(f) == Reached(disk, first_page_id[f], page_count)

Links(n) == {kInvalidPageId} \cup 0 .. n - 1

\* The header is on disk as AllocatePage left it.  A page has a next page of
\* the file or none, and once it is on disk it keeps it: what is on disk is a
\* page of zeros, a page that was the last one, or has the present link.
LinkInv ==
  /\ disk[0] = HeaderPage(page_count)
  /\ pages[0].slots = <<>> /\ pages[0].free = 0
  /\ \A p \in 1 .. page_count - 1 :
        /\ pages[p].next \in Links(page_count)
        /\ disk[p].next \in {pages[p].next, kInvalidPageId, 0}

\* Chains do not meet.  One that runs into the header, after a crash, ends
\* there: no page can be added to it any more.
ChainInv ==
  \A f \in Files :
    /\ first_page_id[f] \in Links(page_count) \ {0}
    /\ first_page_id[f] # kInvalidPageId => last_insert_page_id[f] \in Chain(f)
    /\ 0 \in Chain(f) => OnlyFile(f) /\ pages[0].next = page_count
    /\ \A g \in Files : f # g => Chain(f) \cap Chain(g) = {}

\* An insert is on a page of its chain, or behind one.
OpInv ==
  op # NoOp =>
    /\ first_page_id[op.file] # kInvalidPageId
    /\ IF op.prev = kInvalidPageId
       THEN op.current \in Chain(op.file)
       ELSE op.prev \in Chain(op.file) /\ op.current = pages[op.prev].next

RowsInv == rows = [f \in Files |-> Scan(f)]

Holds(pg, s, r) == s \in LiveSlots(pg) /\ GetRecord(pg, s) = r

\* A record that was flushed and not changed since is on the chain in the
\* pool and on the chain on disk.
SafeInv ==
  /\ safe = [f \in Files |-> safe[f]]
  /\ \A f \in Files : safe[f] = [rid \in DOMAIN safe[f] |-> safe[f][rid]]
  /\ \A f \in Files : \A rid \in DOMAIN safe[f] :
       /\ rid = <<rid[1], rid[2]>>
       /\ rid[1] \in Chain(f) /\ rid[1] \in DiskChain(f)
       /\ Holds(pages[rid[1]], rid[2], safe[f][rid])
       /\ Holds(disk[rid[1]], rid[2], safe[f][rid])

ShapeInv == HeapInv /\ LinkInv /\ ChainInv /\ OpInv

StoreInv == ShapeInv /\ RowsInv /\ SafeInv

\* The types and facts that the steps below use.
LEMMA ShapeFacts ==
  ASSUME ShapeInv
  PROVE  /\ pages \in [PageIds -> PageType] /\ disk \in [PageIds -> PageType]
         /\ page_count \in Nat /\ page_count >= 1 /\ page_count <= MaxPages /\ MaxPages \in Nat
         /\ 0 .. page_count - 1 \subseteq PageIds /\ PageIds = 0 .. MaxPages - 1
         /\ \A f \in Files : Chain(f) \subseteq 0 .. page_count - 1 /\ DiskChain(f) \subseteq 0 .. page_count - 1
         /\ \A p \in 0 .. page_count - 1 : GoodPage(pages[p]) /\ GoodPage(disk[p])
         /\ LiveSlots(pages[0]) = {} /\ LiveSlots(disk[0]) = {}
<1>1. HeapInv /\ LinkInv
  BY Zenon DEF ShapeInv
<1>2. /\ pages \in [PageIds -> PageType] /\ disk \in [PageIds -> PageType]
      /\ page_count \in 1 .. MaxPages
      /\ \A p \in PageIds : GoodPage(pages[p]) /\ GoodPage(disk[p])
  BY <1>1, Zenon DEF HeapInv, PagesGood
<1>3. /\ page_count \in Nat /\ page_count >= 1 /\ page_count <= MaxPages /\ MaxPages \in Nat
      /\ 0 .. page_count - 1 \subseteq PageIds /\ PageIds = 0 .. MaxPages - 1
  BY <1>2, FileAssumption DEF PageIds
<1>4. \A f \in Files : Chain(f) \subseteq 0 .. page_count - 1 /\ DiskChain(f) \subseteq 0 .. page_count - 1
  BY <1>3, ReachedClosed, Zenon DEF Chain, DiskChain
<1>5. LiveSlots(pages[0]) = {} /\ LiveSlots(disk[0]) = {}
  BY <1>1 DEF LinkInv, LiveSlots, HeaderPage
<1>6. QED
  BY <1>2, <1>3, <1>4, <1>5, Zenon

\* A heap file begins with nothing.
LEMMA StoreInit == Init => StoreInv
<1> SUFFICES ASSUME Init PROVE StoreInv
  BY Zenon
<1>1. HeapInv
  BY HeapInvInit, Zenon
<1>2. page_count = 1 /\ 0 \in PageIds
  BY FileAssumption DEF Init, PageIds
<1>3. LinkInv
  BY <1>2 DEF Init, LinkInv, HeaderPage
<1>4. \A f \in Files : first_page_id[f] = -1 /\ Chain(f) = {} /\ DiskChain(f) = {}
  BY <1>2, ReachedNone DEF Init, Chain, DiskChain, kInvalidPageId
<1>5. ChainInv
  BY <1>2, <1>4 DEF ChainInv, Links, kInvalidPageId
<1>6. OpInv
  BY Zenon DEF Init, OpInv
<1>7. RowsInv
  <2>1. ASSUME NEW f \in Files PROVE Scan(f) = <<>>
    <3>1. Scan(f) = [rid \in {} |-> GetRecord(pages[rid[1]], rid[2])]
      <4>1. UNION {{p} \X LiveSlots(pages[p]) : p \in Chain(f)} = {}
        BY <1>4, Zenon
      <4>2. QED
        BY <4>1, Zenon DEF Scan
    <3>2. QED
      BY <3>1
  <2>2. QED
    BY <2>1, Zenon DEF Init, RowsInv
<1>8. SafeInv
  <2>1. \A f \in Files : safe[f] = <<>> /\ DOMAIN safe[f] = {}
    BY DEF Init
  <2>2. \A f \in Files : safe[f] = [rid \in DOMAIN safe[f] |-> safe[f][rid]]
    BY <2>1
  <2>3. safe = [f \in Files |-> safe[f]]
    BY Zenon DEF Init
  <2>4. QED
    BY <2>1, <2>2, <2>3, Zenon DEF SafeInv
<1>9. QED
  BY <1>1, <1>3, <1>5, <1>6, <1>7, <1>8, Zenon DEF StoreInv, ShapeInv

-----------------------------------------------------------------------------
(* Steps that change the records of one page. *)

Edited(p, q) ==
  /\ p \in 1 .. page_count - 1
  /\ pages' = [pages EXCEPT ![p] = q]
  /\ q.next = pages[p].next
  /\ disk' = disk /\ page_count' = page_count /\ first_page_id' = first_page_id

\* No link changes, and so no chain does.
LEMMA EditedChains ==
  ASSUME ShapeInv, NEW p, NEW q, Edited(p, q)
  PROVE  /\ LinkInv'
         /\ \A f \in Files : Chain(f)' = Chain(f) /\ DiskChain(f)' = DiskChain(f)
         /\ pages'[p] = q /\ \A x \in 0 .. page_count - 1 : x # p => pages'[x] = pages[x]
         /\ \A x \in 0 .. page_count - 1 : pages'[x].next = pages[x].next
<1>1. /\ pages \in [PageIds -> PageType] /\ page_count \in Nat /\ page_count >= 1
      /\ 0 .. page_count - 1 \subseteq PageIds
      /\ \A f \in Files : Chain(f) \subseteq 0 .. page_count - 1
  BY ShapeFacts, Zenon
<1>2. p \in 0 .. page_count - 1 /\ p # 0
  BY <1>1 DEF Edited
<1>3. pages'[p] = q /\ \A x \in 0 .. page_count - 1 : x # p => pages'[x] = pages[x]
  BY <1>1, <1>2, Zenon DEF Edited
<1>4. \A x \in 0 .. page_count - 1 : pages'[x].next = pages[x].next
  BY <1>3, Zenon DEF Edited
<1>5. 1 .. page_count - 1 \subseteq 0 .. page_count - 1 /\ 0 \in 0 .. page_count - 1
  BY <1>1
<1>6. LinkInv'
  <2>1. pages'[0] = pages[0]
    BY <1>2, <1>3, <1>5, Zenon
  <2>2. LinkInv
    BY Zenon DEF ShapeInv
  <2>3. disk' = disk /\ page_count' = page_count
    BY Zenon DEF Edited
  <2>4. /\ disk'[0] = HeaderPage(page_count')
        /\ pages'[0].slots = <<>> /\ pages'[0].free = 0
    BY <2>1, <2>2, <2>3, Zenon DEF LinkInv
  <2>5. \A x \in 1 .. page_count' - 1 :
           /\ pages'[x].next \in Links(page_count')
           /\ disk'[x].next \in {pages'[x].next, kInvalidPageId, 0}
    BY <1>4, <1>5, <2>2, <2>3, Zenon DEF LinkInv
  <2>6. QED
    BY <2>4, <2>5, Zenon DEF LinkInv
<1>7. ASSUME NEW f \in Files PROVE Chain(f)' = Chain(f)
  <2>1. \A x \in Chain(f) : pages'[x].next = pages[x].next
    BY <1>1, <1>4, Zenon
  <2>2. Reached(pages', first_page_id[f], page_count) = Reached(pages, first_page_id[f], page_count)
    BY <1>1, <2>1, ReachedSame DEF Chain
  <2>3. QED
    BY <2>2, Zenon DEF Chain, Edited
<1>8. \A f \in Files : DiskChain(f)' = DiskChain(f)
  BY Zenon DEF DiskChain, Edited
<1>9. QED
  BY <1>3, <1>4, <1>6, <1>7, <1>8, Zenon

\* The rest of the shape, when the call ends or another begins.
LEMMA EditedShape ==
  ASSUME ShapeInv, NEW p, NEW q, Edited(p, q), HeapInv',
         NEW f \in Files, NEW x \in Chain(f),
         \/ last_insert_page_id' = last_insert_page_id
         \/ last_insert_page_id' = [last_insert_page_id EXCEPT ![f] = x],
         \/ op' = NoOp
         \/ \E r \in Records : op' = InsertCall(f, r) /\ first_page_id[f] # kInvalidPageId
  PROVE  ShapeInv'
<1>1. /\ LinkInv'
      /\ \A g \in Files : Chain(g)' = Chain(g)
      /\ \A y \in 0 .. page_count - 1 : pages'[y].next = pages[y].next
      /\ pages'[p] = q /\ \A y \in 0 .. page_count - 1 : y # p => pages'[y] = pages[y]
  BY EditedChains, Zenon
<1>2. /\ p \in 1 .. page_count - 1 /\ page_count' = page_count /\ first_page_id' = first_page_id
      /\ page_count \in Nat /\ page_count >= 1
  BY ShapeFacts, Zenon DEF Edited
<1>3. pages'[0] = pages[0]
  BY <1>1, <1>2
<1>4. \A g \in Files : last_insert_page_id'[g] = last_insert_page_id[g] \/ (g = f /\ last_insert_page_id'[g] = x)
  BY Zenon DEF ShapeInv, HeapInv
<1>5. ChainInv'
  <2>1. ChainInv
    BY Zenon DEF ShapeInv
  <2>2. ASSUME NEW g \in Files
        PROVE  /\ first_page_id'[g] \in Links(page_count') \ {0}
               /\ first_page_id'[g] # kInvalidPageId => last_insert_page_id'[g] \in Chain(g)'
               /\ 0 \in Chain(g)' => OnlyFile(g) /\ pages'[0].next = page_count'
               /\ \A h \in Files : g # h => Chain(g)' \cap Chain(h)' = {}
    BY <1>1, <1>2, <1>3, <1>4, <2>1 DEF ChainInv
  <2>3. QED
    BY <2>2, Zenon DEF ChainInv, OnlyFile
<1>6. OpInv'
  <2>1. CASE op' = NoOp
    BY <2>1, Zenon DEF OpInv
  <2>2. CASE \E r \in Records : op' = InsertCall(f, r) /\ first_page_id[f] # kInvalidPageId
    <3>1. PICK r \in Records : op' = InsertCall(f, r) /\ first_page_id[f] # kInvalidPageId
      BY <2>2, Zenon
    <3>2. op'.file = f /\ op'.prev = kInvalidPageId /\ op'.current = last_insert_page_id[f]
      BY <3>1, Zenon DEF InsertCall
    <3>3. last_insert_page_id[f] \in Chain(f)
      BY <3>1, Zenon DEF ShapeInv, ChainInv
    <3>4. QED
      BY <1>1, <1>2, <3>1, <3>2, <3>3, Zenon DEF OpInv
  <2>3. QED
    BY <2>1, <2>2, Zenon
<1>7. QED
  BY <1>1, <1>5, <1>6, Zenon DEF ShapeInv

\* Flushed records of which none was touched are still there.
LEMMA EditedSafe ==
  ASSUME StoreInv, NEW p, NEW q, Edited(p, q),
         safe' = [f \in Files |-> safe'[f]],
         \A f \in Files : safe'[f] = [rid \in DOMAIN safe'[f] |-> safe'[f][rid]],
         \A f \in Files : \A rid \in DOMAIN safe'[f] :
           /\ rid \in DOMAIN safe[f] /\ safe'[f][rid] = safe[f][rid]
           /\ rid[1] = p => Holds(q, rid[2], safe[f][rid])
  PROVE  SafeInv'
<1>1. /\ \A f \in Files : Chain(f)' = Chain(f) /\ DiskChain(f)' = DiskChain(f)
      /\ pages'[p] = q /\ \A x \in 0 .. page_count - 1 : x # p => pages'[x] = pages[x]
  BY EditedChains DEF StoreInv
<1>2. \A f \in Files : Chain(f) \subseteq 0 .. page_count - 1
  BY ShapeFacts, Zenon DEF StoreInv
<1>3. disk' = disk
  BY Zenon DEF Edited
<1>4. ASSUME NEW f \in Files, NEW rid \in DOMAIN safe'[f]
      PROVE  /\ rid = <<rid[1], rid[2]>>
             /\ rid[1] \in Chain(f)' /\ rid[1] \in DiskChain(f)'
             /\ Holds(pages'[rid[1]], rid[2], safe'[f][rid])
             /\ Holds(disk'[rid[1]], rid[2], safe'[f][rid])
  <2>1. /\ rid \in DOMAIN safe[f] /\ safe'[f][rid] = safe[f][rid]
        /\ rid[1] = p => Holds(q, rid[2], safe[f][rid])
    BY Zenon
  <2>2. /\ rid = <<rid[1], rid[2]>>
        /\ rid[1] \in Chain(f) /\ rid[1] \in DiskChain(f)
        /\ Holds(pages[rid[1]], rid[2], safe[f][rid])
        /\ Holds(disk[rid[1]], rid[2], safe[f][rid])
    BY <2>1, Zenon DEF StoreInv, SafeInv
  <2>3. Holds(pages'[rid[1]], rid[2], safe[f][rid])
    BY <1>1, <1>2, <2>1, <2>2, Zenon
  <2>4. QED
    BY <1>1, <1>3, <2>1, <2>2, <2>3, Zenon
<1>5. QED
  BY <1>4, Zenon DEF SafeInv, Holds

\* What callers hold ids for is what the scans show.
LEMMA RowsAreScans ==
  ASSUME RowsInv
  PROVE  /\ rows = [f \in Files |-> rows[f]]
         /\ \A f \in Files : rows[f] = ScanOf(pages, Chain(f))
<1>1. rows = [f \in Files |-> Scan(f)]
  BY Zenon DEF RowsInv
<1>2. \A f \in Files : rows[f] = Scan(f)
  BY <1>1, Zenon
<1>3. rows = [f \in Files |-> rows[f]]
  BY <1>1, <1>2, Zenon
<1>4. QED
  BY <1>2, <1>3, Zenon DEF Scan, ScanOf

\* And the other way round, in the next state.
LEMMA ScansAreRows ==
  ASSUME rows' = [f \in Files |-> rows'[f]],
         \A f \in Files : rows'[f] = ScanOf(pages', Chain(f)')
  PROVE  RowsInv'
<1>1. \A f \in Files : Scan(f)' = ScanOf(pages', Chain(f)')
  BY Zenon DEF Scan, ScanOf
<1>2. \A f \in Files : rows'[f] = Scan(f)'
  BY <1>1, Zenon
<1>3. QED
  BY <1>2, Zenon DEF RowsInv

\* The history of the records of the files when one is dropped.
LEMMA ForgetFacts ==
  ASSUME NEW m, NEW rid
  PROVE  /\ Forget(m, rid) = [g \in Files |-> Forget(m, rid)[g]]
         /\ \A g \in Files : Forget(m, rid)[g] = WithoutRecord(m[g], rid)
<1>1. Forget(m, rid) = [g \in Files |-> WithoutRecord(m[g], rid)]
  BY Zenon DEF Forget, WithoutRecord
<1>2. QED
  BY <1>1, Zenon

\* The history of the records of the files when one is put.
LEMMA RememberFacts ==
  ASSUME NEW m, NEW f \in Files, NEW rid, NEW r, m = [g \in Files |-> m[g]]
  PROVE  /\ Remember(m, f, rid, r) = [g \in Files |-> Remember(m, f, rid, r)[g]]
         /\ Remember(m, f, rid, r)[f] = WithRecord(m[f], rid, r)
         /\ \A g \in Files \ {f} : Remember(m, f, rid, r)[g] = m[g]
<1> DEFINE v == [x \in DOMAIN m[f] \cup {rid} |-> IF x = rid THEN r ELSE m[f][x]]
<1>1. Remember(m, f, rid, r) = [m EXCEPT ![f] = v]
  BY Zenon DEF Remember
<1>2. v = WithRecord(m[f], rid, r)
  BY Zenon DEF WithRecord
<1> HIDE DEF v
<1>3. DOMAIN m = Files
  BY Zenon
<1>4. QED
  BY <1>1, <1>2, <1>3, Zenon

\* A record put into a page of a chain is one more that its scan shows.
LEMMA EditedPut ==
  ASSUME StoreInv, NEW p, NEW q, Edited(p, q), NEW f \in Files, p \in Chain(f),
         NEW s, NEW r, Put(pages[p], q, s, r), rows' = Remember(rows, f, <<p, s>>, r)
  PROVE  RowsInv'
<1>1. /\ \A g \in Files : Chain(g)' = Chain(g)
      /\ pages'[p] = q /\ \A x \in 0 .. page_count - 1 : x # p => pages'[x] = pages[x]
  BY EditedChains, Zenon DEF StoreInv
<1>2. \A g \in Files : Chain(g) \subseteq 0 .. page_count - 1
  BY ShapeFacts, Zenon DEF StoreInv
<1>3. /\ rows = [g \in Files |-> rows[g]]
      /\ \A g \in Files : rows[g] = ScanOf(pages, Chain(g))
  BY RowsAreScans, Zenon DEF StoreInv
<1>4. /\ rows' = [g \in Files |-> rows'[g]]
      /\ rows'[f] = WithRecord(rows[f], <<p, s>>, r)
      /\ \A g \in Files \ {f} : rows'[g] = rows[g]
  BY <1>3, RememberFacts
<1>5. rows'[f] = ScanOf(pages', Chain(f)')
  <2>1. \A x \in Chain(f) \ {p} : pages'[x] = pages[x]
    BY <1>1, <1>2, Zenon
  <2>2. ScanOf(pages', Chain(f)) = WithRecord(ScanOf(pages, Chain(f)), <<p, s>>, r)
    BY <1>1, <2>1, ScanPut
  <2>3. QED
    BY <1>1, <1>3, <1>4, <2>2, Zenon
<1>6. ASSUME NEW g \in Files \ {f} PROVE rows'[g] = ScanOf(pages', Chain(g)')
  <2>1. p \notin Chain(g)
    BY Zenon DEF StoreInv, ShapeInv, ChainInv
  <2>2. \A x \in Chain(g) : SameRecords(pages[x], pages'[x])
    BY <1>1, <1>2, <2>1, Zenon DEF SameRecords
  <2>3. QED
    BY <1>1, <1>3, <1>4, <2>2, ScanSame
<1>7. QED
  BY <1>4, <1>5, <1>6, ScansAreRows, Zenon

\* A record dropped from a page of a chain is one less that its scan shows.
LEMMA EditedDrop ==
  ASSUME StoreInv, NEW p, NEW q, Edited(p, q), NEW f \in Files, p \in Chain(f),
         NEW s, Dropped(pages[p], q, s), rows' = Forget(rows, <<p, s>>)
  PROVE  RowsInv' /\ \A g \in Files \ {f} : rows'[g] = rows[g]
<1>1. /\ \A g \in Files : Chain(g)' = Chain(g)
      /\ pages'[p] = q /\ \A x \in 0 .. page_count - 1 : x # p => pages'[x] = pages[x]
  BY EditedChains, Zenon DEF StoreInv
<1>2. \A g \in Files : Chain(g) \subseteq 0 .. page_count - 1
  BY ShapeFacts, Zenon DEF StoreInv
<1>3. /\ rows = [g \in Files |-> rows[g]]
      /\ \A g \in Files : rows[g] = ScanOf(pages, Chain(g))
  BY RowsAreScans, Zenon DEF StoreInv
<1>4. /\ rows' = [g \in Files |-> rows'[g]]
      /\ \A g \in Files : rows'[g] = WithoutRecord(rows[g], <<p, s>>)
  BY ForgetFacts, Zenon
<1>5. rows'[f] = ScanOf(pages', Chain(f)')
  <2>1. \A x \in Chain(f) \ {p} : pages'[x] = pages[x]
    BY <1>1, <1>2, Zenon
  <2>2. Dropped(pages[p], pages'[p], s)
    BY <1>1, Zenon
  <2>3. ScanOf(pages', Chain(f)) = WithoutRecord(ScanOf(pages, Chain(f)), <<p, s>>)
    BY <2>1, <2>2, ScanDrop
  <2>4. QED
    BY <1>1, <1>3, <1>4, <2>3, Zenon
<1>6. ASSUME NEW g \in Files \ {f} PROVE rows'[g] = ScanOf(pages', Chain(g)') /\ rows'[g] = rows[g]
  <2>1. p \notin Chain(g)
    BY Zenon DEF StoreInv, ShapeInv, ChainInv
  <2>2. \A x \in Chain(g) : SameRecords(pages[x], pages'[x])
    BY <1>1, <1>2, <2>1, Zenon DEF SameRecords
  <2>3. rows[g] = ScanOf(pages', Chain(g)')
    BY <1>1, <1>3, <2>2, ScanSame
  <2>4. <<p, s>> \notin DOMAIN rows[g]
    BY <1>3, <2>1, ScanOfFacts
  <2>5. rows[g] = [rid \in DOMAIN rows[g] |-> rows[g][rid]]
    BY <1>3, ScanOfFacts
  <2>6. WithoutRecord(rows[g], <<p, s>>) = rows[g]
    <3>1. DOMAIN rows[g] \ {<<p, s>>} = DOMAIN rows[g]
      BY <2>4, Zenon
    <3>2. QED
      BY <2>5, <3>1, Zenon DEF WithoutRecord
  <2>7. QED
    BY <1>4, <2>3, <2>6, Zenon
<1>7. QED
  BY <1>4, <1>5, <1>6, ScansAreRows, Zenon
=============================================================================
