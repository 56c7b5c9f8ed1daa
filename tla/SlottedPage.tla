----------------------------- MODULE SlottedPage -----------------------------
(***************************************************************************)
(* A page of records (storage/slotted_page.hpp): a header, a directory of  *)
(* slots that grows up, and records that grow down from the end.           *)
(*                                                                         *)
(* A record stands for its bytes by a value and a length.  A slot carries  *)
(* the record that was copied to its offset; that no later copy overlaps   *)
(* it is the property RegionsDisjoint.                                     *)
(***************************************************************************)
EXTENDS Integers, Sequences

CONSTANTS PageSize, Values, Lengths

kHeaderSize == 12
kSlotSize == 4
kInvalidPageId == -1
kMaxUint16 == 65535

\* The page has room for a header and is addressed by 16-bit offsets; a
\* record that RecordCodec or the catalog encodes has at least one byte.
ASSUME PageAssumption ==
  /\ PageSize \in kHeaderSize .. kMaxUint16
  /\ Lengths \subseteq 1 .. kMaxUint16

Records == [val : Values, len : Lengths]

\* length 0 marks a deleted record; its old bytes stay where they are.
Slot == [offset : 0 .. PageSize, length : 0 .. kMaxUint16, rec : Records]

Page == [next : Int, slots : Seq(Slot), free : 0 .. PageSize]

InitPage == [next |-> kInvalidPageId, slots |-> <<>>, free |-> PageSize]

SetNextPageId(pg, p) == [pg EXCEPT !.next = p]

DirectoryEnd(pg) == kHeaderSize + Len(pg.slots) * kSlotSize

IsTombstoned(pg, s) == s \notin DOMAIN pg.slots \/ pg.slots[s].length = 0

Tombstones(pg) == {s \in DOMAIN pg.slots : pg.slots[s].length = 0}

\* The slot a record gets: the first deleted one, else a new one.
SlotForInsert(pg) ==
  IF Tombstones(pg) = {}
  THEN Len(pg.slots) + 1
  ELSE CHOOSE s \in Tombstones(pg) : \A t \in Tombstones(pg) : s <= t

\* Mutant: the free space is taken to begin behind the present directory
\* even when the directory has to grow.
FitsWithoutGrowth(pg, r) == pg.free >= DirectoryEnd(pg) + r.len

Fits(pg, r) ==
  LET growth == IF Tombstones(pg) = {} THEN kSlotSize ELSE 0
  IN  pg.free >= DirectoryEnd(pg) + growth + r.len

WithSlot(slots, s, slot) ==
  IF s \in DOMAIN slots THEN [slots EXCEPT ![s] = slot] ELSE Append(slots, slot)

InsertRecord(pg, r) ==
  LET new_offset == pg.free - r.len
  IN  [pg EXCEPT
        !.slots = WithSlot(@, SlotForInsert(pg),
                    [offset |-> new_offset, length |-> r.len, rec |-> r]),
        !.free = new_offset]

\* Mutant: the directory is cut at the slot, live ones behind it or not.
DeleteCutsDirectory(pg, s) == [pg EXCEPT !.slots = SubSeq(@, 1, s - 1)]

DeleteRecord(pg, s) == [pg EXCEPT !.slots[s].length = 0]

UpdatesInPlace(pg, s, r) == ~IsTombstoned(pg, s) /\ r.len <= pg.slots[s].length

UpdateRecordInPlace(pg, s, r) ==
  [pg EXCEPT !.slots[s].length = r.len, !.slots[s].rec = r]

GetRecord(pg, s) == pg.slots[s].rec

LiveSlots(pg) == {s \in DOMAIN pg.slots : ~IsTombstoned(pg, s)}
=============================================================================
