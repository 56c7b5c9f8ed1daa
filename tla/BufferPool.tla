----------------------------- MODULE BufferPool -----------------------------
(***************************************************************************)
(* The buffer pool (src/buffer/buffer_pool.cpp, frame.hpp and the LRU      *)
(* replacer) over the data file of PageManager.tla.                        *)
(*                                                                         *)
(* Every operation runs under BufferPool::mutex_, so each is one action.   *)
(* A client (heap file, B+ tree) keeps the Page* that FetchPage or NewPage *)
(* gave it, writes through it without the mutex, and gives the pin back    *)
(* with UnpinPage, saying that the page is dirty if it wrote.  A client    *)
(* holds at most one pin of a page at a time.                              *)
(*                                                                         *)
(* The process may crash at any point; FlushPage followed by Crash covers  *)
(* a crash in the middle of an eviction or of FlushAll, and Crash alone    *)
(* one between the two writes of AllocatePage, since the page written past *)
(* the header's count is blanked again when its id is next handed out.     *)
(***************************************************************************)
EXTENDS PageManager, Lists, FiniteSets

CONSTANTS
  PoolSize,   \* number of frames
  Clients,    \* threads that use the pool
  Unreadable  \* what a read that is refused returns (nullptr)

ASSUME BufferPoolAssumption ==
  /\ PoolSize \in Nat \ {0}
  /\ IsFiniteSet(Clients)
  /\ Unreadable \notin Content

VARIABLES
  up,          \* the process runs
  frames,      \* frames_: [page_id, pin_count, is_dirty, page]
  page_table,  \* page_table_; NoFrame for an absent key
  free_list,   \* free_list_, used at its end
  lru_list,    \* LRUReplacer::lru_list_, most recently unpinned first
  ptr,         \* ptr[c][p]: the frame client c has a Page* into for page p
  wrote        \* wrote[c][p]: c has written through that pointer

poolVars == <<frames, page_table, free_list, lru_list>>
clientVars == <<ptr, wrote>>
vars == <<file, next_page_id, page_count, up, poolVars, clientVars>>

Frames == 0..PoolSize - 1
NoFrame == -1
kInvalidPageId == -1

ResetFrame == [page_id |-> kInvalidPageId, pin_count |-> 0, is_dirty |-> FALSE, page |-> Blank]

FrameRecords == [page_id : PageIds \cup {kInvalidPageId}, pin_count : Nat,
                 is_dirty : BOOLEAN, page : Content]

TypeOK ==
  /\ file \in Files
  /\ next_page_id \in 0..MaxPages + 1
  /\ page_count \in 0..MaxPages + 1
  /\ up \in BOOLEAN
  /\ frames \in [Frames -> FrameRecords]
  /\ page_table \in [PageIds -> Frames \cup {NoFrame}]
  /\ free_list \in Seq(Frames)
  /\ lru_list \in Seq(Frames)
  /\ ptr \in [Clients -> [PageIds -> Frames \cup {NoFrame}]]
  /\ wrote \in [Clients -> [PageIds -> BOOLEAN]]
-----------------------------------------------------------------------------
\* The constructor: every frame is free.
EmptyPool ==
  /\ frames' = [f \in Frames |-> ResetFrame]
  /\ page_table' = [p \in PageIds |-> NoFrame]
  /\ free_list' = [i \in 1..PoolSize |-> i - 1]
  /\ lru_list' = <<>>

NoPointers ==
  /\ ptr' = [c \in Clients |-> [p \in PageIds |-> NoFrame]]
  /\ wrote' = [c \in Clients |-> [p \in PageIds |-> FALSE]]

Init ==
  /\ PMInit
  /\ up = FALSE
  /\ frames = [f \in Frames |-> ResetFrame]
  /\ page_table = [p \in PageIds |-> NoFrame]
  /\ free_list = [i \in 1..PoolSize |-> i - 1]
  /\ lru_list = <<>>
  /\ ptr = [c \in Clients |-> [p \in PageIds |-> NoFrame]]
  /\ wrote = [c \in Clients |-> [p \in PageIds |-> FALSE]]

\* Mutant: a hit leaves the frame in the replacer.
LRUPinForgotten(f) == UNCHANGED lru_list

\* LRUReplacer: Pin takes the frame out of the list if it is there, Unpin puts
\* it at the front unless it is there already.
LRUPin(f) == lru_list' = RemoveFirst(lru_list, f)

LRUUnpin(f) ==
  lru_list' = IF f \in Range(lru_list) THEN lru_list ELSE <<f>> \o lru_list

\* FindVictimFrame: the last free frame, else the least recently unpinned one.
HasVictim == free_list # <<>> \/ lru_list # <<>>

VictimFrame ==
  IF free_list # <<>> THEN Last(free_list) ELSE Last(lru_list)

FreeAfterVictim == IF free_list # <<>> THEN Front(free_list) ELSE free_list
LRUAfterVictim == IF free_list # <<>> THEN lru_list ELSE Front(lru_list)

\* Mutant: a dirty victim is dropped.
WriteBackForgotten(g, f) == {g}

\* Eviction writes a dirty page back and does not look at the status.
WriteBack(g, f) ==
  IF frames[f].page_id # kInvalidPageId /\ frames[f].is_dirty
  THEN {w.file : w \in WritePage(g, frames[f].page_id, frames[f].page)}
  ELSE {g}

\* Mutant: the victim's entry stays in the page table.
TableKeepsVictim(f) == page_table

TableWithoutVictim(f) ==
  IF frames[f].page_id # kInvalidPageId
  THEN [page_table EXCEPT ![frames[f].page_id] = NoFrame]
  ELSE page_table

\* Mutants: the caller's flag replaces the dirty bit; one unpin drops all pins.
UnpinnedOverwritesDirty(fr, d) == [fr EXCEPT !.is_dirty = d, !.pin_count = @ - 1]
UnpinnedDropsAll(fr, d) == [fr EXCEPT !.is_dirty = @ \/ d, !.pin_count = 0]

\* The frame after UnpinPage.
Unpinned(fr, d) == [fr EXCEPT !.is_dirty = @ \/ d, !.pin_count = @ - 1]
-----------------------------------------------------------------------------
\* FetchPage of a resident page: a pin, and out of the replacer if it was there.
FetchHit(c, p) ==
  LET f == page_table[p]
  IN  /\ up /\ ptr[c][p] = NoFrame
      /\ f # NoFrame
      /\ IF frames[f].pin_count = 0 THEN LRUPin(f) ELSE UNCHANGED lru_list
      /\ frames' = [frames EXCEPT ![f].pin_count = @ + 1]
      /\ ptr' = [ptr EXCEPT ![c][p] = f]
      /\ UNCHANGED <<file, next_page_id, page_count, up, page_table, free_list, wrote>>

\* FetchPage of a page that is not resident, when a victim exists (when none
\* does the call returns nullptr and changes nothing).  The victim is gone from
\* the pool even when the read fails.
FetchMiss(c, p) ==
  LET f == VictimFrame
  IN  /\ up /\ ptr[c][p] = NoFrame
      /\ page_table[p] = NoFrame
      /\ HasVictim
      /\ lru_list' = LRUAfterVictim
      /\ \E g \in WriteBack(file, f) : \E r \in ReadPage(g, p) :
           /\ file' = r.file
           /\ IF r.ok
              THEN /\ frames' = [frames EXCEPT ![f] =
                                   [page_id |-> p, pin_count |-> 1,
                                    is_dirty |-> FALSE, page |-> g.pages[p]]]
                   /\ page_table' = [TableWithoutVictim(f) EXCEPT ![p] = f]
                   /\ free_list' = FreeAfterVictim
                   /\ ptr' = [ptr EXCEPT ![c][p] = f]
              ELSE /\ frames' = [frames EXCEPT ![f] = ResetFrame]
                   /\ page_table' = TableWithoutVictim(f)
                   /\ free_list' = Append(FreeAfterVictim, f)
                   /\ UNCHANGED ptr
      /\ UNCHANGED <<next_page_id, page_count, up, wrote>>

\* NewPage: the page is allocated before a frame is looked for, so with every
\* frame pinned the id is spent and nobody holds the page.
NewPage(c) ==
  LET f == VictimFrame
      p == next_page_id
  IN  /\ up
      /\ next_page_id <= MaxPages
      /\ BumpCounters
      /\ \E a \in AllocatePage(file) :
           IF a.ok /\ HasVictim
           THEN /\ file' \in WriteBack(a.file, f)
                /\ frames' = [frames EXCEPT ![f] =
                                [page_id |-> p, pin_count |-> 1,
                                 is_dirty |-> TRUE, page |-> Blank]]
                /\ page_table' = [TableWithoutVictim(f) EXCEPT ![p] = f]
                /\ free_list' = FreeAfterVictim
                /\ lru_list' = LRUAfterVictim
                /\ ptr' = [ptr EXCEPT ![c][p] = f]
           ELSE /\ file' = a.file
                /\ UNCHANGED <<poolVars, ptr>>
      /\ UNCHANGED <<up, wrote>>

\* A client writes through its pointer.
ClientWrite(c, p, v) ==
  LET f == ptr[c][p]
  IN  /\ up
      /\ f # NoFrame
      /\ frames' = [frames EXCEPT ![f].page = v]
      /\ wrote' = [wrote EXCEPT ![c][p] = TRUE]
      /\ UNCHANGED <<file, next_page_id, page_count, up, page_table, free_list, lru_list, ptr>>

\* UnpinPage(p, is_dirty) by a client that holds the pin; it returns false and
\* changes nothing for a page that is not resident or not pinned.
UnpinPage(c, p, is_dirty) ==
  LET f == page_table[p]
  IN  /\ up
      /\ ptr[c][p] # NoFrame
      /\ wrote[c][p] => is_dirty
      /\ f # NoFrame /\ frames[f].pin_count > 0
      /\ frames' = [frames EXCEPT ![f] = Unpinned(@, is_dirty)]
      /\ IF frames'[f].pin_count = 0 THEN LRUUnpin(f) ELSE UNCHANGED lru_list
      /\ ptr' = [ptr EXCEPT ![c][p] = NoFrame]
      /\ wrote' = [wrote EXCEPT ![c][p] = FALSE]
      /\ UNCHANGED <<file, next_page_id, page_count, up, page_table, free_list>>

\* FlushPage writes a resident page whether or not it is dirty or pinned.
FlushPage(p) ==
  LET f == page_table[p]
  IN  /\ up
      /\ f # NoFrame
      /\ \E w \in WritePage(file, p, frames[f].page) :
           /\ file' = w.file
           /\ frames' = IF w.ok THEN [frames EXCEPT ![f].is_dirty = FALSE] ELSE frames
      /\ UNCHANGED <<next_page_id, page_count, up, page_table, free_list, lru_list, clientVars>>

DirtyPages == {p \in PageIds : page_table[p] # NoFrame /\ frames[page_table[p]].is_dirty}

\* The file and the frames once the pages of S have been written back.
Written(S) ==
  [file EXCEPT !.pages = [p \in PageIds |->
     IF p \in S THEN frames[page_table[p]].page ELSE file.pages[p]]]
Cleaned(S) ==
  [f \in Frames |-> IF frames[f].page_id \in S
                    THEN [frames[f] EXCEPT !.is_dirty = FALSE] ELSE frames[f]]

\* FlushAll returns OK: every write of a dirty page did.
FlushAllOk ==
  /\ up
  /\ IF DirtyPages = {}
     THEN UNCHANGED file
     ELSE /\ ~file.failed
          /\ \E q \in DirtyPages :
               \E w \in WritePage(Written(DirtyPages \ {q}), q, frames[page_table[q]].page) :
                 w.ok /\ file' = w.file
  /\ frames' = Cleaned(DirtyPages)
  /\ UNCHANGED <<next_page_id, page_count, up, page_table, free_list, lru_list, clientVars>>

\* FlushAll stops at the first page it cannot write; the pages it reached
\* before that one (the iteration order of the hash table is unspecified) are
\* written and clean.
FlushAllError ==
  /\ up
  /\ \E q \in DirtyPages, S \in SUBSET DirtyPages :
       /\ q \notin S
       /\ file.failed => S = {}
       /\ \E w \in WritePage(Written(S), q, frames[page_table[q]].page) :
            /\ ~w.ok
            /\ file' = w.file
       /\ frames' = Cleaned(S)
  /\ UNCHANGED <<next_page_id, page_count, up, page_table, free_list, lru_list, clientVars>>

\* The process starts: the constructors of PageManager and BufferPool.
Open ==
  /\ ~up
  /\ up' = TRUE
  /\ \E o \in OpenFile(file) :
       /\ file' = o.file
       /\ next_page_id' = o.at.next
       /\ page_count' = o.at.count
  /\ EmptyPool
  /\ NoPointers

\* A crash between the creation of the file and the write of its header.
CrashInCreate ==
  /\ ~up
  /\ ~file.exists
  /\ file' = [file EXCEPT !.exists = TRUE]
  /\ UNCHANGED <<next_page_id, page_count, up, poolVars, clientVars>>

\* The process dies: all that was in memory is gone.
Crash ==
  /\ up
  /\ up' = FALSE
  /\ UNCHANGED <<file, next_page_id, page_count>>
  /\ EmptyPool
  /\ NoPointers

\* An orderly exit, no client holding a pin.  The pool has no destructor that
\* flushes: what FlushAll was not called for is gone.
Close ==
  /\ up
  /\ \A c \in Clients, p \in PageIds : ptr[c][p] = NoFrame
  /\ up' = FALSE
  /\ file' \in CloseFile(file)
  /\ UNCHANGED <<next_page_id, page_count>>
  /\ EmptyPool
  /\ NoPointers

ClientStep ==
  \/ \E c \in Clients, p \in PageIds :
       \/ FetchHit(c, p)
       \/ FetchMiss(c, p)
       \/ \E v \in Values : ClientWrite(c, p, v)
       \/ \E d \in BOOLEAN : UnpinPage(c, p, d)
  \/ \E c \in Clients : NewPage(c)
  \/ \E p \in PageIds : FlushPage(p)

ProcessStep == Open \/ CrashInCreate \/ Crash \/ Close

Next == ClientStep \/ FlushAllOk \/ FlushAllError \/ ProcessStep

Spec == Init /\ [][Next]_vars
-----------------------------------------------------------------------------
\* Every frame is in exactly one place: on the free list exactly when it holds
\* no page, in the replacer exactly when it holds a page nobody pins, and in
\* neither while it is pinned.  No list names a frame twice.  A frame in two
\* places would be handed to two pages; a frame in none is lost to the pool.
FrameAccounting ==
  /\ IsInjective(free_list)
  /\ IsInjective(lru_list)
  /\ \A f \in Frames :
       /\ f \in Range(free_list) <=> frames[f].page_id = kInvalidPageId
       /\ f \in Range(lru_list) <=>
            frames[f].page_id # kInvalidPageId /\ frames[f].pin_count = 0
       /\ frames[f].page_id = kInvalidPageId => frames[f] = ResetFrame

\* page_table_ and the frames' page ids are inverse to each other, so no page
\* is cached twice and no eviction leaves an entry behind.
PageTableCoherent ==
  \A p \in PageIds, f \in Frames : page_table[p] = f <=> frames[f].page_id = p

Holders(p) == {c \in Clients : ptr[c][p] # NoFrame}

\* As long as a client holds a Page*, the frame it points into still caches
\* the page it was fetched for, and a frame's pin_count is the number of
\* clients that hold a pointer into it: pinned pages are not evicted.
PointersStayValid ==
  /\ \A c \in Clients, p \in PageIds :
       /\ ptr[c][p] # NoFrame => page_table[p] = ptr[c][p]
       /\ wrote[c][p] => ptr[c][p] # NoFrame
  /\ \A p \in PageIds : page_table[p] # NoFrame =>
       frames[page_table[p]].pin_count = Cardinality(Holders(p))

\* A page the file holds client data for is covered by the counters in the
\* header page, so no restart puts it out of range or hands its id out again;
\* a resident page is in range, so that a write-back is never refused.
HeaderCoversData ==
  /\ \A p \in PageIds : file.pages[p] \in Values => p < file.header.count
  /\ \A p \in PageIds : page_table[p] # NoFrame => p < page_count
  /\ file.header.next = file.header.count /\ next_page_id = page_count
  /\ up /\ ~file.failed => file.header.count = page_count /\ page_count >= kFirstDataPageId
  /\ ~file.exists => file.header = NoHeader

\* While the device works, a resident page that is not marked dirty and that
\* no client has written through its pointer equals its image in the file, so
\* that evicting it without a write loses nothing.
CleanPagesMatchFile ==
  ~file.failed => \A p \in PageIds :
    (/\ page_table[p] # NoFrame
     /\ ~frames[page_table[p]].is_dirty
     /\ \A c \in Clients : ~wrote[c][p])
    => frames[page_table[p]].page = file.pages[p]

\* What a client reads and what a restart finds.
PageNow ==
  [p \in PageIds |->
     IF page_table[p] # NoFrame THEN frames[page_table[p]].page
     ELSE IF up /\ ~file.failed /\ p < page_count THEN file.pages[p]
     ELSE Unreadable]

PageOnRestart ==
  [p \in PageIds |-> IF p < file.header.count THEN file.pages[p] ELSE Unreadable]

Store == INSTANCE PageStore WITH cur <- PageNow, dur <- PageOnRestart

\* The pool over the data file implements the page store: hits, misses,
\* evictions and write-backs never change what a page reads as, a failing
\* device makes pages unreadable but never stale, and only a restart forgets.
ImplementsPageStore == Store!Spec
=============================================================================
