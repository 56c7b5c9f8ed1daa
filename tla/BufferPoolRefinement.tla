------------------------ MODULE BufferPoolRefinement -------------------------
(***************************************************************************)
(* The buffer pool over the data file implements PageStore.tla: under the  *)
(* invariant of BufferPoolProofs.tla every operation is a step of the      *)
(* store, one lemma per operation.                                         *)
(***************************************************************************)
EXTENDS BufferPoolProofs

\* What a client reads and what a restart finds, page by page.
LEMMA PageFacts ==
  ASSUME IInv, NEW p \in PageIds
  PROVE  /\ page_table[p] # NoFrame =>
              /\ page_table[p] \in Frames /\ frames[page_table[p]].page_id = p
              /\ PageNow[p] = frames[page_table[p]].page
              /\ PageNow[p] \in Content /\ PageNow[p] # Unreadable
              /\ p < page_count
         /\ page_table[p] = NoFrame =>
              PageNow[p] = IF up /\ ~file.failed /\ p < page_count
                           THEN file.pages[p] ELSE Unreadable
         /\ PageOnRestart[p] = IF p < file.header.count THEN file.pages[p] ELSE Unreadable
         /\ file.pages[p] \in Content /\ file.pages[p] # Unreadable
         /\ up /\ ~file.failed => file.header.count = page_count
         /\ p \in Int /\ page_count \in Int /\ file.header.count \in Int
<1>1. file \in Files /\ page_count \in Int /\ p \in Int /\ Unreadable \notin Content
  BY PageIdFacts, BufferPoolAssumption DEF IInv, TypeOK
<1>2. file.pages[p] \in Content /\ file.header.count \in Int
  BY <1>1 DEF Files
<1>3. ASSUME page_table[p] # NoFrame
      PROVE  /\ page_table[p] \in Frames /\ frames[page_table[p]].page_id = p
             /\ frames[page_table[p]].page \in Content /\ p < page_count
  BY <1>3 DEF IInv, TypeOK, PageTableCoherent, FrameRecords, HeaderCoversData
<1>4. up /\ ~file.failed => file.header.count = page_count
  BY Zenon DEF IInv, HeaderCoversData
<1> QED BY <1>1, <1>2, <1>3, <1>4, Zenon DEF PageNow, PageOnRestart

\* The same after a step.
LEMMA PageAfter ==
  ASSUME NEW p \in PageIds
  PROVE  /\ PageNow'[p] = IF page_table'[p] # NoFrame THEN frames'[page_table'[p]].page
                          ELSE IF up' /\ ~file'.failed /\ p < page_count' THEN file'.pages[p]
                          ELSE Unreadable
         /\ PageOnRestart'[p] = IF p < file'.header.count THEN file'.pages[p] ELSE Unreadable
  BY Zenon DEF PageNow, PageOnRestart

\* Both are functions on the page ids, whatever the step.
LEMMA StoreTotal == Store!Total
  BY Zenon DEF Store!Total, PageNow, PageOnRestart

\* A step that keeps every page, written back or not.
LEMMA KeepAll ==
  ASSUME \A p \in PageIds : Store!Kept(p)
  PROVE  Store!Next
  BY StoreTotal, Zenon DEF Store!Next, Store!Persist

\* A step in which the device fails while page q is written.
LEMMA FailAt ==
  ASSUME NEW q \in PageIds, Store!Struck(q), \A p \in PageIds \ {q} : Store!Spared(p)
  PROVE  Store!Next
  BY StoreTotal, Zenon DEF Store!Next, Store!Fail

\* A step that changes neither what is read nor what is durable.
LEMMA QuietStep ==
  ASSUME IInv, UNCHANGED <<page_count, up, page_table>>,
         file'.header = file.header, file'.pages = file.pages, file'.failed = file.failed,
         \A g \in Frames : frames'[g].page = frames[g].page
  PROVE  Store!Next
<1> SUFFICES ASSUME NEW p \in PageIds PROVE Store!Kept(p)
  BY KeepAll, Zenon
<1>1. PageNow'[p] = PageNow[p]
  <2>1. CASE page_table[p] # NoFrame
    BY <2>1, PageFacts, PageAfter
  <2>2. CASE page_table[p] = NoFrame
    BY <2>2, PageFacts, PageAfter
  <2> QED BY <2>1, <2>2, Zenon
<1>2. PageOnRestart'[p] = PageOnRestart[p]
  BY PageFacts, PageAfter
<1> QED BY <1>1, <1>2, Zenon DEF Store!Kept

\* FlushPage and FlushAll: resident pages become durable as they are, and a
\* failing device may tear the last of them.
LEMMA FlushStep ==
  ASSUME IInv, up, NEW q \in PageIds, UNCHANGED <<page_count, up, page_table>>,
         file'.header = file.header, ~file'.failed => ~file.failed,
         \A g \in Frames : frames'[g].page = frames[g].page,
         \A p \in PageIds :
           \/ file'.pages[p] = file.pages[p]
           \/ page_table[p] # NoFrame /\ file'.pages[p] = frames[page_table[p]].page
           \/ p = q /\ file'.failed /\ file'.pages[p] = Torn
  PROVE  Store!Next
<1>1. ASSUME NEW p \in PageIds, page_table[p] # NoFrame
      PROVE  PageNow'[p] = PageNow[p]
  BY <1>1, PageFacts, PageAfter
<1>2. ASSUME NEW p \in PageIds, page_table[p] = NoFrame
      PROVE  PageNow'[p] = IF ~file'.failed /\ p < page_count THEN file'.pages[p] ELSE Unreadable
  BY <1>2, PageAfter, Zenon
<1>3. ASSUME NEW p \in PageIds, p # q \/ ~file'.failed
      PROVE  PageOnRestart'[p] = PageOnRestart[p]
             \/ (PageOnRestart'[p] = PageNow[p] /\ PageNow[p] # Unreadable)
  BY <1>3, PageFacts, PageAfter
<1>4. CASE ~file'.failed
  <2> SUFFICES ASSUME NEW p \in PageIds PROVE Store!Kept(p)
    BY KeepAll, Zenon
  <2>1. PageNow'[p] = PageNow[p]
    <3>1. CASE page_table[p] = NoFrame
      BY <1>2, <1>4, <3>1, PageFacts
    <3> QED BY <1>1, <3>1, Zenon
  <2> QED BY <1>3, <1>4, <2>1, Zenon DEF Store!Kept
<1>5. CASE file'.failed
  <2>1. \A p \in PageIds : PageNow'[p] \in {PageNow[p], Unreadable}
    BY <1>1, <1>2, <1>5, Zenon
  <2>2. \A p \in PageIds \ {q} : Store!Spared(p)
    BY <1>3, <2>1, Zenon DEF Store!Spared
  <2>3. Store!Struck(q)
    <3>1. \/ PageOnRestart'[q] \in {PageOnRestart[q], Torn}
          \/ PageOnRestart'[q] = PageNow[q] /\ PageNow[q] # Unreadable
      BY PageFacts, PageAfter
    <3> QED BY <2>1, <3>1, Zenon DEF Store!Struck
  <2> QED BY <2>2, <2>3, FailAt, Zenon
<1> QED BY <1>4, <1>5, Zenon

\* A hit pins the page and leaves it as it is.
LEMMA FetchHitRefines ==
  ASSUME IInv, NEW c \in Clients, NEW p \in PageIds, FetchHit(c, p)
  PROVE  Store!Next
<1>1. page_table[p] \in Frames /\ frames \in [Frames -> FrameRecords]
  BY Zenon DEF FetchHit, IInv, TypeOK
<1>2. /\ frames' = [frames EXCEPT ![page_table[p]].pin_count = @ + 1]
      /\ UNCHANGED <<file, page_count, up, page_table>>
  BY Zenon DEF FetchHit
<1>3. \A g \in Frames : frames'[g].page = frames[g].page
  BY <1>1, <1>2, Zenon DEF FrameRecords
<1> QED BY <1>2, <1>3, QuietStep, Zenon

\* UnpinPage changes the pin count and the dirty bit.
LEMMA UnpinRefines ==
  ASSUME IInv, NEW c \in Clients, NEW p \in PageIds, NEW d \in BOOLEAN, UnpinPage(c, p, d)
  PROVE  Store!Next
<1>1. page_table[p] \in Frames /\ frames \in [Frames -> FrameRecords]
  BY Zenon DEF UnpinPage, IInv, TypeOK
<1>2. /\ frames' = [frames EXCEPT ![page_table[p]] = Unpinned(@, d)]
      /\ UNCHANGED <<file, page_count, up, page_table>>
  BY Zenon DEF UnpinPage
<1>3. \A g \in Frames : frames'[g].page = frames[g].page
  BY <1>1, <1>2, Zenon DEF FrameRecords, Unpinned
<1> QED BY <1>2, <1>3, QuietStep, Zenon

\* A client that holds a pointer into a page writes the page others read.
LEMMA ClientWriteRefines ==
  ASSUME IInv, NEW c \in Clients, NEW p \in PageIds, NEW v \in Values, ClientWrite(c, p, v)
  PROVE  Store!Next
<1> DEFINE f == ptr[c][p]
<1>1. /\ f # NoFrame /\ page_table[p] = f
      /\ frames' = [frames EXCEPT ![f].page = v]
      /\ UNCHANGED <<file, page_count, up, page_table>>
  BY Zenon DEF ClientWrite, IInv, PointersStayValid
<1>2. f \in Frames /\ frames \in [Frames -> FrameRecords]
  BY <1>1, Zenon DEF IInv, TypeOK
<1> HIDE DEF f
<1>3. frames'[f].page = v /\ \A g \in Frames : g # f => frames'[g].page = frames[g].page
  BY <1>1, <1>2, Zenon DEF FrameRecords
<1>4. PageNow'[p] = v /\ PageNow[p] # Unreadable
  BY <1>1, <1>3, PageFacts, PageAfter
<1>5. ASSUME NEW q \in PageIds, q # p PROVE PageNow'[q] = PageNow[q]
  <2>1. CASE page_table[q] # NoFrame
    <3>1. page_table[q] \in Frames /\ page_table[q] # f
      BY <1>1, <1>5, <2>1, PageFacts
    <3> QED BY <1>1, <1>3, <2>1, <3>1, PageFacts, PageAfter
  <2>2. CASE page_table[q] = NoFrame
    BY <1>1, <2>2, PageFacts, PageAfter
  <2> QED BY <2>1, <2>2, Zenon
<1>6. PageNow' = [PageNow EXCEPT ![p] = v]
  <2>1. /\ PageNow' = [q \in PageIds |-> PageNow'[q]]
        /\ PageNow = [q \in PageIds |-> PageNow[q]]
    BY Zenon DEF PageNow
  <2> QED BY <1>4, <1>5, <2>1, Zenon
<1>7. PageOnRestart' = PageOnRestart
  BY <1>1, Zenon DEF PageOnRestart
<1> QED BY <1>4, <1>6, <1>7, Zenon DEF Store!Next, Store!Write

\* FlushPage makes the page durable as it is, or fails.
LEMMA FlushPageRefines ==
  ASSUME IInv, NEW p \in PageIds, FlushPage(p)
  PROVE  Store!Next
<1> DEFINE f == page_table[p]
<1>1. /\ up /\ f # NoFrame
      /\ UNCHANGED <<page_count, up, page_table>>
  BY Zenon DEF FlushPage
<1>2. PICK w \in WritePage(file, p, frames[f].page) :
        /\ file' = w.file
        /\ frames' = IF w.ok THEN [frames EXCEPT ![f].is_dirty = FALSE] ELSE frames
  BY Zenon DEF FlushPage
<1>3. f \in Frames /\ frames \in [Frames -> FrameRecords] /\ frames[f].page \in Content
      /\ file \in Files
  BY <1>1, Zenon DEF IInv, TypeOK, FrameRecords
<1>4. WriteResult(file, p, frames[f].page, w)
  BY <1>2, <1>3, WritePageOutcome, Zenon
<1>5. \A g \in Frames : frames'[g].page = frames[g].page
  BY <1>2, <1>3, Zenon DEF FrameRecords
<1>6. InRange(p)
  BY <1>1, FileCovered, Zenon DEF InRange
<1>7. /\ file'.header = file.header /\ (~file'.failed => ~file.failed)
      /\ \A q \in PageIds : q # p => file'.pages[q] = file.pages[q]
      /\ file'.pages[p] \in {file.pages[p], frames[f].page, Torn}
      /\ ~file'.failed => file'.pages[p] = frames[f].page
  BY <1>2, <1>4, <1>6, Zenon DEF WriteResult
<1> QED BY <1>1, <1>5, <1>7, FlushStep, Zenon

\* The frames FlushAll has cleaned hold what they held.
LEMMA CleanedPages ==
  ASSUME IInv, up, NEW S \in SUBSET DirtyPages, S = {} \/ ~file.failed
  PROVE  /\ \A g \in Frames : Cleaned(S)[g].page = frames[g].page
         /\ Written(S) \in Files
         /\ Written(S).header = file.header /\ Written(S).failed = file.failed
         /\ \A q \in PageIds :
              \/ Written(S).pages[q] = file.pages[q]
              \/ page_table[q] # NoFrame /\ Written(S).pages[q] = frames[page_table[q]].page
<1>1. WrittenResult(S)
  BY WrittenFacts, Zenon
<1>2. \A q \in S : page_table[q] # NoFrame
  BY Zenon DEF DirtyPages
<1> QED BY <1>1, <1>2, Zenon DEF WrittenResult

\* The last write of FlushAll, after those of the pages in S.
LEMMA FlushAllRefines ==
  ASSUME IInv, up, NEW S \in SUBSET DirtyPages, S = {} \/ ~file.failed, NEW q \in DirtyPages,
         NEW w \in WritePage(Written(S), q, frames[page_table[q]].page), file' = w.file,
         \A g \in Frames : frames'[g].page = frames[g].page,
         UNCHANGED <<page_count, up, page_table>>
  PROVE  Store!Next
<1>1. /\ q \in PageIds /\ page_table[q] # NoFrame /\ frames[page_table[q]].page \in Content
  BY Zenon DEF DirtyPages, IInv, TypeOK, FrameRecords
<1>2. InRange(q)
  BY <1>1, FileCovered, Zenon DEF InRange
<1>3. /\ Written(S) \in Files
      /\ Written(S).header = file.header /\ Written(S).failed = file.failed
      /\ \A p \in PageIds :
           \/ Written(S).pages[p] = file.pages[p]
           \/ page_table[p] # NoFrame /\ Written(S).pages[p] = frames[page_table[p]].page
  BY CleanedPages, Zenon
<1>4. WriteResult(Written(S), q, frames[page_table[q]].page, w)
  BY <1>1, <1>3, WritePageOutcome, Zenon
<1>5. /\ file'.header = file.header /\ (~file'.failed => ~file.failed)
      /\ \A p \in PageIds : p # q => file'.pages[p] = Written(S).pages[p]
      /\ file'.pages[q] \in {Written(S).pages[q], frames[page_table[q]].page, Torn}
      /\ ~file'.failed => file'.pages[q] = frames[page_table[q]].page
  BY <1>2, <1>3, <1>4, Zenon DEF WriteResult
<1>6. \A p \in PageIds :
           \/ file'.pages[p] = file.pages[p]
           \/ page_table[p] # NoFrame /\ file'.pages[p] = frames[page_table[p]].page
           \/ p = q /\ file'.failed /\ file'.pages[p] = Torn
  BY <1>1, <1>3, <1>5, Zenon
<1> QED BY <1>1, <1>5, <1>6, FlushStep, Zenon

\* FlushAll that returns OK writes every dirty page.
LEMMA FlushAllOkRefines ==
  ASSUME IInv, FlushAllOk PROVE Store!Next
<1>1. /\ up /\ frames' = Cleaned(DirtyPages) /\ UNCHANGED <<page_count, up, page_table>>
      /\ DirtyPages = {} \/ ~file.failed
      /\ DirtyPages \in SUBSET DirtyPages
  BY Zenon DEF FlushAllOk
<1>2. \A g \in Frames : frames'[g].page = frames[g].page
  BY <1>1, CleanedPages, Zenon
<1>3. CASE DirtyPages = {}
  BY <1>1, <1>2, <1>3, QuietStep, Zenon DEF FlushAllOk
<1>4. CASE DirtyPages # {}
  <2>1. PICK q \in DirtyPages :
          \E w \in WritePage(Written(DirtyPages \ {q}), q, frames[page_table[q]].page) :
            file' = w.file
    BY <1>4, Zenon DEF FlushAllOk
  <2>2. DirtyPages \ {q} \in SUBSET DirtyPages
    BY Zenon
  <2> QED BY <1>1, <1>2, <1>4, <2>1, <2>2, FlushAllRefines, Zenon
<1> QED BY <1>3, <1>4, Zenon

\* FlushAll that stops at a page has written some.
LEMMA FlushAllErrorRefines ==
  ASSUME IInv, FlushAllError PROVE Store!Next
<1>1. up /\ UNCHANGED <<page_count, up, page_table>>
  BY Zenon DEF FlushAllError
<1>2. PICK q \in DirtyPages, S \in SUBSET DirtyPages :
        /\ S = {} \/ ~file.failed
        /\ frames' = Cleaned(S)
        /\ \E w \in WritePage(Written(S), q, frames[page_table[q]].page) : file' = w.file
  BY Zenon DEF FlushAllError
<1>3. \A g \in Frames : frames'[g].page = frames[g].page
  BY <1>1, <1>2, CleanedPages, Zenon
<1> QED BY <1>1, <1>2, <1>3, FlushAllRefines, Zenon
\* As long as the device works, the page of a victim is in the file when the
\* victim is given to another page: it was clean, or has just been written.
LEMMA VictimSaved ==
  ASSUME IInv, NEW f \in Frames, frames[f].pin_count = 0,
         NEW g \in Files, NEW h \in WriteBack(g, f), ~file.failed, ~h.failed,
         NEW q \in PageIds, page_table[q] = f, g.pages[q] = file.pages[q]
  PROVE  h.pages[q] = frames[f].page
<1>1. WriteBackResult(g, f, h)
  BY WriteBackOutcome, Zenon DEF IInv, TypeOK
<1>2. frames[f].page_id = q /\ f # NoFrame
  BY PageIdFacts, Zenon DEF IInv, PageTableCoherent
<1>3. InRange(q)
  BY <1>2, FileCovered, Zenon DEF InRange
<1>4. CASE frames[f].is_dirty
  BY <1>1, <1>2, <1>3, <1>4, Zenon DEF WriteBackResult
<1>5. CASE ~frames[f].is_dirty
  <2>1. \A c \in Clients : ~wrote[c][q]
    BY VictimUnused, Zenon
  <2>2. frames[f].page = file.pages[q]
    BY <1>2, <1>5, <2>1, Zenon DEF IInv, CleanPagesMatchFile
  <2>3. h = g
    BY <1>1, <1>5, Zenon DEF WriteBackResult
  <2> QED BY <2>2, <2>3, Zenon
<1> QED BY <1>4, <1>5, Zenon

\* A miss: the victim's page and the page fetched read as before, or the
\* device fails.
LEMMA FetchMissRefines ==
  ASSUME IInv, NEW c \in Clients, NEW p \in PageIds, FetchMiss(c, p)
  PROVE  Store!Next
<1> DEFINE f == VictimFrame
<1>1. /\ up /\ page_table[p] = NoFrame /\ HasVictim /\ UNCHANGED <<page_count, up>>
  BY Zenon DEF FetchMiss
<1>2. PICK g \in WriteBack(file, f) : \E r \in ReadPage(g, p) :
        /\ file' = r.file
        /\ IF r.ok
           THEN /\ frames' = [frames EXCEPT ![f] =
                                [page_id |-> p, pin_count |-> 1,
                                 is_dirty |-> FALSE, page |-> g.pages[p]]]
                /\ page_table' = [TableWithoutVictim(f) EXCEPT ![p] = f]
           ELSE page_table' = TableWithoutVictim(f) /\ frames' = [frames EXCEPT ![f] = ResetFrame]
  BY Zenon DEF FetchMiss
<1>3. PICK r \in ReadPage(g, p) :
        /\ file' = r.file
        /\ IF r.ok
           THEN /\ frames' = [frames EXCEPT ![f] =
                                [page_id |-> p, pin_count |-> 1,
                                 is_dirty |-> FALSE, page |-> g.pages[p]]]
                /\ page_table' = [TableWithoutVictim(f) EXCEPT ![p] = f]
           ELSE page_table' = TableWithoutVictim(f) /\ frames' = [frames EXCEPT ![f] = ResetFrame]
  BY <1>2, Zenon
<1>4. /\ f \in Frames /\ frames[f].pin_count = 0
  BY <1>1, VictimFacts, Zenon
<1> HIDE DEF f
<1>5. /\ TableWithoutVictim(f) \in [PageIds -> Frames \cup {NoFrame}]
      /\ \A q \in PageIds : TableWithoutVictim(f)[q] =
           IF page_table[q] = f THEN NoFrame ELSE page_table[q]
  BY <1>4, VictimUnused, Zenon
<1>6. /\ file \in Files /\ frames \in [Frames -> FrameRecords]
      /\ \A q \in PageIds : frames[f].page_id = q <=> page_table[q] = f
  BY <1>4, Zenon DEF IInv, TypeOK, PageTableCoherent
<1>7. WriteBackResult(file, f, g)
  BY <1>2, <1>4, <1>6, WriteBackOutcome, Zenon
<1>8. /\ g \in Files /\ g.header = file.header /\ (file.failed => g = file)
      /\ \A q \in PageIds : page_table[q] # f => g.pages[q] = file.pages[q]
      /\ \A q \in PageIds : page_table[q] = f =>
           g.pages[q] \in {file.pages[q], frames[f].page, Torn}
  BY <1>6, <1>7, Zenon DEF WriteBackResult
<1>9. /\ file'.pages = g.pages /\ file'.header = g.header
      /\ ~file'.failed => ~g.failed
      /\ r.ok => file' = g /\ ~g.failed /\ p < page_count
  BY <1>3, <1>8, ReadPageOutcome DEF InRange
<1>10. \A q \in PageIds :
         page_table'[q] = IF q = p /\ r.ok THEN f
                          ELSE IF page_table[q] = f THEN NoFrame ELSE page_table[q]
  BY <1>3, <1>5, Zenon
<1>11. /\ \A k \in Frames : k # f => frames'[k] = frames[k]
       /\ r.ok => frames'[f].page = g.pages[p]
  BY <1>3, <1>4, <1>6
<1>n. NoFrame # f
  BY <1>4, PageIdFacts, Zenon
<1>12. CASE ~file'.failed
  <2>1. ~g.failed /\ ~file.failed
    BY <1>8, <1>9, <1>12, Zenon
  <2> SUFFICES ASSUME NEW q \in PageIds PROVE Store!Kept(q)
    BY KeepAll, Zenon
  <2>2. CASE page_table[q] = f
    <3>1. g.pages[q] = frames[f].page
      BY <1>2, <1>4, <1>6, <2>1, <2>2, VictimSaved
    <3>2. q # p /\ page_table'[q] = NoFrame
      BY <1>1, <1>10, <1>n, <2>2, Zenon
    <3>3. PageNow[q] = frames[f].page /\ PageNow[q] # Unreadable /\ q < page_count
          /\ file.header.count = page_count
      BY <1>1, <1>n, <2>1, <2>2, PageFacts, Zenon
    <3>4. PageNow'[q] = frames[f].page /\ PageOnRestart'[q] = frames[f].page
      BY <1>1, <1>8, <1>9, <1>12, <3>1, <3>2, <3>3, PageAfter, Zenon
    <3> QED BY <3>3, <3>4, Zenon DEF Store!Kept
  <2>3. CASE page_table[q] # f
    <3>1. g.pages[q] = file.pages[q]
      BY <1>8, <2>3, Zenon
    <3>2. PageOnRestart'[q] = PageOnRestart[q]
      BY <1>8, <1>9, <3>1, PageFacts, PageAfter
    <3>3. CASE q = p /\ r.ok
      BY <1>1, <1>9, <1>10, <1>11, <1>n, <2>1, <3>1, <3>2, <3>3, PageFacts, PageAfter
         DEF Store!Kept
    <3>4. CASE page_table[q] # NoFrame
      <4>1. page_table'[q] = page_table[q] /\ page_table[q] \in Frames
        BY <1>1, <1>10, <2>3, <3>4, PageFacts, Zenon
      <4> QED BY <1>11, <2>3, <3>2, <3>4, <4>1, PageFacts, PageAfter DEF Store!Kept
    <3>5. CASE page_table[q] = NoFrame /\ ~(q = p /\ r.ok)
      <4>1. page_table'[q] = NoFrame
        BY <1>10, <3>5, Zenon
      <4> QED BY <1>1, <1>9, <1>12, <2>1, <3>1, <3>2, <3>5, <4>1, PageFacts, PageAfter, Zenon
            DEF Store!Kept
    <3> QED BY <3>3, <3>4, <3>5, Zenon
  <2> QED BY <2>2, <2>3, Zenon
<1>13. CASE file'.failed
  <2>1. ~r.ok
    BY <1>9, <1>13, Zenon
  <2>2. ASSUME NEW q \in PageIds PROVE PageNow'[q] \in {PageNow[q], Unreadable}
    <3>1. CASE page_table'[q] = NoFrame
      BY <1>13, <3>1, PageAfter, Zenon
    <3>2. CASE page_table'[q] # NoFrame
      <4>1. page_table'[q] = page_table[q] /\ page_table[q] # f /\ page_table[q] # NoFrame
        BY <1>10, <2>1, <3>2, Zenon
      <4> QED BY <1>11, <3>2, <4>1, PageFacts, PageAfter
    <3> QED BY <3>1, <3>2, Zenon
  <2>3. ASSUME NEW q \in PageIds, page_table[q] # f PROVE Store!Spared(q)
    BY <1>8, <1>9, <2>2, <2>3, PageFacts, PageAfter DEF Store!Spared
  <2>4. ASSUME NEW q \in PageIds, page_table[q] = f PROVE Store!Struck(q)
    <3>1. PageNow[q] = frames[f].page /\ PageNow[q] # Unreadable
      BY <1>n, <2>4, PageFacts, Zenon
    <3>2. \/ PageOnRestart'[q] \in {PageOnRestart[q], Torn}
          \/ PageOnRestart'[q] = PageNow[q]
      BY <1>8, <1>9, <2>4, <3>1, PageFacts, PageAfter
    <3> QED BY <2>2, <3>1, <3>2, Zenon DEF Store!Struck
  <2>5. \A q \in PageIds : Store!Spared(q) => Store!Struck(q)
    BY Zenon DEF Store!Spared, Store!Struck
  <2>6. CASE \E q \in PageIds : page_table[q] = f
    <3>1. PICK q \in PageIds : page_table[q] = f
      BY <2>6, Zenon
    <3>2. \A x \in PageIds \ {q} : page_table[x] # f
      BY <1>6, <3>1, Zenon
    <3> QED BY <2>3, <2>4, <3>1, <3>2, FailAt, Zenon
  <2>7. CASE \A q \in PageIds : page_table[q] # f
    BY <2>3, <2>5, <2>7, FailAt, Zenon
  <2> QED BY <2>6, <2>7, Zenon
<1> QED BY <1>12, <1>13, Zenon
\* A failure during NewPage: the fresh page q may be there or not, and page r
\* is the one that was written.
LEMMA FailAllocating ==
  ASSUME NEW q \in PageIds, NEW r \in PageIds,
         PageNow[q] = Unreadable, PageOnRestart[q] = Unreadable,
         PageNow'[q] \in {Blank, Unreadable}, PageOnRestart'[q] \in {Blank, Unreadable},
         r # q => Store!Struck(r), \A p \in PageIds \ {q, r} : Store!Spared(p)
  PROVE  Store!Next
<1>1. Store!FailInAllocate(q)
  BY StoreTotal, Zenon DEF Store!FailInAllocate
<1> QED BY <1>1, Zenon DEF Store!Next

\* NewPage puts a blank page into the store, wherever the page of its frame
\* goes, and also when no frame can be had.
LEMMA NewPageRefines ==
  ASSUME IInv, NEW c \in Clients, NewPage(c)
  PROVE  Store!Next
<1> DEFINE f == VictimFrame
           p == next_page_id
<1>1. /\ up /\ next_page_id <= MaxPages /\ up' = up /\ page_count' = page_count + 1
  BY Zenon DEF NewPage, BumpCounters
<1>2. PICK a \in AllocatePage(file) :
           IF a.ok /\ HasVictim
           THEN /\ file' \in WriteBack(a.file, f)
                /\ frames' = [frames EXCEPT ![f] =
                                [page_id |-> p, pin_count |-> 1,
                                 is_dirty |-> TRUE, page |-> Blank]]
                /\ page_table' = [TableWithoutVictim(f) EXCEPT ![p] = f]
           ELSE /\ file' = a.file
                /\ UNCHANGED <<frames, page_table>>
  BY Zenon DEF NewPage, poolVars
<1>3. /\ file \in Files /\ page_count \in 0..MaxPages + 1
      /\ Covered(file, page_count) /\ next_page_id = page_count
      /\ (~file.failed => page_count >= 1)
      /\ \A q \in PageIds : page_table[q] # NoFrame => q < page_count
  BY <1>1, FileCovered, Zenon
<1>4. page_count \in Nat /\ (~file.failed => p \in PageIds /\ page_count \in PageIds)
  BY <1>1, <1>3, PageManagerAssumption DEF PageIds
<1>5. AllocateResult(file, a)
  BY <1>3, <1>4, AllocatePageOutcome, Zenon
<1>6. CASE file.failed
  <2>1. UNCHANGED <<file, frames, page_table>>
    BY <1>2, <1>5, <1>6, Zenon DEF AllocateResult
  <2> SUFFICES ASSUME NEW q \in PageIds PROVE Store!Kept(q)
    BY KeepAll, Zenon
  <2>2. PageOnRestart'[q] = PageOnRestart[q]
    BY <2>1, PageFacts, PageAfter
  <2>3. PageNow'[q] = PageNow[q]
    BY <1>6, <2>1, PageFacts, PageAfter, Zenon
  <2> QED BY <2>2, <2>3, Zenon DEF Store!Kept
<1>7. CASE ~file.failed
  <2> HIDE DEF f, p
  <2>1. /\ p \in PageIds /\ p = page_count /\ p \in Int /\ file.header.count = p
        /\ page_table[p] = NoFrame /\ page_count' = p + 1
    BY <1>1, <1>3, <1>4, <1>7, PageIdFacts DEF Covered, p
  <2>2. PageNow[p] = Unreadable /\ PageOnRestart[p] = Unreadable
    BY <2>1, PageFacts
  <2>3. /\ a.file \in Files
        /\ \A q \in PageIds : q # p => a.file.pages[q] = file.pages[q]
        /\ ~a.file.failed => a.file.pages[p] = Blank /\ a.file.header.count = p + 1
        /\ a.file.header.count = p \/ (a.file.header.count = p + 1 /\ a.file.pages[p] = Blank)
    BY <1>5, <2>1 DEF AllocateResult, HeaderOf, p
  <2>4. ASSUME NEW q \in PageIds, q # p PROVE q < p + 1 <=> q < p
    BY <2>1, <2>4, PageIdFacts
  <2>5. CASE a.ok /\ HasVictim
    <3>1. /\ file' \in WriteBack(a.file, f)
          /\ frames' = [frames EXCEPT ![f] =
                          [page_id |-> p, pin_count |-> 1,
                           is_dirty |-> TRUE, page |-> Blank]]
          /\ page_table' = [TableWithoutVictim(f) EXCEPT ![p] = f]
      BY <1>2, <2>5, Zenon
    <3>2. f \in Frames /\ frames[f].pin_count = 0 /\ frames \in [Frames -> FrameRecords]
      BY <2>5, VictimFacts, Zenon DEF IInv, TypeOK, f
    <3>3. /\ TableWithoutVictim(f) \in [PageIds -> Frames \cup {NoFrame}]
          /\ \A q \in PageIds : TableWithoutVictim(f)[q] =
               IF page_table[q] = f THEN NoFrame ELSE page_table[q]
      BY <3>2, VictimUnused, Zenon
    <3>4. \A q \in PageIds : page_table'[q] =
            IF q = p THEN f ELSE IF page_table[q] = f THEN NoFrame ELSE page_table[q]
      BY <3>1, <3>3, Zenon
    <3>5. \A q \in PageIds : page_table[q] = f <=> frames[f].page_id = q
      BY <3>2, Zenon DEF IInv, PageTableCoherent
    <3>6. /\ frames'[f].page = Blank
          /\ \A k \in Frames : k # f => frames'[k] = frames[k]
      BY <3>1, <3>2, Zenon
    <3>7. WriteBackResult(a.file, f, file')
      BY <2>3, <3>1, <3>2, WriteBackOutcome, Zenon
    <3>8. /\ file'.header = a.file.header
          /\ ~file'.failed => ~a.file.failed
          /\ \A q \in PageIds : page_table[q] # f => file'.pages[q] = a.file.pages[q]
          /\ \A q \in PageIds : page_table[q] = f =>
               file'.pages[q] \in {a.file.pages[q], frames[f].page, Torn}
      BY <3>5, <3>7, Zenon DEF WriteBackResult
    <3>n. NoFrame # f
      BY <3>2, PageIdFacts, Zenon
    <3>9. /\ PageNow'[p] = Blank /\ PageOnRestart'[p] \in {Blank, Unreadable}
          /\ ~file'.failed => PageOnRestart'[p] = Blank
      <4>1. PageNow'[p] = Blank
        BY <2>1, <3>4, <3>6, <3>n, PageAfter, Zenon
      <4>2. file'.pages[p] = a.file.pages[p] /\ file'.header.count = a.file.header.count
        BY <2>1, <3>8, <3>n, Zenon
      <4>3. p < p + 1 /\ ~(p < p)
        BY <2>1
      <4> QED BY <2>1, <2>3, <3>8, <4>1, <4>2, <4>3, PageAfter
    <3>10. ASSUME NEW q \in PageIds, q # p
           PROVE  /\ PageOnRestart[q] = IF q < p THEN file.pages[q] ELSE Unreadable
                  /\ PageOnRestart'[q] = IF q < p THEN file'.pages[q] ELSE Unreadable
                  /\ page_table[q] # NoFrame => q < p
      <4>1. q < file'.header.count <=> q < p
        BY <2>3, <2>4, <3>8, <3>10, Zenon
      <4> QED BY <2>1, <4>1, PageFacts, PageAfter
    <3>11. ASSUME NEW q \in PageIds, q # p, page_table[q] # f, page_table[q] # NoFrame
           PROVE  PageNow'[q] = PageNow[q]
      BY <3>4, <3>6, <3>11, PageFacts, PageAfter
    <3>12. ASSUME NEW q \in PageIds, q # p, page_table[q] = f \/ page_table[q] = NoFrame
           PROVE  PageNow'[q] = IF ~file'.failed /\ q < p THEN file'.pages[q] ELSE Unreadable
      <4>1. page_table'[q] = NoFrame
        BY <3>4, <3>12, Zenon
      <4> QED BY <1>1, <2>1, <2>4, <3>12, <4>1, PageAfter, Zenon
    <3>13. CASE ~file'.failed
      <4>1. ASSUME NEW q \in PageIds \ {p} PROVE Store!Kept(q)
        <5>1. CASE page_table[q] = f
          <6>1. file'.pages[q] = frames[f].page
            BY <1>7, <2>3, <3>1, <3>2, <3>13, <4>1, <5>1, VictimSaved
          <6>2. PageNow[q] = frames[f].page /\ PageNow[q] # Unreadable /\ q < p
            BY <3>10, <3>n, <4>1, <5>1, PageFacts, Zenon
          <6> QED BY <3>10, <3>12, <3>13, <4>1, <5>1, <6>1, <6>2, Zenon DEF Store!Kept
        <5>2. CASE page_table[q] # f
          <6>1. file'.pages[q] = file.pages[q]
            BY <2>3, <3>8, <4>1, <5>2, Zenon
          <6>2. PageOnRestart'[q] = PageOnRestart[q]
            BY <3>10, <4>1, <6>1, Zenon
          <6>3. CASE page_table[q] = NoFrame
            BY <1>1, <1>7, <2>1, <3>12, <3>13, <4>1, <6>1, <6>2, <6>3, PageFacts, Zenon
               DEF Store!Kept
          <6>4. CASE page_table[q] # NoFrame
            BY <3>11, <4>1, <5>2, <6>2, <6>4, Zenon DEF Store!Kept
          <6> QED BY <6>3, <6>4, Zenon
        <5> QED BY <5>1, <5>2, Zenon
      <4>2. Store!Allocate(p)
        BY <2>1, <2>2, <3>9, <3>13, <4>1, StoreTotal, Zenon DEF Store!Allocate
      <4> QED BY <2>1, <4>2, Zenon DEF Store!Next
    <3>14. CASE file'.failed
      <4>1. ASSUME NEW q \in PageIds, q # p PROVE PageNow'[q] \in {PageNow[q], Unreadable}
        BY <3>11, <3>12, <3>14, <4>1, Zenon
      <4>2. ASSUME NEW q \in PageIds, q # p, page_table[q] # f PROVE Store!Spared(q)
        <5>1. PageOnRestart'[q] = PageOnRestart[q]
          BY <2>3, <3>8, <3>10, <4>2, Zenon
        <5> QED BY <4>1, <4>2, <5>1, Zenon DEF Store!Spared
      <4>3. ASSUME NEW q \in PageIds, q # p, page_table[q] = f PROVE Store!Struck(q)
        <5>1. PageNow[q] = frames[f].page /\ PageNow[q] # Unreadable
          BY <3>n, <4>3, PageFacts, Zenon
        <5>2. file'.pages[q] \in {file.pages[q], frames[f].page, Torn} /\ q < p
          BY <2>3, <3>8, <3>10, <3>n, <4>3, Zenon
        <5>3. \/ PageOnRestart'[q] \in {PageOnRestart[q], Torn}
              \/ PageOnRestart'[q] = PageNow[q]
          BY <3>10, <4>3, <5>1, <5>2, Zenon
        <5> QED BY <4>1, <4>3, <5>1, <5>3, Zenon DEF Store!Struck
      <4>4. CASE \E q \in PageIds : page_table[q] = f
        <5>1. PICK q \in PageIds : page_table[q] = f
          BY <4>4, Zenon
        <5>2. q # p /\ \A x \in PageIds \ {p, q} : page_table[x] # f
          BY <2>1, <3>5, <3>n, <5>1, Zenon
        <5>3. Store!Struck(q) /\ \A x \in PageIds \ {p, q} : Store!Spared(x)
          BY <4>2, <4>3, <5>1, <5>2, Zenon
        <5> QED BY <2>1, <2>2, <3>9, <5>3, FailAllocating, Zenon
      <4>5. CASE \A q \in PageIds : page_table[q] # f
        BY <2>1, <2>2, <3>9, <4>2, <4>5, FailAllocating, Zenon
      <4> QED BY <4>4, <4>5, Zenon
    <3> QED BY <3>13, <3>14, Zenon
  <2>6. CASE ~(a.ok /\ HasVictim)
    <3>1. file' = a.file /\ UNCHANGED <<frames, page_table>>
      BY <1>2, <2>6, Zenon
    <3>2. p < p + 1 /\ ~(p < p)
      BY <2>1
    <3>3. /\ PageNow'[p] = IF file'.failed THEN Unreadable ELSE Blank
          /\ PageOnRestart'[p] \in {Blank, Unreadable}
          /\ ~file'.failed => PageOnRestart'[p] = Blank
      BY <1>1, <2>1, <2>3, <3>1, <3>2, PageAfter, Zenon
    <3>4. ASSUME NEW q \in PageIds, q # p
          PROVE  /\ PageOnRestart'[q] = PageOnRestart[q]
                 /\ PageNow'[q] \in {PageNow[q], Unreadable}
                 /\ ~file'.failed => PageNow'[q] = PageNow[q]
      <4>1. (q < file'.header.count <=> q < p) /\ file'.pages[q] = file.pages[q]
        BY <2>3, <2>4, <3>1, <3>4, Zenon
      <4>2. PageOnRestart'[q] = PageOnRestart[q]
        BY <2>1, <4>1, PageFacts, PageAfter
      <4>3. CASE page_table[q] # NoFrame
        BY <3>1, <4>2, <4>3, PageFacts, PageAfter, Zenon
      <4>4. CASE page_table[q] = NoFrame
        BY <1>1, <1>7, <2>1, <2>4, <3>1, <3>4, <4>1, <4>2, <4>4, PageFacts, PageAfter
      <4> QED BY <4>3, <4>4, Zenon
    <3>5. CASE ~file'.failed
      <4>1. \A q \in PageIds \ {p} : Store!Kept(q)
        BY <3>4, <3>5, Zenon DEF Store!Kept
      <4>2. Store!Allocate(p)
        BY <2>1, <2>2, <3>3, <3>5, <4>1, StoreTotal, Zenon DEF Store!Allocate
      <4> QED BY <2>1, <4>2, Zenon DEF Store!Next
    <3>6. CASE file'.failed
      <4>1. \A q \in PageIds \ {p} : Store!Spared(q)
        BY <3>4, Zenon DEF Store!Spared
      <4> QED BY <2>1, <2>2, <3>3, <3>6, <4>1, FailAllocating, Zenon
    <3> QED BY <3>5, <3>6, Zenon
  <2> QED BY <2>5, <2>6, Zenon
<1> QED BY <1>6, <1>7, Zenon
-----------------------------------------------------------------------------
\* The store as it is before the first start and after every stop.
DownIsEmpty == ~up => \A p \in PageIds : page_table[p] = NoFrame

\* Nothing is readable while the process is down.
LEMMA NothingReadable ==
  ASSUME DownIsEmpty, ~up
  PROVE  PageNow = Store!AllUnreadable
  BY Zenon DEF DownIsEmpty, PageNow, Store!AllUnreadable

\* The pool is emptied when the process goes down and untouched until it is up.
LEMMA DownStaysEmpty == DownIsEmpty /\ [Next]_vars => DownIsEmpty'
<1> SUFFICES ASSUME DownIsEmpty, [Next]_vars PROVE DownIsEmpty'
  BY Zenon
<1>1. CASE ClientStep \/ FlushAllOk \/ FlushAllError
  <2>1. up /\ up' = up
    <3>1. ASSUME NEW c \in Clients, NEW p \in PageIds, FetchHit(c, p) \/ FetchMiss(c, p)
          PROVE  up /\ up' = up
      BY <3>1, Zenon DEF FetchHit, FetchMiss
    <3>2. ASSUME NEW c \in Clients, NEW p \in PageIds, NEW v \in Values, ClientWrite(c, p, v)
          PROVE  up /\ up' = up
      BY <3>2, Zenon DEF ClientWrite
    <3>3. ASSUME NEW c \in Clients, NEW p \in PageIds, NEW d \in BOOLEAN, UnpinPage(c, p, d)
          PROVE  up /\ up' = up
      BY <3>3, Zenon DEF UnpinPage
    <3>4. ASSUME NEW c \in Clients, NewPage(c) PROVE up /\ up' = up
      BY <3>4, Zenon DEF NewPage
    <3>5. ASSUME NEW p \in PageIds, FlushPage(p) PROVE up /\ up' = up
      BY <3>5, Zenon DEF FlushPage
    <3>6. CASE FlushAllOk \/ FlushAllError
      BY <3>6, Zenon DEF FlushAllOk, FlushAllError
    <3> QED BY <1>1, <3>1, <3>2, <3>3, <3>4, <3>5, <3>6, Zenon DEF ClientStep
  <2> QED BY <2>1, Zenon DEF DownIsEmpty
<1>2. CASE Open \/ Crash \/ Close
  <2>1. page_table' = [p \in PageIds |-> NoFrame]
    BY <1>2, Zenon DEF Open, Crash, Close, EmptyPool
  <2> QED BY <2>1, Zenon DEF DownIsEmpty
<1>3. CASE CrashInCreate \/ UNCHANGED vars
  <2>1. UNCHANGED <<up, page_table>>
    BY <1>3, Zenon DEF CrashInCreate, vars, poolVars
  <2> QED BY <2>1, Zenon DEF DownIsEmpty
<1> QED BY <1>1, <1>2, <1>3, Zenon DEF Next, ProcessStep

\* A start reads every page as the header and the file have it, or nothing
\* when there is no header to read.
LEMMA OpenRefines ==
  ASSUME IInv, DownIsEmpty, Open
  PROVE  Store!Next
<1>1. ~up /\ up' = TRUE /\ page_table' = [p \in PageIds |-> NoFrame]
  BY Zenon DEF Open, EmptyPool
<1>2. PICK o \in OpenFile(file) : file' = o.file /\ page_count' = o.at.count
  BY Zenon DEF Open
<1>3. PageNow = Store!AllUnreadable
  BY <1>1, NothingReadable, Zenon
<1>4. file \in Files /\ file.header \in [next : 0..MaxPages + 1, count : 0..MaxPages + 1]
  BY Zenon DEF IInv, TypeOK, Files
<1>5. \A p \in PageIds : p \in Int /\ ~(p < 1) /\ ~(p < 0)
  BY PageManagerAssumption DEF PageIds
<1>6. HeaderOf(1, 1).count = 1 /\ NoHeader.count = 0
  BY Zenon DEF HeaderOf, NoHeader
<1>7. /\ file'.pages = file.pages
      /\ \/ /\ file'.header \in {file.header, HeaderOf(1, 1)} /\ file.header = NoHeader
            /\ page_count' \in {0, 1}
         \/ file'.header = file.header /\ file'.failed
         \/ file'.header = file.header /\ ~file'.failed /\ page_count' = file.header.count
  <2>1. CASE ~file.exists
    <3>1. file.header = NoHeader
      BY <2>1, Zenon DEF IInv, HeaderCoversData
    <3> DEFINE fresh == HeaderOf(1, 1)
    <3>2. CASE o = [file |-> [file EXCEPT !.exists = TRUE, !.header = fresh, !.failed = FALSE],
                    at |-> fresh]
      BY <1>2, <1>4, <1>6, <3>1, <3>2, Zenon DEF Files
    <3>3. CASE o = [file |-> [file EXCEPT !.exists = TRUE, !.failed = TRUE], at |-> fresh]
      BY <1>2, <1>4, <1>6, <3>1, <3>3, Zenon DEF Files
    <3> QED BY <1>2, <2>1, <3>2, <3>3, Zenon DEF OpenFile, kFirstDataPageId
  <2>2. CASE file.exists /\ file.header = NoHeader
    BY <1>2, <1>4, <1>6, <2>2 DEF OpenFile, Files
  <2>3. CASE file.exists /\ file.header # NoHeader
    BY <1>2, <1>4, <2>3 DEF OpenFile, Files
  <2> QED BY <2>1, <2>2, <2>3, Zenon
<1>8. ASSUME NEW p \in PageIds
      PROVE  /\ PageNow'[p] = IF ~file'.failed /\ p < page_count' THEN file.pages[p] ELSE Unreadable
             /\ PageOnRestart'[p] = PageOnRestart[p]
  <2>1. p < file'.header.count <=> p < file.header.count
    BY <1>5, <1>6, <1>7, Zenon
  <2> QED BY <1>1, <1>7, <2>1, PageFacts, PageAfter
<1>9. CASE file'.header = file.header /\ ~file'.failed /\ page_count' = file.header.count
  <2>1. ASSUME NEW p \in PageIds PROVE PageNow'[p] = PageOnRestart[p]
    BY <1>8, <1>9, PageFacts
  <2>2. /\ PageNow' = [p \in PageIds |-> PageNow'[p]]
        /\ PageOnRestart = [p \in PageIds |-> PageOnRestart[p]]
        /\ PageOnRestart' = [p \in PageIds |-> PageOnRestart'[p]]
    BY Zenon DEF PageNow, PageOnRestart
  <2>3. PageNow' = PageOnRestart /\ PageOnRestart' = PageOnRestart
    BY <1>8, <2>1, <2>2, Zenon
  <2> QED BY <1>3, <2>3, Zenon DEF Store!Next, Store!Restart
<1>10. CASE ~(file'.header = file.header /\ ~file'.failed /\ page_count' = file.header.count)
  <2> SUFFICES ASSUME NEW p \in PageIds PROVE Store!Kept(p)
    BY KeepAll, Zenon
  <2>1. PageNow'[p] = Unreadable
    BY <1>5, <1>7, <1>8, <1>10, Zenon
  <2>2. PageNow[p] = Unreadable
    BY <1>3, Zenon DEF Store!AllUnreadable
  <2> QED BY <1>8, <2>1, <2>2, Zenon DEF Store!Kept
<1> QED BY <1>9, <1>10, Zenon

\* A crash, and an exit, leave the file as it is: the header the destructor
\* writes is the one that is there.
LEMMA StopRefines ==
  ASSUME IInv, Crash \/ Close
  PROVE  Store!Next
<1>1. /\ up /\ up' = FALSE /\ page_table' = [p \in PageIds |-> NoFrame]
      /\ page_count' = page_count
  BY Zenon DEF Crash, Close, EmptyPool
<1>2. /\ file \in Files /\ page_count \in 0..MaxPages + 1
      /\ Covered(file, page_count) /\ next_page_id = page_count
  BY <1>1, FileCovered, Zenon
<1>3. file' = file \/ (~file.failed /\ file' = [file EXCEPT !.header = HeaderOf(next_page_id, page_count)])
  BY Zenon DEF Crash, Close, CloseFile
<1>4. file'.pages = file.pages /\ file'.header.count = file.header.count
  BY <1>2, <1>3, Zenon DEF Files, Covered, HeaderOf
<1>5. PageNow' = Store!AllUnreadable
  BY <1>1, Zenon DEF PageNow, Store!AllUnreadable
<1>6. PageOnRestart' = PageOnRestart
  BY <1>4, Zenon DEF PageOnRestart
<1> QED BY <1>5, <1>6, Zenon DEF Store!Next, Store!Stop

\* A crash before the header is written changes nothing that can be read.
LEMMA CrashInCreateRefines ==
  ASSUME IInv, CrashInCreate
  PROVE  Store!Next
<1>1. /\ file' = [file EXCEPT !.exists = TRUE] /\ file \in Files
      /\ UNCHANGED <<page_count, up, page_table, frames>>
  BY Zenon DEF CrashInCreate, poolVars, IInv, TypeOK
<1>2. file'.header = file.header /\ file'.pages = file.pages /\ file'.failed = file.failed
  BY <1>1, Zenon DEF Files
<1> QED BY <1>1, <1>2, QuietStep, Zenon

\* Every step of the pool is a step of the store, or changes neither what is
\* read nor what is durable.
LEMMA StepRefines == IInv /\ DownIsEmpty /\ [Next]_vars => [Store!Next]_(Store!storeVars)
<1> SUFFICES ASSUME IInv, DownIsEmpty, [Next]_vars PROVE [Store!Next]_(Store!storeVars)
  BY Zenon
<1>1. ASSUME NEW c \in Clients, NEW p \in PageIds, FetchHit(c, p) PROVE Store!Next
  BY <1>1, FetchHitRefines, Zenon
<1>2. ASSUME NEW c \in Clients, NEW p \in PageIds, FetchMiss(c, p) PROVE Store!Next
  BY <1>2, FetchMissRefines, Zenon
<1>3. ASSUME NEW c \in Clients, NEW p \in PageIds, NEW v \in Values, ClientWrite(c, p, v)
      PROVE  Store!Next
  BY <1>3, ClientWriteRefines, Zenon
<1>4. ASSUME NEW c \in Clients, NEW p \in PageIds, NEW d \in BOOLEAN, UnpinPage(c, p, d)
      PROVE  Store!Next
  BY <1>4, UnpinRefines, Zenon
<1>5. ASSUME NEW c \in Clients, NewPage(c) PROVE Store!Next
  BY <1>5, NewPageRefines, Zenon
<1>6. ASSUME NEW p \in PageIds, FlushPage(p) PROVE Store!Next
  BY <1>6, FlushPageRefines, Zenon
<1>7. CASE FlushAllOk
  BY <1>7, FlushAllOkRefines, Zenon
<1>8. CASE FlushAllError
  BY <1>8, FlushAllErrorRefines, Zenon
<1>9. CASE Open
  BY <1>9, OpenRefines, Zenon
<1>10. CASE CrashInCreate
  BY <1>10, CrashInCreateRefines, Zenon
<1>11. CASE Crash \/ Close
  BY <1>11, StopRefines, Zenon
<1>12. CASE UNCHANGED vars
  <2>1. UNCHANGED <<file, page_count, up, frames, page_table>>
    BY <1>12, Zenon DEF vars, poolVars
  <2>2. PageNow' = PageNow /\ PageOnRestart' = PageOnRestart
    BY <2>1, Zenon DEF PageNow, PageOnRestart
  <2> QED BY <2>2, Zenon DEF Store!storeVars
<1>13. CASE Next
  BY <1>1, <1>2, <1>3, <1>4, <1>5, <1>6, <1>7, <1>8, <1>9, <1>10, <1>11, <1>13, Zenon
     DEF Next, ClientStep, ProcessStep
<1> QED BY <1>12, <1>13, Zenon

\* The pool over the data file implements the page store, for every number of
\* frames, pages and clients and whether or not the device may fail: FetchPage,
\* eviction and write-back never change what a page reads as, a failing device
\* makes pages unreadable but never stale, and only a restart forgets.
THEOREM PoolImplementsStore == Spec => ImplementsPageStore
<1>1. Init => DownIsEmpty /\ Store!Init
  <2> SUFFICES ASSUME Init PROVE DownIsEmpty /\ Store!Init
    BY Zenon
  <2>1. /\ page_table = [p \in PageIds |-> NoFrame] /\ ~up
        /\ file.header.count = 0
    BY Zenon DEF Init, PMInit, NoHeader, HeaderOf
  <2>2. DownIsEmpty
    BY <2>1, Zenon DEF DownIsEmpty
  <2>3. \A p \in PageIds : ~(p < 0)
    BY PageManagerAssumption DEF PageIds
  <2>4. PageOnRestart = Store!AllUnreadable
    BY <2>1, <2>3, Zenon DEF PageOnRestart, Store!AllUnreadable
  <2> QED BY <2>1, <2>2, <2>4, NothingReadable, Zenon DEF Store!Init
<1>2. DownIsEmpty /\ [Next]_vars => DownIsEmpty'
  BY DownStaysEmpty, Zenon
<1>3. IInv /\ DownIsEmpty /\ [Next]_vars => [Store!Next]_(Store!storeVars)
  BY StepRefines, Zenon
<1>4. Spec => []IInv
  BY Invariance, Zenon
<1> QED
  BY <1>1, <1>2, <1>3, <1>4, PTL DEF Spec, ImplementsPageStore, Store!Spec
=============================================================================
