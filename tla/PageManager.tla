----------------------------- MODULE PageManager -----------------------------
(***************************************************************************)
(* The data file of MiniDB and the PageManager that owns it                *)
(* (src/storage/page_manager.cpp).                                         *)
(*                                                                         *)
(* `file' is everything on the far side of std::fstream file_: the page    *)
(* images, the counters in the header page, and the error state of the     *)
(* stream.  PageManager never clears the stream after a failed write, so   *)
(* one failure makes every later read and write of the process fail too.   *)
(*                                                                         *)
(* The operations are outcome sets: the results the call may have on a     *)
(* file f, so that a caller which makes several calls in one critical      *)
(* section chains them (BufferPool.tla).  A write reaches the file before  *)
(* the call returns (write, then flush), so a crash of the process loses   *)
(* nothing that a call has written.  The stream is looked at between the   *)
(* two, so a call whose flush is what fails still returns OK.              *)
(***************************************************************************)
EXTENDS Integers

CONSTANTS
  MaxPages,  \* bound on the page ids handed out; page 0 is the header page
  Values,    \* page images a client may write
  Blank,     \* the zero-filled page image
  Torn,      \* a page image left half-written by a failed write
  IOFaults   \* TRUE when the device may fail

ASSUME PageManagerAssumption ==
  /\ MaxPages \in Nat \ {0}
  /\ Blank \notin Values
  /\ Torn \notin Values \cup {Blank}
  /\ IOFaults \in BOOLEAN

VARIABLES
  file,          \* the file and its stream: [exists, pages, header, failed]
  next_page_id,  \* PageManager::next_page_id_
  page_count     \* PageManager::page_count_

PageIds == 1..MaxPages
kFirstDataPageId == 1
Content == Values \cup {Blank, Torn}

\* A header page that was never written reads as zeros.
HeaderOf(n, c) == [next |-> n, count |-> c]
NoHeader == HeaderOf(0, 0)

Files == [exists : BOOLEAN,
          pages  : [PageIds -> Content],
          header : [next : 0..MaxPages + 1, count : 0..MaxPages + 1],
          failed : BOOLEAN]

\* No file yet.
PMInit ==
  /\ file = [exists |-> FALSE, pages |-> [p \in PageIds |-> Blank],
             header |-> NoHeader, failed |-> FALSE]
  /\ next_page_id = 0
  /\ page_count = 0

\* The constructor.  A new file gets its header; an existing one is asked for
\* it, and a file that has none puts the stream into a failed state for good.
OpenFile(f) ==
  LET fresh  == HeaderOf(kFirstDataPageId, 1)
      Faults(R) == IF IOFaults THEN R ELSE {}
  IN  IF ~f.exists
      THEN {[file |-> [f EXCEPT !.exists = TRUE, !.header = fresh, !.failed = FALSE],
             at |-> fresh]}
           \cup Faults({[file |-> [f EXCEPT !.exists = TRUE, !.failed = TRUE],
                         at |-> fresh]})
      ELSE IF f.header = NoHeader
      THEN {[file |-> [f EXCEPT !.failed = TRUE], at |-> NoHeader]}
      ELSE {[file |-> [f EXCEPT !.failed = FALSE], at |-> f.header]}
           \cup Faults({[file |-> [f EXCEPT !.failed = TRUE], at |-> NoHeader]})

\* Mutant: the range check lets the first unallocated id through.
InRangeOffByOne(p) == p <= page_count

InRange(p) == p < page_count

\* WritePage(p, c) on f: the new file and whether the status is OK.  A device
\* error is seen by the write (not OK) or only by the flush after it (OK).
WritePage(f, p, c) ==
  IF ~InRange(p) \/ f.failed
  THEN {[file |-> f, ok |-> FALSE]}
  ELSE {[file |-> [f EXCEPT !.pages[p] = c], ok |-> TRUE]}
       \cup IF IOFaults
            THEN {[file |-> [f EXCEPT !.pages[p] = x, !.failed = TRUE], ok |-> b] :
                    x \in {f.pages[p], c, Torn}, b \in BOOLEAN}
            ELSE {}

\* ReadPage(p) on f: whether it succeeds; a device error is sticky.
ReadPage(f, p) ==
  IF ~InRange(p) \/ f.failed
  THEN {[file |-> f, ok |-> FALSE]}
  ELSE {[file |-> f, ok |-> TRUE]}
       \cup IF IOFaults THEN {[file |-> [f EXCEPT !.failed = TRUE], ok |-> FALSE]} ELSE {}

\* AllocatePage: a blank page at next_page_id, then the header with both
\* counters advanced.  The counters in memory advance whatever happens
\* (BumpCounters); what the flush of the page and the write of the header do
\* to the stream is not looked at.
AllocatePage(f) ==
  LET n     == next_page_id
      blank == [f EXCEPT !.pages[n] = Blank]
      done  == [blank EXCEPT !.header = HeaderOf(n + 1, page_count + 1)]
  IN  IF f.failed
      THEN {[file |-> f, ok |-> FALSE]}
      ELSE {[file |-> done, ok |-> TRUE]}
           \cup IF IOFaults
                THEN {[file |-> [f EXCEPT !.pages[n] = x, !.failed = TRUE], ok |-> b] :
                        x \in {f.pages[n], Blank, Torn}, b \in BOOLEAN}
                     \cup {[file |-> [done EXCEPT !.failed = TRUE], ok |-> TRUE]}
                ELSE {}

BumpCounters ==
  /\ next_page_id' = next_page_id + 1
  /\ page_count' = page_count + 1

\* The destructor writes the header once more.
CloseFile(f) ==
  IF f.failed
  THEN {f}
  ELSE {[f EXCEPT !.header = HeaderOf(next_page_id, page_count)]}
=============================================================================
