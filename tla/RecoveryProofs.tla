--------------------------- MODULE RecoveryProofs ---------------------------
(***************************************************************************)
(* The write-ahead log (wal_manager.cpp) and RecoveryManager::Recover      *)
(* (recovery_manager.cpp), for any number of records, pages, transactions  *)
(* and crashes.                                                            *)
(*                                                                         *)
(* The log in the file is in order, and complete until a write or the      *)
(* power fails.                                                            *)
(*                                                                         *)
(* Recover restores what committed.  A page is told apart from the log     *)
(* alone: what it shows (Shows), what the winners made of it               *)
(* (CommittedImage) and what lies under an update (BeforeImages).  While   *)
(* clients run, memory agrees with the log (Holding, Memory) and the file  *)
(* shows whatever a checkpoint has put out of reach of redo (OnDisk).      *)
(* Redone and Undone say how far the two passes have come.  That OnDisk    *)
(* survives them both is what makes a crash in Recover harmless.           *)
(***************************************************************************)
EXTENDS Recovery, TLAPS

(* The write-ahead log. *)

\* Records, as far as their numbers go.
Records == [lsn : Nat]

\* The log holds records, and a number is ready for the next one.
LogType ==
  /\ log \in Seq(Records)
  /\ next_lsn \in Nat
  /\ open \in BOOLEAN

OrderInv == LogType /\ LogInOrder

\* The records of the log have numbers.
LEMMA LogFacts ==
  ASSUME LogType
  PROVE  /\ Len(log) \in Nat
         /\ \A i \in 1..Len(log) : log[i].lsn \in Nat
<1>1. log \in Seq(Records) /\ Len(log) \in Nat
  BY DEF LogType
<1>2. \A i \in 1..Len(log) : log[i] \in Records
  BY <1>1
<1> QED BY <1>1, <1>2, Zenon DEF Records

\* A record written whole is the last of the log, or the log is out of step.
LEMMA WriteRecordFacts ==
  ASSUME LogType, WriteRecord(AnyRecord)
  PROVE  \/ /\ tail = "none" /\ tail' = "none"
            /\ log' = Append(log, [lsn |-> next_lsn])
            /\ Len(log') = Len(log) + 1
            /\ \A i \in 1..Len(log) : log'[i] = log[i]
            /\ log'[Len(log) + 1] = [lsn |-> next_lsn]
            /\ log' \in Seq(Records)
         \/ log' = log /\ tail # "none" /\ tail' \in {"mixed", "garbled"}
<1>1. [AnyRecord EXCEPT !.lsn = next_lsn] = [lsn |-> next_lsn]
  BY DEF AnyRecord
<1>2. CASE tail = "none"
  <2>1. [lsn |-> next_lsn] \in Records
    BY Zenon DEF LogType, Records
  <2>2. log' = Append(log, [lsn |-> next_lsn]) /\ tail' = "none"
    BY <1>1, <1>2, Zenon DEF WriteRecord, TailsWith
  <2> QED BY <1>2, <2>1, <2>2 DEF LogType
<1>3. CASE tail # "none"
  BY <1>3, Zenon DEF WriteRecord, TailsWith
<1> QED BY <1>2, <1>3, Zenon

\* An append, whole, in part or not at all, leaves the log in order.
LEMMA AppendPreservesOrder ==
  ASSUME OrderInv, AppendRecord(AnyRecord)
  PROVE  OrderInv'
<1>0. /\ LogType /\ LogInOrder
      /\ next_lsn' = next_lsn + 1 /\ open' = open /\ open
  BY Zenon DEF OrderInv, AppendRecord
<1>1. CASE log' = log /\ (tail' \in {"mixed", "garbled", "body", tail} \/ tail = "none")
  <2>1. LogType'
    BY <1>0, <1>1 DEF LogType
  <2>2. InStep' => InStep
    BY <1>1, Zenon DEF InStep
  <2>3. ASSUME InStep', NEW i \in 1..Len(log') PROVE log'[i].lsn < next_lsn'
    <3>1. log[i].lsn < next_lsn /\ log[i].lsn \in Nat /\ next_lsn \in Nat
      BY <1>0, <1>1, <2>2, <2>3, LogFacts, Zenon DEF LogInOrder, LogType
    <3> QED BY <1>0, <1>1, <3>1
  <2> QED BY <1>0, <1>1, <2>1, <2>3, Zenon DEF OrderInv, LogInOrder
<1>2. CASE /\ tail = "none" /\ tail' = "none"
           /\ Len(log') = Len(log) + 1
           /\ \A i \in 1..Len(log) : log'[i] = log[i]
           /\ log'[Len(log) + 1] = [lsn |-> next_lsn]
           /\ log' \in Seq(Records)
  <2>1. LogType'
    BY <1>0, <1>2 DEF LogType
  <2>2. \A i \in 1..Len(log) : log[i].lsn \in Nat /\ log[i].lsn < next_lsn
    BY <1>0, <1>2, LogFacts, Zenon DEF LogInOrder, InStep
  <2>3. log'[Len(log) + 1].lsn = next_lsn
    BY <1>2
  <2>4. Len(log) \in Nat
    BY <1>0, LogFacts, Zenon
  <2>5. ASSUME NEW i \in 1..Len(log'), NEW j \in 1..Len(log'), i < j
        PROVE  log'[i].lsn < log'[j].lsn
    <3>1. i \in 1..Len(log)
      BY <1>2, <2>4, <2>5
    <3>2. CASE j = Len(log) + 1
      BY <1>2, <2>2, <2>3, <3>1, <3>2, Zenon
    <3>3. CASE j \in 1..Len(log)
      BY <1>0, <1>2, <2>5, <3>1, <3>3, Zenon DEF LogInOrder
    <3> QED BY <1>2, <2>4, <3>2, <3>3
  <2>6. ASSUME NEW i \in 1..Len(log') PROVE log'[i].lsn < next_lsn'
    <3>1. CASE i = Len(log) + 1
      BY <1>0, <2>3, <3>1 DEF LogType
    <3>2. CASE i \in 1..Len(log)
      <4>1. log'[i].lsn \in Nat /\ log'[i].lsn < next_lsn /\ next_lsn \in Nat
        BY <1>0, <1>2, <2>2, <3>2, Zenon DEF LogType
      <4> QED BY <1>0, <4>1
    <3> QED BY <1>2, <2>4, <3>1, <3>2
  <2> QED BY <2>1, <2>5, <2>6, Zenon DEF OrderInv, LogInOrder
<1>3. CASE WriteRecord(AnyRecord)
  BY <1>0, <1>1, <1>2, <1>3, WriteRecordFacts, Zenon
<1>4. CASE WritePart
  BY <1>1, <1>4, Zenon DEF WritePart, TailsWith
<1>5. CASE UNCHANGED <<log, tail>>
  BY <1>1, <1>5, Zenon
<1> QED BY <1>3, <1>4, <1>5, Zenon DEF AppendRecord

\* A restart goes on numbering above every record that can be read.
LEMMA OpenPreservesOrder ==
  ASSUME OrderInv, OpenLog
  PROVE  OrderInv'
<1>0. /\ LogType /\ LogInOrder
      /\ log' = log /\ tail' = tail /\ open' = TRUE
      /\ next_lsn' \in IF tail = "garbled" THEN MisreadLsns ELSE {LsnAfterReopen}
  BY Zenon DEF OrderInv, OpenLog
<1>1. Len(log) \in Nat /\ \A i \in 1..Len(log) : log[i].lsn \in Nat
  BY <1>0, LogFacts, Zenon
<1>2. log # <<>> => Len(log) \in 1..Len(log)
  BY <1>0 DEF LogType
<1>3. next_lsn' \in Nat
  BY <1>0, <1>1, <1>2, WALAssumption DEF LsnAfterReopen, MisreadLsns
<1>4. ASSUME NEW i \in 1..Len(log), InStep PROVE log[i].lsn < next_lsn'
  <2>1. log # <<>>
    BY <1>4
  <2>2. next_lsn' = log[Len(log)].lsn + 1
    BY <1>0, <1>4, <2>1, Zenon DEF LsnAfterReopen, InStep
  <2>3. i = Len(log) \/ log[i].lsn < log[Len(log)].lsn
    BY <1>0, <1>1, <1>2, <2>1 DEF LogInOrder
  <2> QED BY <1>1, <1>2, <2>1, <2>2, <2>3
<1> QED BY <1>0, <1>3, <1>4, Zenon DEF OrderInv, LogType, LogInOrder, InStep

\* What a failure leaves of the log is in order.
LEMMA FailurePreservesOrder ==
  ASSUME OrderInv, CloseLog \/ CutAppend \/ PowerFailure
  PROVE  OrderInv'
<1>0. LogType /\ LogInOrder
  BY Zenon DEF OrderInv
<1>1. CASE CloseLog \/ CutAppend
  BY <1>0, <1>1, Zenon DEF OrderInv, CloseLog, CutAppend, WritePart, LogType, LogInOrder
<1>2. CASE PowerFailure
  <2>1. PICK n \in 0..Len(log) : log' = SubSeq(log, 1, n)
    BY <1>2, Zenon DEF PowerFailure
  <2>2. /\ log' \in Seq(Records) /\ Len(log') = n
        /\ \A i \in 1..n : log'[i] = log[i] /\ i \in 1..Len(log)
    BY <1>0, <2>1 DEF LogType
  <2> QED BY <1>0, <1>2, <2>2, Zenon DEF OrderInv, PowerFailure, LogType, LogInOrder
<1> QED BY <1>1, <1>2, Zenon

\* An empty log is in order.
LEMMA InitEstablishesOrder == WALInit => OrderInv
<1> SUFFICES ASSUME WALInit PROVE OrderInv
  BY Zenon
<1>1. log = <<>> /\ Len(log) = 0 /\ log \in Seq(Records)
  BY DEF WALInit
<1>2. next_lsn \in Nat
  BY Zenon DEF WALInit
<1>3. open \in BOOLEAN
  BY Zenon DEF WALInit
<1>4. LogInOrder
  BY <1>1 DEF LogInOrder
<1> QED BY <1>1, <1>2, <1>3, <1>4, Zenon DEF OrderInv, LogType

\* Appends, faults and restarts keep the log in order.
LEMMA NextPreservesOrder == OrderInv /\ [WALNext]_walVars => OrderInv'
<1> SUFFICES ASSUME OrderInv, [WALNext]_walVars PROVE OrderInv'
  BY Zenon
<1>1. CASE UNCHANGED walVars
  BY <1>1, Zenon DEF walVars, OrderInv, LogType, LogInOrder, InStep
<1> QED BY <1>1, AppendPreservesOrder, OpenPreservesOrder, FailurePreservesOrder, Zenon DEF WALNext

\* The log is numbered upwards whatever fails: a cut append, a failing stream,
\* a power failure, in any order and between any appends and restarts.
THEOREM LogStaysInOrder == WALSpec => []LogInOrder
<1>1. OrderInv => LogInOrder
  BY Zenon DEF OrderInv
<1> QED BY InitEstablishesOrder, NextPreservesOrder, <1>1, PTL DEF WALSpec

-----------------------------------------------------------------------------

\* The stream is in a failed state only after a write was lost.
CompleteInv ==
  /\ OrderInv
  /\ ~lost => stream_good
  /\ lsns \in Seq(Nat)
  /\ CompleteUntilMisread

\* An append on a good stream adds the same number to the log and to what was
\* returned, or lands behind a cut record and puts the log out of step.
LEMMA AppendKeepsComplete ==
  ASSUME CompleteInv, AppendRecord(AnyRecord), ~lost'
  PROVE  stream_good' /\ CompleteUntilMisread'
<1>0. LogType /\ CompleteUntilMisread /\ lsns \in Seq(Nat) /\ (~lost => stream_good)
  BY Zenon DEF CompleteInv, OrderInv
<1>1. /\ WriteRecord(AnyRecord) /\ stream_good' /\ ~lost
      /\ lsns' = Append(lsns, next_lsn)
  BY <1>0 DEF AppendRecord
<1>2. next_lsn \in Nat /\ Len(log) \in Nat /\ lsns' \in Seq(Nat)
  BY <1>0, <1>1 DEF LogType
<1>3. CASE log' = log /\ tail' \in {"mixed", "garbled"}
  BY <1>1, <1>3, Zenon DEF CompleteUntilMisread, InStep
<1>4. CASE /\ tail = "none" /\ tail' = "none"
           /\ Len(log') = Len(log) + 1
           /\ \A i \in 1..Len(log) : log'[i] = log[i]
           /\ log'[Len(log) + 1] = [lsn |-> next_lsn]
           /\ log' \in Seq(Records)
  <2>1. LsnsRead = lsns
    BY <1>0, <1>1, <1>4, Zenon DEF CompleteUntilMisread, InStep, LsnsRead
  <2>2. /\ Len(lsns) = Len(log)
        /\ \A i \in 1..Len(log) : lsns[i] = log[i].lsn
    BY <1>0, <1>2, <2>1 DEF LsnsRead
  <2>3. /\ Len(lsns') = Len(log')
        /\ \A i \in 1..Len(log') : lsns'[i] = log'[i].lsn
    BY <1>0, <1>1, <1>2, <1>4, <2>2
  <2>4. LsnsRead' = lsns'
    BY <1>2, <2>3 DEF LsnsRead
  <2> QED BY <1>1, <2>4, Zenon DEF CompleteUntilMisread, LsnsRead
<1> QED BY <1>0, <1>1, <1>3, <1>4, WriteRecordFacts, Zenon

\* The log is complete through crashes, cut appends and restarts.
LEMMA NextPreservesComplete == CompleteInv /\ [WALNext]_walVars => CompleteInv'
<1> SUFFICES ASSUME CompleteInv, [WALNext]_walVars PROVE CompleteInv'
  BY Zenon
<1>1. OrderInv'
  BY NextPreservesOrder, Zenon DEF CompleteInv
<1>2. CASE AppendRecord(AnyRecord)
  <2>1. lsns' \in Seq(Nat)
    BY <1>2 DEF AppendRecord, CompleteInv, OrderInv, LogType
  <2> QED BY <1>1, <1>2, <2>1, AppendKeepsComplete, Zenon DEF CompleteInv, CompleteUntilMisread
<1>3. CASE UNCHANGED walVars
  BY <1>1, <1>3, Zenon DEF walVars, CompleteInv, CompleteUntilMisread, LsnsRead, InStep
<1>4. CASE OpenLog
  BY <1>1, <1>4, Zenon DEF OpenLog, CompleteInv, CompleteUntilMisread, LsnsRead, InStep
<1>5. CASE CloseLog
  BY <1>1, <1>5, Zenon DEF CloseLog, CompleteInv, CompleteUntilMisread, LsnsRead, InStep
<1>6. CASE CutAppend
  BY <1>1, <1>6, Zenon DEF CutAppend, WritePart, TailsWith, CompleteInv, CompleteUntilMisread,
                    LsnsRead, InStep
<1>7. CASE PowerFailure
  BY <1>1, <1>7, Zenon DEF PowerFailure, CompleteInv, CompleteUntilMisread
<1> QED BY <1>2, <1>3, <1>4, <1>5, <1>6, <1>7, Zenon DEF WALNext

\* Until a write to the stream or the power fails, whatever crashes, in the
\* middle of an append too, ReadAll returns every record that was ever appended
\* as long as nothing is appended behind a cut record.
THEOREM AcceptedLogIsComplete == WALSpec => []CompleteUntilMisread
<1>1. WALInit => CompleteInv
  <2> SUFFICES ASSUME WALInit PROVE CompleteInv
    BY Zenon
  <2>1. log = <<>> /\ Len(log) = 0 /\ lsns = <<>> /\ lsns \in Seq(Nat)
    BY DEF WALInit
  <2>2. stream_good
    BY Zenon DEF WALInit
  <2>3. CompleteUntilMisread
    BY <2>1 DEF CompleteUntilMisread, LsnsRead
  <2> QED BY <2>1, <2>2, <2>3, InitEstablishesOrder, Zenon DEF CompleteInv
<1>2. CompleteInv => CompleteUntilMisread
  BY Zenon DEF CompleteInv
<1> QED BY <1>1, <1>2, NextPreservesComplete, PTL DEF WALSpec
-----------------------------------------------------------------------------
(* Recovery: the inductive invariant. *)

\* The records that Recover may find.
LogRecords ==
  [lsn : Nat, type : {"update", "commit", "abort", "checkpoint"},
   txn_id : TxnIds \cup {NoTxn}, page_id : Pages \cup {NoPage},
   before_image : Images, after_image : Images, run : Nat]

\* An update is about a page and of a transaction.
RecordsType ==
  /\ log \in Seq(LogRecords)
  /\ \A i \in 1..Len(log) : log[i].type = "update" =>
       log[i].page_id \in Pages /\ log[i].txn_id \in TxnIds

\* The types, and that pages are held only while clients run.
RecoveryType ==
  /\ RecordsType
  /\ next_lsn \in Nat /\ stream_good
  /\ stage \in {"down", "redo", "undo", "failed", "up"}
  /\ pos \in Nat
  /\ disk \in [Pages -> Images] /\ mem \in [Pages -> Images]
  /\ txn \in [TxnIds -> {"new", "active", "ended"}]
  /\ owner \in [Pages -> TxnIds \cup {NoTxn}]
  /\ saved \in [Pages -> Images] /\ committed \in [Pages -> Images]
  /\ run \in Nat
  /\ winners \subseteq Nat \X TxnIds
  /\ stage # "up" => owner = [p \in Pages |-> NoTxn]

\* Record i is of a transaction that committed.
Won(i) == Instance(i) \in winners

\* What is known of the past: no record and no winner is of a later run, every
\* winner that changed a page has its commit record, and redo starts inside
\* the log or right behind it.
Past ==
  /\ \A i \in 1..Len(log) : log[i].run <= run
  /\ \A w \in winners : w[1] <= run
  /\ \A i \in 1..Len(log) : log[i].type = "update" /\ Won(i) => log[i].txn_id \in CommittedIds
  /\ RedoStart \in 1..Len(log) + 1

\* The image of p after the first n records, if every update among them is
\* counted, is im.
Shows(p, n, im) ==
  \/ \E i \in UpdatesOf(p) :
       /\ i <= n /\ im = log[i].after_image
       /\ \A j \in UpdatesOf(p) : j <= n => j <= i
  \/ im = Blank /\ \A j \in UpdatesOf(p) : j > n

\* The committed image is what the last update of a winner left.
CommittedImage(p) ==
  \/ \E i \in UpdatesOf(p) :
       /\ Won(i) /\ committed[p] = log[i].after_image
       /\ \A j \in UpdatesOf(p) : i < j => ~Won(j)
  \/ committed[p] = Blank /\ \A j \in UpdatesOf(p) : ~Won(j)

\* The before image of an update behind winners (and its own transaction) alone
\* is what the update before it left.
BeforeImages(p) ==
  \A i \in UpdatesOf(p) :
    (\A j \in UpdatesOf(p) : j < i => Won(j) \/ Instance(j) = Instance(i))
      => Shows(p, i - 1, log[i].before_image)

\* The records and the winners of this run are of ids that it has handed out.
ThisRun ==
  stage # "down" =>
    /\ \A i \in 1..Len(log) : log[i].type = "update" /\ log[i].run = run =>
         txn[log[i].txn_id] # "new"
    /\ \A t \in TxnIds : txn[t] # "ended" => <<run, t>> \notin winners

\* The owner of a page is the active transaction that changed it.  Its updates
\* are the last of the page, and memory shows what the very last one left.
Holding(p) ==
  /\ stage # "down" => \A i \in UpdatesOf(p) :
       log[i].run = run /\ txn[log[i].txn_id] = "active" => owner[p] = log[i].txn_id
  /\ owner[p] # NoTxn =>
       /\ txn[owner[p]] = "active"
       /\ \E i \in UpdatesOf(p) :
            /\ Instance(i) = <<run, owner[p]>> /\ mem[p] = log[i].after_image
            /\ \A j \in UpdatesOf(p) : j <= i
       /\ \A i \in UpdatesOf(p) : Instance(i) # <<run, owner[p]>> =>
            \A j \in UpdatesOf(p) : Instance(j) = <<run, owner[p]>> => i < j

\* An update of p that committed, or that its owner may still commit.
Settled(p, i) == Won(i) \/ Instance(i) = <<run, owner[p]>>

\* UndoSafe, should the owner of p commit now.
TellsApart(p) ==
  \A i \in UpdatesOf(p) : ~Settled(p, i) =>
    /\ \A j \in UpdatesOf(p) : i < j => ~Won(j)
    /\ log[i].txn_id \notin CommittedIds

\* Clients see the committed image, apart from what the owner has changed.
Memory(p) ==
  stage = "up" /\ TellsApart(p) =>
    committed[p] = IF owner[p] = NoTxn THEN mem[p] ELSE saved[p]

\* Redo needs no record before the checkpoint: the file shows them all.
OnDisk(p) ==
  (\A i \in UpdatesOf(p) : Settled(p, i) /\ i < RedoStart) => Shows(p, Len(log), disk[p])

\* Recover goes on only with a log that it could read, and stays inside it.
Progress ==
  /\ stage = "redo" => InStep /\ pos \in RedoStart..Len(log) + 1
  /\ stage = "undo" => InStep /\ pos \in 0..Len(log)

\* While Recover redoes, the file shows the records before pos, if one of them
\* is behind the checkpoint.
Redone(p) ==
  stage = "redo" =>
    \/ \A i \in UpdatesOf(p) : i < pos => i < RedoStart
    \/ Shows(p, pos - 1, disk[p])

\* While Recover undoes: a page without losers shows the last record, and any
\* other page the before image of the first loser from pos on.
Undone(p) ==
  stage = "undo" =>
    /\ (\A i \in UpdatesOf(p) : Won(i)) => Shows(p, Len(log), disk[p])
    /\ UndoSafe(p) =>
         \/ \A i \in UpdatesOf(p) : i > pos => Won(i)
         \/ \E i \in UpdatesOf(p) :
              /\ i > pos /\ ~Won(i) /\ disk[p] = log[i].before_image
              /\ \A j \in UpdatesOf(p) : j > pos /\ j < i => Won(j)

\* All of this, for one page.
PageInv(p) ==
  /\ CommittedImage(p)
  /\ BeforeImages(p)
  /\ Holding(p)
  /\ Memory(p)
  /\ OnDisk(p)
  /\ Redone(p)
  /\ Undone(p)

RecoveryBody == Past /\ ThisRun /\ \A p \in Pages : PageInv(p)

\* The inductive invariant.
RecoveryInv ==
  /\ RecoveryType
  /\ Progress
  /\ InStep => RecoveryBody
-----------------------------------------------------------------------------

\* A crash may cut an append short; a write to the log does not fail.
WritesSucceed == "stream" \notin Faults

\* No transaction has the id that stands for none.
LEMMA NoneIsNoId == \A t \in TxnIds : t # NoTxn
BY RecoveryAssumption DEF TxnIds, NoTxn

\* The records of the log and the updates of a page among them.
LEMMA UpdateFacts ==
  ASSUME RecoveryType
  PROVE  /\ Len(log) \in Nat
         /\ \A p \in Pages : \A i \in UpdatesOf(p) :
              /\ i \in 1..Len(log) /\ i \in Nat /\ log[i].type = "update"
              /\ log[i].page_id = p /\ log[i].txn_id \in TxnIds /\ log[i].run \in Nat
              /\ log[i].txn_id # NoTxn
<1>1. Len(log) \in Nat /\ \A i \in 1..Len(log) : log[i] \in LogRecords
  BY DEF RecoveryType, RecordsType
<1>2. \A i \in 1..Len(log) : log[i].run \in Nat
  BY <1>1, Zenon DEF LogRecords
<1> QED BY <1>1, <1>2, NoneIsNoId DEF RecoveryType, RecordsType, UpdatesOf

\* The record as it is in the log.
Numbered(type, t, p, before, after) ==
  [lsn |-> next_lsn, type |-> type, txn_id |-> t, page_id |-> p,
   before_image |-> before, after_image |-> after, run |-> run]

\* What an append leaves, if the log is still in step: one more record.
LEMMA AppendFacts ==
  ASSUME RecoveryType, WritesSucceed,
         NEW type \in {"update", "commit", "abort", "checkpoint"},
         NEW t \in TxnIds \cup {NoTxn}, NEW p \in Pages \cup {NoPage},
         NEW before \in Images, NEW after \in Images,
         type = "update" => t \in TxnIds /\ p \in Pages,
         AppendRecord(Record(type, t, p, before, after))
  PROVE  /\ next_lsn' \in Nat /\ stream_good' /\ open' = open /\ RecordsType'
         /\ \/ log' = log /\ ~InStep'
            \/ /\ log' = Append(log, Numbered(type, t, p, before, after))
               /\ Len(log) \in Nat /\ Len(log') = Len(log) + 1
               /\ \A i \in 1..Len(log) : log'[i] = log[i]
               /\ log'[Len(log) + 1] = Numbered(type, t, p, before, after)
               /\ InStep
<1>1. /\ next_lsn' \in Nat /\ stream_good' /\ open' = open
      /\ WriteRecord(Record(type, t, p, before, after))
  <2>1. next_lsn \in Nat /\ stream_good
    BY Zenon DEF RecoveryType
  <2>2. "stream" \notin Faults
    BY Zenon DEF WritesSucceed
  <2>3. /\ next_lsn' = next_lsn + 1 /\ stream_good' /\ open' = open
        /\ WriteRecord(Record(type, t, p, before, after))
    BY <2>1, <2>2, Zenon DEF AppendRecord
  <2> QED BY <2>1, <2>3
<1>2. [Record(type, t, p, before, after) EXCEPT !.lsn = next_lsn]
        = Numbered(type, t, p, before, after)
  BY DEF Record, Numbered
<1>3. Numbered(type, t, p, before, after) \in LogRecords
  BY Zenon DEF LogRecords, Numbered, RecoveryType
<1>4. RecordsType
  BY Zenon DEF RecoveryType
<1>5. CASE tail = "none"
  <2>1. log' = Append(log, Numbered(type, t, p, before, after)) /\ InStep
    BY <1>1, <1>2, <1>5, Zenon DEF WriteRecord, InStep
  <2>2. log \in Seq(LogRecords)
    BY <1>4, Zenon DEF RecordsType
  <2>3. /\ log' \in Seq(LogRecords)
        /\ Len(log) \in Nat /\ Len(log') = Len(log) + 1
        /\ \A i \in 1..Len(log) : log'[i] = log[i]
        /\ log'[Len(log) + 1] = Numbered(type, t, p, before, after)
    BY <1>3, <2>1, <2>2
  <2>4. ASSUME NEW i \in 1..Len(log'), log'[i].type = "update"
        PROVE  log'[i].page_id \in Pages /\ log'[i].txn_id \in TxnIds
    <3>1. CASE i \in 1..Len(log)
      BY <1>4, <2>3, <2>4, <3>1, Zenon DEF RecordsType
    <3>2. CASE i = Len(log) + 1
      BY <2>3, <2>4, <3>2 DEF Numbered
    <3> QED BY <2>3, <3>1, <3>2
  <2> QED BY <1>1, <2>1, <2>3, <2>4, Zenon DEF RecordsType
<1>6. CASE tail # "none"
  BY <1>1, <1>4, <1>6, Zenon DEF WriteRecord, TailsWith, InStep, RecordsType
<1> QED BY <1>5, <1>6, Zenon

\* A log that is out of step stays so, whatever is appended.
LEMMA AppendInStep ==
  ASSUME NEW r, AppendRecord(r), InStep'
  PROVE  InStep
BY Zenon DEF AppendRecord, WriteRecord, WritePart, TailsWith, InStep

\* What no step of a client takes away.
LEMMA ClientTypes ==
  ASSUME RecoveryType, WritesSucceed, ClientStep
  PROVE  RecoveryType'
<1>0. RecordsType /\ next_lsn \in Nat /\ stream_good /\ Blank \in Images
  BY RecoveryAssumption, Zenon DEF RecoveryType
<1>1. ASSUME NEW t \in TxnIds, Begin(t) PROVE RecoveryType'
  BY <1>0, <1>1, Zenon DEF Begin, RecoveryType, RecordsType, walVars, winnerVars
<1>2. ASSUME NEW t \in TxnIds, NEW p \in Pages, NEW image \in Images, UpdatePage(t, p, image)
      PROVE  RecoveryType'
  <2>1. mem[p] \in Images
    BY Zenon DEF RecoveryType
  <2>2. RecordsType' /\ next_lsn' \in Nat /\ stream_good'
    BY <1>2, <2>1, AppendFacts, Zenon DEF UpdatePage
  <2> QED BY <1>2, <2>1, <2>2, Zenon DEF UpdatePage, RecoveryType, winnerVars
<1>3. ASSUME NEW t \in TxnIds, CommitTxn(t) PROVE RecoveryType'
  <2>1. RecordsType' /\ next_lsn' \in Nat /\ stream_good'
    BY <1>0, <1>3, AppendFacts, Zenon DEF CommitTxn
  <2> QED BY <1>3, <2>1 DEF CommitTxn, RecoveryType, Released
<1>4. ASSUME NEW t \in TxnIds, AbortTxn(t) PROVE RecoveryType'
  <2>1. RecordsType' /\ next_lsn' \in Nat /\ stream_good'
    BY <1>0, <1>4, AppendFacts, Zenon DEF AbortTxn
  <2> QED BY <1>4, <2>1, Zenon DEF AbortTxn, RecoveryType, Released, winnerVars
<1>5. ASSUME NEW p \in Pages, WriteBackPage(p) PROVE RecoveryType'
  BY <1>0, <1>5, Zenon DEF WriteBackPage, RecoveryType, RecordsType, walVars, clientVars, winnerVars
<1>6. CASE Checkpoint
  <2>1. RecordsType' /\ next_lsn' \in Nat /\ stream_good'
    BY <1>0, <1>6, AppendFacts, Zenon DEF Checkpoint
  <2> QED BY <1>6, <2>1, Zenon DEF Checkpoint, RecoveryType, clientVars, winnerVars
<1> QED BY <1>1, <1>2, <1>3, <1>4, <1>5, <1>6, Zenon DEF ClientStep

\* Opening the log changes only the number that is next.
LEMMA OpenFacts ==
  ASSUME RecoveryType, OpenLog
  PROVE  /\ next_lsn' \in Nat /\ stream_good'
         /\ log' = log /\ tail' = tail
<1>1. /\ stream_good' /\ log' = log /\ tail' = tail
      /\ next_lsn' \in IF tail = "garbled" THEN MisreadLsns ELSE {LsnAfterReopen}
  BY Zenon DEF OpenLog
<1>2. log \in Seq(LogRecords)
  BY Zenon DEF RecoveryType, RecordsType
<1>3. log # <<>> => log[Len(log)] \in LogRecords
  BY <1>2
<1>4. LsnAfterReopen \in Nat
  BY <1>3 DEF LogRecords, LsnAfterReopen
<1>5. next_lsn' \in Nat
  BY <1>1, <1>4, WALAssumption DEF MisreadLsns
<1> QED BY <1>1, <1>5, Zenon

\* Recover leaves images in the pages, and stays inside the log.
LEMMA RecoverTypes ==
  ASSUME RecoveryType, Progress, InStep => Past,
         Start \/ RecoverStep \/ RecoverFails
  PROVE  RecoveryType' /\ Progress'
<1>0. /\ RecordsType /\ Len(log) \in Nat
      /\ \A i \in 1..Len(log) : log[i].before_image \in Images /\ log[i].after_image \in Images
  <2>1. RecordsType /\ Len(log) \in Nat /\ \A i \in 1..Len(log) : log[i] \in LogRecords
    BY DEF RecoveryType, RecordsType
  <2> QED BY <2>1, Zenon DEF LogRecords
<1>1. CASE Start
  <2>1. /\ next_lsn' \in Nat /\ stream_good' /\ log' = log /\ tail' = tail
    BY <1>1, OpenFacts, Zenon DEF Start
  <2>2. CASE tail = "garbled"
    BY <1>0, <1>1, <2>1, <2>2 DEF Start, Misread, RecoveryType, RecordsType, Progress, winnerVars
  <2>3. CASE tail # "garbled"
    <3>1. ReadAllOk <=> InStep
      BY <2>3, Zenon DEF ReadAllOk
    <3>2. InStep => RedoStart \in 1..Len(log) + 1
      BY Zenon DEF Past
    <3>3. RedoStart' = RedoStart /\ InStep' = InStep
      BY <2>1 DEF RedoStart, Checkpoints, InStep
    <3>4. /\ stage' = IF InStep THEN "redo" ELSE "failed"
          /\ pos' = IF InStep THEN RedoStart ELSE 0
          /\ UNCHANGED <<disk, mem, saved, txn, owner, winners, committed>> /\ run' = run + 1
          /\ stage = "down"
      BY <1>1, <2>3, <3>1, Zenon DEF Start, winnerVars
    <3>5. Progress' /\ pos' \in Nat
      BY <1>0, <2>1, <3>2, <3>3, <3>4 DEF Progress
    <3> QED BY <2>1, <3>4, <3>5 DEF RecoveryType, RecordsType
  <2> QED BY <2>2, <2>3, Zenon
<1>2. CASE RedoStep \/ RedoDone \/ UndoStep \/ UndoDone \/ RecoverFails
  <2>1. /\ UNCHANGED <<log, tail, next_lsn, stream_good>>
        /\ UNCHANGED <<txn, owner, run, winners, committed>>
    BY <1>2, Zenon DEF RedoStep, RedoDone, UndoStep, UndoDone, RecoverFails, walVars, clientVars,
                       winnerVars
  <2>2. RedoStart' = RedoStart /\ InStep' = InStep
    BY <2>1 DEF RedoStart, Checkpoints, InStep
  <2>3. InStep => RedoStart \in 1..Len(log) + 1
    BY Zenon DEF Past
  <2>4. /\ disk' \in [Pages -> Images] /\ mem' \in [Pages -> Images] /\ saved' \in [Pages -> Images]
        /\ stage \in {"redo", "undo"} /\ stage' \in {"redo", "undo", "failed", "up"}
    <3>1. CASE RedoStep
      <4>1. pos \in 1..Len(log)
        BY <1>0, <2>3, <3>1 DEF RedoStep, Progress
      <4> QED BY <1>0, <3>1, <4>1, Zenon DEF RedoStep, RecoveryType, clientVars
    <3>2. CASE UndoStep
      <4>1. pos \in 1..Len(log)
        BY <1>0, <3>2 DEF UndoStep, Progress
      <4> QED BY <1>0, <3>2, <4>1, Zenon DEF UndoStep, RecoveryType, clientVars
    <3>3. CASE RedoDone \/ UndoDone \/ RecoverFails
      BY <3>3, Zenon DEF RedoDone, UndoDone, RecoverFails, RecoveryType, clientVars
    <3> QED BY <1>2, <3>1, <3>2, <3>3, Zenon
  <2>5. Progress' /\ pos' \in Nat
    <3>1. CASE RedoStep
      BY <1>0, <2>1, <2>2, <2>3, <3>1 DEF RedoStep, Progress
    <3>2. CASE UndoStep
      BY <1>0, <2>1, <2>2, <3>2 DEF UndoStep, Progress
    <3>3. CASE RedoDone
      BY <1>0, <2>1, <2>2, <3>3 DEF RedoDone, Progress
    <3>4. CASE UndoDone \/ RecoverFails
      BY <3>4 DEF UndoDone, RecoverFails, Progress
    <3> QED BY <1>2, <3>1, <3>2, <3>3, <3>4, Zenon
  <2> QED BY <2>1, <2>4, <2>5, Zenon DEF RecoveryType, RecordsType
<1> QED BY <1>1, <1>2, Zenon DEF RecoverStep

\* A crash leaves the records of the log and a new process.
LEMMA CrashTypes ==
  ASSUME RecoveryType, Crash
  PROVE  /\ RecoveryType' /\ Progress'
         /\ log' = log /\ (InStep' => InStep) /\ stage' = "down"
         /\ UNCHANGED <<disk, run, winners, committed>>
<1>1. /\ UNCHANGED <<log, next_lsn, stream_good>> /\ (InStep' => InStep)
  BY Zenon DEF Crash, CloseLog, CutAppend, WritePart, TailsWith, InStep
<1>2. /\ UNCHANGED <<disk, run, winners, committed>>
      /\ stage' = "down" /\ pos' = 0
  BY Zenon DEF Crash, winnerVars
<1>3. /\ mem' \in [Pages -> Images] /\ saved' \in [Pages -> Images]
      /\ txn' \in [TxnIds -> {"new", "active", "ended"}]
      /\ owner' = [p \in Pages |-> NoTxn]
  BY RecoveryAssumption, Zenon DEF Crash, NewProcess
<1> QED BY <1>1, <1>2, <1>3, Zenon DEF RecoveryType, RecordsType, Progress
-----------------------------------------------------------------------------

\* What is said of the records stays true while there are no new ones and
\* nobody commits.
LEMMA RecordsSame ==
  ASSUME UNCHANGED <<log, winners>>
  PROVE  /\ \A p : UpdatesOf(p)' = UpdatesOf(p) /\ UndoSafe(p)' = UndoSafe(p)
         /\ \A i : Won(i)' = Won(i) /\ Instance(i)' = Instance(i)
         /\ CommittedIds' = CommittedIds /\ RedoStart' = RedoStart
         /\ \A p, n, im : Shows(p, n, im)' = Shows(p, n, im)
<1>1. \A p : UpdatesOf(p)' = UpdatesOf(p)
  BY Zenon DEF UpdatesOf
<1>2. \A i : Won(i)' = Won(i) /\ Instance(i)' = Instance(i)
  BY Zenon DEF Won, Instance
<1>3. CommittedIds' = CommittedIds
  BY Zenon DEF CommittedIds
<1>4. RedoStart' = RedoStart
  BY DEF RedoStart, Checkpoints
<1>5. \A p, n, im : Shows(p, n, im)' = Shows(p, n, im)
  BY <1>1, Zenon DEF Shows
<1>6. \A p : UndoSafe(p)' = UndoSafe(p)
  BY <1>1, <1>2, <1>3, Zenon DEF UndoSafe
<1> QED BY <1>1, <1>2, <1>3, <1>4, <1>5, <1>6, Zenon

\* The committed images and the before images stay what they are.
LEMMA ImagesSame ==
  ASSUME UNCHANGED <<log, winners, committed>>, NEW p \in Pages, CommittedImage(p), BeforeImages(p)
  PROVE  CommittedImage(p)' /\ BeforeImages(p)'
<1>1. CommittedImage(p)'
  BY RecordsSame, Zenon DEF CommittedImage
<1>2. BeforeImages(p)'
  BY RecordsSame DEF BeforeImages
<1> QED BY <1>1, <1>2, Zenon

\* So does what is known of the past, in this run and in the next.
LEMMA PastSame ==
  ASSUME RecoveryType, Past, UNCHANGED <<log, winners>>, run' \in {run, run + 1}
  PROVE  Past'
<1>1. run \in Nat /\ winners \subseteq Nat \X TxnIds
      /\ \A i \in 1..Len(log) : log[i].run \in Nat
  <2>1. \A i \in 1..Len(log) : log[i] \in LogRecords
    BY DEF RecoveryType, RecordsType
  <2> QED BY <2>1, Zenon DEF RecoveryType, LogRecords
<1>2. \A i \in 1..Len(log) : log[i].run <= run'
  BY <1>1 DEF Past
<1>3. \A w \in winners : w[1] <= run'
  BY <1>1 DEF Past
<1> QED BY <1>2, <1>3, RecordsSame, Zenon DEF Past

\* A page that nobody holds is settled by commits alone.
LEMMA SettledByCommit ==
  ASSUME RecoveryType, NEW p \in Pages, owner[p] = NoTxn
  PROVE  /\ \A i \in UpdatesOf(p) : Settled(p, i) <=> Won(i)
         /\ TellsApart(p) <=> UndoSafe(p)
<1>1. \A i \in UpdatesOf(p) : Instance(i) # <<run, owner[p]>>
  BY UpdateFacts, Zenon DEF Instance
<1>2. \A i \in UpdatesOf(p) : Settled(p, i) <=> Won(i)
  BY <1>1, Zenon DEF Settled
<1> QED BY <1>2, Zenon DEF TellsApart, UndoSafe, Won

\* If all updates of p have committed, the last of them left its image.
LEMMA AllWon ==
  ASSUME RecoveryType, NEW p \in Pages, CommittedImage(p), \A i \in UpdatesOf(p) : Won(i)
  PROVE  Shows(p, Len(log), committed[p])
<1>1. Len(log) \in Nat /\ \A i \in UpdatesOf(p) : i \in 1..Len(log)
  BY UpdateFacts, Zenon
<1>2. CASE committed[p] = Blank /\ \A j \in UpdatesOf(p) : ~Won(j)
  BY <1>2, Zenon DEF Shows
<1>3. ASSUME NEW i \in UpdatesOf(p), committed[p] = log[i].after_image,
             \A j \in UpdatesOf(p) : i < j => ~Won(j)
      PROVE  Shows(p, Len(log), committed[p])
  BY <1>1, <1>3 DEF Shows
<1> QED BY <1>2, <1>3, Zenon DEF CommittedImage
-----------------------------------------------------------------------------

\* No record and no winner is of the run that begins.
LEMMA StartPreserves ==
  ASSUME RecoveryType, RecoveryBody, InStep, Start
  PROVE  RecoveryBody'
<1>1. /\ stage = "down" /\ run' = run + 1 /\ log' = log
      /\ UNCHANGED <<disk, mem, saved, txn, owner, winners, committed>>
      /\ stage' = "redo" /\ pos' = RedoStart
  BY OpenFacts, Zenon DEF Start, winnerVars, InStep, ReadAllOk
<1>2. Past /\ run \in Nat
  BY Zenon DEF RecoveryBody, RecoveryType
<1>3. Past'
  BY <1>1, <1>2, PastSame, Zenon
<1>4. \A i \in 1..Len(log) : log[i].run # run'
  <2>1. \A i \in 1..Len(log) : log[i] \in LogRecords
    BY DEF RecoveryType, RecordsType
  <2> QED BY <1>1, <1>2, <2>1 DEF LogRecords, Past
<1>5. \A t \in TxnIds : <<run', t>> \notin winners
  BY <1>1, <1>2 DEF Past
<1>6. ThisRun'
  BY <1>1, <1>4, <1>5, Zenon DEF ThisRun
<1>7. ASSUME NEW p \in Pages PROVE PageInv(p)'
  <2>1. PageInv(p) /\ owner[p] = NoTxn
    BY <1>1, Zenon DEF RecoveryBody, RecoveryType
  <2>2. CommittedImage(p)' /\ BeforeImages(p)'
    BY <1>1, <2>1, ImagesSame, Zenon DEF PageInv
  <2>3. Holding(p)'
    BY <1>1, <1>4, <2>1, Zenon DEF Holding, UpdatesOf
  <2>4. Memory(p)' /\ Undone(p)'
    BY <1>1, Zenon DEF Memory, Undone
  <2>5. Redone(p)'
    BY <1>1, RecordsSame, Zenon DEF Redone
  <2>6. \A i \in UpdatesOf(p) : Settled(p, i)' => Settled(p, i)
    BY <1>1, <1>4, RecordsSame, Zenon DEF Settled, Instance, UpdatesOf
  <2>7. OnDisk(p)'
    BY <1>1, <2>1, <2>6, RecordsSame, Zenon DEF PageInv, OnDisk
  <2> QED BY <2>2, <2>3, <2>4, <2>5, <2>7, Zenon DEF PageInv
<1> QED BY <1>3, <1>6, <1>7, Zenon DEF RecoveryBody

\* What the passes of Recover leave alone, as long as they do not touch a page
\* whose updates all committed before the checkpoint.
LEMMA RecoverKeeps ==
  ASSUME RecoveryType, RecoveryBody, NEW p \in Pages,
         stage \in {"redo", "undo"}, stage' \in {"redo", "undo", "failed"},
         UNCHANGED <<log, txn, owner, run, winners, committed>>,
         (\A i \in UpdatesOf(p) : Won(i) /\ i < RedoStart) => disk'[p] = disk[p]
  PROVE  /\ Past' /\ ThisRun'
         /\ CommittedImage(p)' /\ BeforeImages(p)' /\ Holding(p)' /\ Memory(p)' /\ OnDisk(p)'
<1>1. Past /\ ThisRun /\ PageInv(p) /\ owner[p] = NoTxn /\ owner'[p] = NoTxn
  BY Zenon DEF RecoveryBody, RecoveryType
<1>2. Past'
  BY <1>1, PastSame, Zenon DEF RecoveryType
<1>3. CommittedImage(p)' /\ BeforeImages(p)'
  BY <1>1, ImagesSame, Zenon DEF PageInv
<1>4. ThisRun' /\ Memory(p)'
  BY <1>1, Zenon DEF ThisRun, Memory
<1>5. Holding(p)'
  BY <1>1, RecordsSame, Zenon DEF Holding, PageInv
<1>6. \A i \in UpdatesOf(p) : Settled(p, i)' <=> Won(i)
  BY <1>1, SettledByCommit, RecordsSame, Zenon DEF Settled
<1>7. OnDisk(p)'
  BY <1>1, <1>6, SettledByCommit, RecordsSame, Zenon DEF OnDisk, PageInv
<1> QED BY <1>2, <1>3, <1>4, <1>5, <1>7, Zenon

\* Redo: the last update behind the checkpoint that was met has left its image.
LEMMA RedoStepPreserves ==
  ASSUME RecoveryType, Progress, RecoveryBody, InStep, RedoStep
  PROVE  RecoveryBody'
<1>1. /\ stage = "redo" /\ stage' = "redo" /\ pos <= Len(log) /\ pos' = pos + 1
      /\ UNCHANGED <<log, txn, owner, run, winners, committed>>
      /\ disk' = IF log[pos].type = "update"
                 THEN [disk EXCEPT ![log[pos].page_id] = log[pos].after_image]
                 ELSE disk
  BY Zenon DEF RedoStep, walVars, clientVars, winnerVars
<1>2. /\ pos \in 1..Len(log) /\ pos >= RedoStart /\ RedoStart \in Nat /\ Len(log) \in Nat
      /\ disk \in [Pages -> Images]
  BY <1>1, UpdateFacts DEF Progress, RecoveryBody, Past, RecoveryType
<1>3. ASSUME NEW p \in Pages PROVE Past' /\ ThisRun' /\ PageInv(p)'
  <2>1. /\ pos \in UpdatesOf(p) => disk'[p] = log[pos].after_image
        /\ pos \notin UpdatesOf(p) => disk'[p] = disk[p]
    BY <1>1, <1>2, Zenon DEF UpdatesOf
  <2>2. (\A i \in UpdatesOf(p) : Won(i) /\ i < RedoStart) => disk'[p] = disk[p]
    BY <1>2, <2>1
  <2>3. /\ Past' /\ ThisRun'
        /\ CommittedImage(p)' /\ BeforeImages(p)' /\ Holding(p)' /\ Memory(p)' /\ OnDisk(p)'
    BY <1>1, <2>2, RecoverKeeps, Zenon
  <2>4. Redone(p) /\ \A i \in UpdatesOf(p) : i \in Nat
    BY UpdateFacts, Zenon DEF RecoveryBody, PageInv
  <2>5. Redone(p)'
    <3>1. CASE pos \in UpdatesOf(p)
      <4>1. Shows(p, pos, disk'[p])
        BY <1>2, <2>1, <3>1, <2>4 DEF Shows
      <4> QED BY <1>1, <1>2, <4>1, RecordsSame DEF Redone
    <3>2. CASE pos \notin UpdatesOf(p) /\ \A i \in UpdatesOf(p) : i < pos => i < RedoStart
      <4>1. \A i \in UpdatesOf(p) : i < pos + 1 => i < RedoStart
        BY <1>2, <2>4, <3>2
      <4> QED BY <1>1, <4>1, RecordsSame, Zenon DEF Redone
    <3>3. CASE pos \notin UpdatesOf(p) /\ Shows(p, pos - 1, disk[p])
      <4>1. Shows(p, pos, disk'[p])
        BY <1>2, <2>1, <2>4, <3>3 DEF Shows
      <4> QED BY <1>1, <1>2, <4>1, RecordsSame DEF Redone
    <3> QED BY <1>1, <2>4, <3>1, <3>2, <3>3, Zenon DEF Redone
  <2>6. Undone(p)'
    BY <1>1, Zenon DEF Undone
  <2> QED BY <2>3, <2>5, <2>6, Zenon DEF PageInv
<1>4. Past' /\ ThisRun'
  BY <1>1, PastSame, Zenon DEF RecoveryBody, RecoveryType, ThisRun
<1> QED BY <1>3, <1>4, Zenon DEF RecoveryBody

\* Redo is done: a page all of whose updates committed shows the last.
LEMMA RedoDonePreserves ==
  ASSUME RecoveryType, Progress, RecoveryBody, InStep, RedoDone
  PROVE  RecoveryBody'
<1>1. /\ stage = "redo" /\ stage' = "undo" /\ pos > Len(log) /\ pos' = Len(log)
      /\ UNCHANGED <<log, txn, owner, run, winners, committed>> /\ disk' = disk
  BY Zenon DEF RedoDone, walVars, clientVars, winnerVars
<1>2. pos = Len(log) + 1 /\ Len(log) \in Nat /\ RedoStart \in Nat
  BY <1>1, UpdateFacts DEF Progress, RecoveryBody, Past
<1>3. ASSUME NEW p \in Pages PROVE PageInv(p)'
  <2>1. CommittedImage(p)' /\ BeforeImages(p)' /\ Holding(p)' /\ Memory(p)' /\ OnDisk(p)'
    BY <1>1, RecoverKeeps, Zenon
  <2>2. Redone(p)'
    BY <1>1, Zenon DEF Redone
  <2>3. /\ Redone(p) /\ OnDisk(p) /\ owner[p] = NoTxn
        /\ \A i \in UpdatesOf(p) : i \in 1..Len(log)
    BY <1>1, UpdateFacts, Zenon DEF RecoveryBody, PageInv, RecoveryType
  <2>4. ASSUME \A i \in UpdatesOf(p) : Won(i) PROVE Shows(p, Len(log), disk[p])
    <3>1. CASE \A i \in UpdatesOf(p) : i < pos => i < RedoStart
      BY <1>2, <2>3, <2>4, <3>1, SettledByCommit DEF OnDisk
    <3>2. CASE Shows(p, pos - 1, disk[p])
      BY <1>2, <3>2
    <3> QED BY <1>1, <2>3, <3>1, <3>2, Zenon DEF Redone
  <2>5. Undone(p)'
    BY <1>1, <1>2, <2>3, <2>4, RecordsSame DEF Undone
  <2> QED BY <2>1, <2>2, <2>5, Zenon DEF PageInv
<1>4. Past' /\ ThisRun'
  BY <1>1, PastSame, Zenon DEF RecoveryBody, RecoveryType, ThisRun
<1> QED BY <1>3, <1>4, Zenon DEF RecoveryBody
\* Undo: the first update met so far that did not commit has left its before
\* image, and pages without such updates are not touched.
LEMMA UndoStepPreserves ==
  ASSUME RecoveryType, Progress, RecoveryBody, InStep, UndoStep
  PROVE  RecoveryBody'
<1>1. /\ stage = "undo" /\ stage' = "undo" /\ pos > 0 /\ pos' = pos - 1
      /\ UNCHANGED <<log, txn, owner, run, winners, committed>>
      /\ disk' = IF NeedsUndo(log[pos])
                 THEN [disk EXCEPT ![log[pos].page_id] = log[pos].before_image]
                 ELSE disk
  BY Zenon DEF UndoStep, walVars, clientVars, winnerVars
<1>2. pos \in 1..Len(log) /\ Len(log) \in Nat /\ disk \in [Pages -> Images]
  BY <1>1, UpdateFacts DEF Progress, RecoveryType
<1>3. ASSUME NEW p \in Pages PROVE PageInv(p)'
  <2>1. \A i \in UpdatesOf(p) : i \in Nat /\ (Won(i) => log[i].txn_id \in CommittedIds)
    BY UpdateFacts, Zenon DEF RecoveryBody, Past
  <2>2. /\ pos \in UpdatesOf(p) /\ log[pos].txn_id \notin CommittedIds
             => disk'[p] = log[pos].before_image
        /\ ~(pos \in UpdatesOf(p) /\ log[pos].txn_id \notin CommittedIds) => disk'[p] = disk[p]
    BY <1>1, <1>2, Zenon DEF UpdatesOf, NeedsUndo
  <2>3. (\A i \in UpdatesOf(p) : Won(i)) => disk'[p] = disk[p]
    BY <2>1, <2>2, Zenon
  <2>4. CommittedImage(p)' /\ BeforeImages(p)' /\ Holding(p)' /\ Memory(p)' /\ OnDisk(p)'
    BY <1>1, <2>3, RecoverKeeps, Zenon
  <2>5. Redone(p)'
    BY <1>1, Zenon DEF Redone
  <2>6. Undone(p)
    BY Zenon DEF RecoveryBody, PageInv
  <2>7. (\A i \in UpdatesOf(p) : Won(i)) => Shows(p, Len(log), disk'[p])
    BY <1>1, <2>3, <2>6, Zenon DEF Undone
  <2>8. ASSUME UndoSafe(p)
        PROVE  \/ \A i \in UpdatesOf(p) : i > pos - 1 => Won(i)
               \/ \E i \in UpdatesOf(p) :
                    /\ i > pos - 1 /\ ~Won(i) /\ disk'[p] = log[i].before_image
                    /\ \A j \in UpdatesOf(p) : j > pos - 1 /\ j < i => Won(j)
    <3>1. CASE pos \in UpdatesOf(p) /\ log[pos].txn_id \notin CommittedIds
      <4>1. ~Won(pos) /\ disk'[p] = log[pos].before_image
        BY <2>1, <2>2, <3>1, Zenon
      <4>2. pos > pos - 1 /\ \A j \in UpdatesOf(p) : ~(j > pos - 1 /\ j < pos)
        BY <1>2, <2>1
      <4> QED BY <3>1, <4>1, <4>2, Zenon
    <3>2. CASE ~(pos \in UpdatesOf(p) /\ log[pos].txn_id \notin CommittedIds)
      <4>1. (pos \in UpdatesOf(p) => Won(pos)) /\ disk'[p] = disk[p]
        BY <2>2, <2>8, <3>2, Zenon DEF UndoSafe, Won
      <4>2. \A i \in UpdatesOf(p) : i > pos - 1 => i = pos \/ i > pos
        BY <1>2, <2>1
      <4>3. \/ \A i \in UpdatesOf(p) : i > pos => Won(i)
            \/ \E i \in UpdatesOf(p) :
                 /\ i > pos /\ ~Won(i) /\ disk[p] = log[i].before_image
                 /\ \A j \in UpdatesOf(p) : j > pos /\ j < i => Won(j)
        BY <1>1, <2>6, <2>8, Zenon DEF Undone
      <4>4. \A i \in UpdatesOf(p) : i > pos => i > pos - 1
        BY <1>2, <2>1
      <4> QED BY <4>1, <4>2, <4>3, <4>4, Zenon
    <3> QED BY <3>1, <3>2, Zenon
  <2>9. Undone(p)'
    BY <1>1, <2>7, <2>8, RecordsSame DEF Undone
  <2> QED BY <2>4, <2>5, <2>9, Zenon DEF PageInv
<1>4. Past' /\ ThisRun'
  BY <1>1, PastSame, Zenon DEF RecoveryBody, RecoveryType, ThisRun
<1> QED BY <1>3, <1>4, Zenon DEF RecoveryBody

\* Recover is done: where the log tells winners and losers apart, a page is as
\* the winners left it.
LEMMA UndoDonePreserves ==
  ASSUME RecoveryType, RecoveryBody, InStep, UndoDone
  PROVE  RecoveryBody'
<1>1. /\ stage = "undo" /\ stage' = "up" /\ pos = 0
      /\ UNCHANGED <<log, txn, owner, run, winners, committed, disk>>
      /\ mem' = disk /\ saved' = disk
  BY Zenon DEF UndoDone, walVars, winnerVars
<1>2. ASSUME NEW p \in Pages PROVE PageInv(p)'
  <2>1. PageInv(p) /\ owner[p] = NoTxn /\ owner'[p] = NoTxn
    BY <1>1, Zenon DEF RecoveryBody, RecoveryType
  <2>2. CommittedImage(p)' /\ BeforeImages(p)'
    BY <1>1, <2>1, ImagesSame, Zenon DEF PageInv
  <2>3. Holding(p)'
    BY <1>1, <2>1, RecordsSame, Zenon DEF Holding, PageInv
  <2>4. Redone(p)' /\ Undone(p)'
    BY <1>1, Zenon DEF Redone, Undone
  <2>5. OnDisk(p)'
    BY <1>1, <2>1, RecordsSame, Zenon DEF OnDisk, PageInv, Settled
  <2>6. \A i \in UpdatesOf(p) : i \in 1..Len(log) /\ i \in Nat
    BY UpdateFacts, Zenon
  <2>7. ASSUME UndoSafe(p) PROVE disk[p] = committed[p]
    <3>1. CASE \A i \in UpdatesOf(p) : Won(i)
      <4>1. Shows(p, Len(log), disk[p])
        BY <1>1, <2>1, <3>1, Zenon DEF PageInv, Undone
      <4>2. Shows(p, Len(log), committed[p])
        BY <2>1, <3>1, AllWon, Zenon DEF PageInv
      <4> QED BY <2>6, <4>1, <4>2 DEF Shows
    <3>2. CASE ~\A i \in UpdatesOf(p) : Won(i)
      <4>1. PICK i \in UpdatesOf(p) :
              /\ ~Won(i) /\ disk[p] = log[i].before_image
              /\ \A j \in UpdatesOf(p) : j < i => Won(j)
        BY <1>1, <2>1, <2>6, <2>7, <3>2 DEF PageInv, Undone
      <4>2. \A j \in UpdatesOf(p) : i < j => ~Won(j)
        BY <2>7, <4>1, Zenon DEF UndoSafe, Won
      <4>3. Shows(p, i - 1, disk[p])
        BY <2>1, <4>1, Zenon DEF PageInv, BeforeImages
      <4>4. \A j \in UpdatesOf(p) : j <= i - 1 <=> Won(j)
        <5>1. \A j \in UpdatesOf(p) : j <= i - 1 <=> j < i
          BY <2>6
        <5>2. \A j \in UpdatesOf(p) : j < i \/ j = i \/ i < j
          BY <2>6
        <5> QED BY <4>1, <4>2, <5>1, <5>2, Zenon
      <4>5. CommittedImage(p)
        BY <2>1, Zenon DEF PageInv
      <4> QED BY <2>6, <4>3, <4>4, <4>5 DEF Shows, CommittedImage
    <3> QED BY <3>1, <3>2, Zenon
  <2>8. TellsApart(p)' => UndoSafe(p)
    BY <1>1, <2>1, SettledByCommit, RecordsSame, Zenon DEF TellsApart, Settled
  <2>9. Memory(p)'
    BY <1>1, <2>1, <2>7, <2>8, Zenon DEF Memory
  <2> QED BY <2>2, <2>3, <2>4, <2>5, <2>9, Zenon DEF PageInv
<1>3. Past' /\ ThisRun'
  BY <1>1, PastSame, Zenon DEF RecoveryBody, RecoveryType, ThisRun
<1> QED BY <1>2, <1>3, Zenon DEF RecoveryBody

\* Recover that fails, and a crash, leave the pages as they are in the file.
LEMMA StopPreserves ==
  ASSUME RecoveryType, RecoveryBody, InStep, RecoverFails \/ Crash
  PROVE  RecoveryBody'
<1>1. /\ stage' \in {"failed", "down"} /\ (stage' = "failed" => stage \in {"redo", "undo"})
      /\ UNCHANGED <<log, disk, run, winners, committed>>
      /\ stage' = "failed" => UNCHANGED <<txn, owner>>
      /\ \A p \in Pages : owner'[p] = NoTxn
  <2>1. CASE RecoverFails
    BY <2>1, Zenon DEF RecoverFails, walVars, clientVars, winnerVars, RecoveryType
  <2>2. CASE Crash
    BY <2>2, CrashTypes, Zenon DEF Crash, NewProcess
  <2> QED BY <2>1, <2>2, Zenon
<1>2. ASSUME NEW p \in Pages PROVE PageInv(p)'
  <2>1. PageInv(p) /\ owner'[p] = NoTxn
    BY <1>1, Zenon DEF RecoveryBody
  <2>2. CommittedImage(p)' /\ BeforeImages(p)'
    BY <1>1, <2>1, ImagesSame, Zenon DEF PageInv
  <2>3. Holding(p)'
    BY <1>1, <2>1, RecordsSame, Zenon DEF Holding, PageInv
  <2>4. Memory(p)' /\ Redone(p)' /\ Undone(p)'
    BY <1>1, Zenon DEF Memory, Redone, Undone
  <2>5. \A i \in UpdatesOf(p) : Settled(p, i)' => Settled(p, i)
    BY <1>1, <2>1, UpdateFacts, RecordsSame, Zenon DEF Settled, Instance
  <2>6. OnDisk(p)'
    BY <1>1, <2>1, <2>5, RecordsSame, Zenon DEF OnDisk, PageInv
  <2> QED BY <2>2, <2>3, <2>4, <2>6, Zenon DEF PageInv
<1>3. Past' /\ ThisRun'
  BY <1>1, PastSame, Zenon DEF RecoveryBody, RecoveryType, ThisRun
<1> QED BY <1>2, <1>3, Zenon DEF RecoveryBody
-----------------------------------------------------------------------------

\* What an append changes of what is said of the records.
LEMMA Appended ==
  ASSUME RecoveryType, WritesSucceed, InStep',
         NEW type \in {"update", "commit", "abort", "checkpoint"},
         NEW t \in TxnIds \cup {NoTxn}, NEW p \in Pages \cup {NoPage},
         NEW before \in Images, NEW after \in Images,
         type = "update" => t \in TxnIds /\ p \in Pages,
         AppendRecord(Record(type, t, p, before, after))
  PROVE  /\ InStep /\ Len(log) \in Nat /\ Len(log') = Len(log) + 1
         /\ \A i \in 1..Len(log) : log'[i] = log[i]
         /\ log'[Len(log) + 1] = Numbered(type, t, p, before, after)
         /\ \A q \in Pages : UpdatesOf(q)' = IF type = "update" /\ q = p
                                            THEN UpdatesOf(q) \cup {Len(log) + 1}
                                            ELSE UpdatesOf(q)
         /\ CommittedIds' = IF type = "commit" THEN CommittedIds \cup {t} ELSE CommittedIds
         /\ RedoStart' = IF type = "checkpoint" THEN Len(log) + 2 ELSE RedoStart
<1>1. /\ InStep /\ Len(log) \in Nat /\ Len(log') = Len(log) + 1
      /\ \A i \in 1..Len(log) : log'[i] = log[i]
      /\ log'[Len(log) + 1] = Numbered(type, t, p, before, after)
  BY AppendFacts, Zenon
<1>2. /\ log'[Len(log) + 1].type = type /\ log'[Len(log) + 1].txn_id = t
      /\ log'[Len(log) + 1].page_id = p
  BY <1>1 DEF Numbered
<1>3. 1..Len(log') = 1..Len(log) \cup {Len(log) + 1}
  BY <1>1
<1>4. ASSUME NEW q \in Pages
      PROVE  UpdatesOf(q)' = IF type = "update" /\ q = p
                             THEN UpdatesOf(q) \cup {Len(log) + 1} ELSE UpdatesOf(q)
  BY <1>1, <1>2, <1>3, Zenon DEF UpdatesOf
<1>5. CommittedIds' = IF type = "commit" THEN CommittedIds \cup {t} ELSE CommittedIds
  BY <1>1, <1>2, <1>3, Zenon DEF CommittedIds
<1>6. Checkpoints' = IF type = "checkpoint" THEN Checkpoints \cup {Len(log) + 1} ELSE Checkpoints
  BY <1>1, <1>2, <1>3, Zenon DEF Checkpoints
<1>7. RedoStart' = IF type = "checkpoint" THEN Len(log) + 2 ELSE RedoStart
  <2>1. CASE type # "checkpoint"
    BY <1>6, <2>1 DEF RedoStart
  <2>2. CASE type = "checkpoint"
    <3>1. \A j \in Checkpoints' : j <= Len(log) + 1 /\ j \in Nat
      BY <1>1, <1>6, <2>2 DEF Checkpoints
    <3>2. Len(log) + 1 \in Checkpoints'
      BY <1>6, <2>2, Zenon
    <3>3. (CHOOSE i \in Checkpoints' : \A j \in Checkpoints' : j <= i) = Len(log) + 1
      BY <1>1, <3>1, <3>2
    <3>4. RedoStart' = 1 + (Len(log) + 1)
      BY <3>2, <3>3, Zenon DEF RedoStart
    <3> QED BY <1>1, <2>2, <3>4
  <2> QED BY <2>1, <2>2, Zenon
<1> QED BY <1>1, <1>4, <1>5, <1>7, Zenon

\* A record that is about no page.
LEMMA MarkAppended ==
  ASSUME RecoveryType, WritesSucceed, InStep',
         NEW type \in {"commit", "abort", "checkpoint"}, NEW t \in TxnIds \cup {NoTxn},
         AppendRecord(Record(type, t, NoPage, Blank, Blank))
  PROVE  /\ InStep /\ Len(log) \in Nat /\ Len(log') = Len(log) + 1
         /\ \A i \in 1..Len(log) : log'[i] = log[i]
         /\ log'[Len(log) + 1] = Numbered(type, t, NoPage, Blank, Blank)
         /\ log'[Len(log) + 1].type = type /\ log'[Len(log) + 1].txn_id = t
         /\ log'[Len(log) + 1].run = run
         /\ \A q \in Pages : UpdatesOf(q)' = UpdatesOf(q)
         /\ CommittedIds' = IF type = "commit" THEN CommittedIds \cup {t} ELSE CommittedIds
         /\ RedoStart' = IF type = "checkpoint" THEN Len(log) + 2 ELSE RedoStart
<1>1. /\ Blank \in Images /\ NoPage \in Pages \cup {NoPage} /\ type # "update"
      /\ type \in {"update", "commit", "abort", "checkpoint"}
      /\ type = "update" => t \in TxnIds /\ NoPage \in Pages
  BY RecoveryAssumption, Zenon
<1>2. /\ InStep /\ Len(log) \in Nat /\ Len(log') = Len(log) + 1
      /\ \A i \in 1..Len(log) : log'[i] = log[i]
      /\ log'[Len(log) + 1] = Numbered(type, t, NoPage, Blank, Blank)
      /\ \A q \in Pages : UpdatesOf(q)' = IF type = "update" /\ q = NoPage
                                         THEN UpdatesOf(q) \cup {Len(log) + 1}
                                         ELSE UpdatesOf(q)
      /\ CommittedIds' = IF type = "commit" THEN CommittedIds \cup {t} ELSE CommittedIds
      /\ RedoStart' = IF type = "checkpoint" THEN Len(log) + 2 ELSE RedoStart
  BY <1>1, Appended, Zenon
<1>3. /\ log'[Len(log) + 1].type = type /\ log'[Len(log) + 1].txn_id = t
      /\ log'[Len(log) + 1].run = run
  BY <1>2 DEF Numbered
<1> QED BY <1>1, <1>2, <1>3, Zenon

\* The numbers of records, when there is one more.
LEMMA BehindLog ==
  \A n \in Nat : \A j \in 1..n : j <= n /\ j <= n + 1 /\ ~(j > n) /\ ~(j > n + 1)
OBVIOUS

\* A page that a step of a client is not about.
LEMMA PageKept ==
  ASSUME RecoveryType, NEW p \in Pages, PageInv(p), stage = "up", stage' = "up", run' = run,
         UpdatesOf(p)' = UpdatesOf(p),
         \A i \in UpdatesOf(p) : log'[i] = log[i] /\ (Won(i)' <=> Won(i)),
         CommittedIds \subseteq CommittedIds', RedoStart' = RedoStart,
         Len(log') \in {Len(log), Len(log) + 1},
         owner'[p] = owner[p], mem'[p] = mem[p], saved'[p] = saved[p],
         disk'[p] = disk[p], committed'[p] = committed[p],
         \A t \in TxnIds : txn[t] # "active" /\ txn'[t] = "active" =>
           \A i \in UpdatesOf(p) : Instance(i) # <<run, t>>,
         owner[p] # NoTxn => txn'[owner[p]] = "active"
  PROVE  PageInv(p)'
<1>1. Len(log) \in Nat /\ \A i \in UpdatesOf(p) : i \in 1..Len(log) /\ log[i].txn_id \in TxnIds
  BY UpdateFacts, Zenon
<1>2. \A i \in UpdatesOf(p) : Instance(i)' = Instance(i) /\ (Settled(p, i)' <=> Settled(p, i))
  BY Zenon DEF Instance, Settled
<1>3. \A n, im : Shows(p, n, im)' <=> Shows(p, n, im)
  BY Zenon DEF Shows
<1>4. CommittedImage(p)'
  BY Zenon DEF PageInv, CommittedImage
<1>5. BeforeImages(p)'
  BY <1>2, <1>3, Zenon DEF PageInv, BeforeImages
<1>6. Holding(p)'
  <2>1. ASSUME NEW i \in UpdatesOf(p), log[i].run = run, txn'[log[i].txn_id] = "active"
        PROVE  owner[p] = log[i].txn_id
    <3>1. txn[log[i].txn_id] = "active"
      BY <1>1, <2>1, Zenon DEF Instance
    <3> QED BY <2>1, <3>1, Zenon DEF PageInv, Holding
  <2>2. owner[p] # NoTxn =>
          /\ \E i \in UpdatesOf(p) :
               /\ Instance(i) = <<run, owner[p]>> /\ mem[p] = log[i].after_image
               /\ \A j \in UpdatesOf(p) : j <= i
          /\ \A i \in UpdatesOf(p) : Instance(i) # <<run, owner[p]>> =>
               \A j \in UpdatesOf(p) : Instance(j) = <<run, owner[p]>> => i < j
    BY Zenon DEF PageInv, Holding
  <2>3. \A i \in UpdatesOf(p)' :
          log'[i].run = run' /\ txn'[log'[i].txn_id] = "active" => owner'[p] = log'[i].txn_id
    BY <2>1, Zenon
  <2>4. owner'[p] # NoTxn =>
          /\ \E i \in UpdatesOf(p)' :
               /\ Instance(i)' = <<run', owner'[p]>> /\ mem'[p] = log'[i].after_image
               /\ \A j \in UpdatesOf(p)' : j <= i
          /\ \A i \in UpdatesOf(p)' : Instance(i)' # <<run', owner'[p]>> =>
               \A j \in UpdatesOf(p)' : Instance(j)' = <<run', owner'[p]>> => i < j
    BY <1>2, <2>2, Zenon
  <2> QED BY <2>3, <2>4, Zenon DEF Holding
<1>7. Memory(p)'
  <2>1. TellsApart(p)' => TellsApart(p)
    BY <1>2, Zenon DEF TellsApart
  <2> QED BY <2>1, Zenon DEF PageInv, Memory
<1>8. OnDisk(p)'
  <2>1. Shows(p, Len(log'), disk[p]) <=> Shows(p, Len(log), disk[p])
    <3>1. \A j \in UpdatesOf(p) : /\ j <= Len(log) /\ j <= Len(log')
                                  /\ ~(j > Len(log)) /\ ~(j > Len(log'))
      BY <1>1, BehindLog, Zenon
    <3> QED BY <3>1, Zenon DEF Shows
  <2> QED BY <1>2, <1>3, <2>1, Zenon DEF PageInv, OnDisk
<1>9. Redone(p)' /\ Undone(p)'
  BY Zenon DEF Redone, Undone
<1> QED BY <1>4, <1>5, <1>6, <1>7, <1>8, <1>9, Zenon DEF PageInv

\* The past with one more record: a commit comes with its winner, and an update
\* is of nobody who has won.
LEMMA PastAppended ==
  ASSUME Past, run \in Nat, run' = run, Len(log) \in Nat, Len(log') = Len(log) + 1,
         \A i \in 1..Len(log) : log'[i] = log[i],
         log'[Len(log) + 1].run = run,
         log'[Len(log) + 1].type = "update" =>
           <<run, log'[Len(log) + 1].txn_id>> \notin winners',
         CommittedIds \subseteq CommittedIds',
         \A w \in winners' : w \in winners \/ (w[1] = run /\ w[2] \in CommittedIds'),
         RedoStart' \in {RedoStart, Len(log) + 2}
  PROVE  Past'
<1>2. 1..Len(log') = 1..Len(log) \cup {Len(log) + 1}
  OBVIOUS
<1>4. ASSUME NEW i \in 1..Len(log') PROVE log'[i].run <= run'
  <2>1. CASE i \in 1..Len(log)
    BY <2>1, Zenon DEF Past
  <2>2. CASE i = Len(log) + 1
    BY <2>2
  <2> QED BY <1>2, <2>1, <2>2, Zenon
<1>5. ASSUME NEW w \in winners' PROVE w[1] <= run'
  BY DEF Past
<1>6. ASSUME NEW i \in 1..Len(log'), log'[i].type = "update", Won(i)'
      PROVE  log'[i].txn_id \in CommittedIds'
  <2>1. CASE i \in 1..Len(log)
    <3>1. Instance(i)' = Instance(i) /\ log[i].type = "update" /\ Instance(i) \in winners'
      BY <1>6, <2>1, Zenon DEF Instance, Won
    <3>2. CASE Instance(i) \in winners
      BY <2>1, <3>1, <3>2, Zenon DEF Past, Won
    <3>3. CASE Instance(i)[2] \in CommittedIds'
      BY <2>1, <3>3, Zenon DEF Instance
    <3> QED BY <3>1, <3>2, <3>3, Zenon
  <2>2. CASE i = Len(log) + 1
    BY <1>6, <2>2, Zenon DEF Won, Instance
  <2> QED BY <1>2, <2>1, <2>2, Zenon
<1>7. RedoStart' \in 1..Len(log') + 1
  BY DEF Past
<1> QED BY <1>4, <1>5, <1>6, <1>7, Zenon DEF Past

\* A transaction begins: it has no record in the log of this run.
LEMMA RecoveryBeginPreserves ==
  ASSUME RecoveryType, RecoveryBody, InStep, NEW t \in TxnIds, Begin(t)
  PROVE  RecoveryBody'
<1>1. /\ stage = "up" /\ stage' = "up" /\ txn[t] = "new"
      /\ txn' = [txn EXCEPT ![t] = "active"]
      /\ UNCHANGED <<log, disk, mem, owner, saved, run, winners, committed>>
  BY Zenon DEF Begin, walVars, winnerVars
<1>2. txn \in [TxnIds -> {"new", "active", "ended"}] /\ Past /\ ThisRun
  BY Zenon DEF RecoveryType, RecoveryBody
<1>3. Past'
  BY <1>1, <1>2, PastSame, Zenon
<1>4. ThisRun'
  BY <1>1, <1>2 DEF ThisRun
<1>5. ASSUME NEW p \in Pages PROVE PageInv(p)'
  <2>1. \A i \in UpdatesOf(p) : Instance(i) # <<run, t>>
    BY <1>1, <1>2, Zenon DEF ThisRun, UpdatesOf, Instance
  <2>2. owner[p] # NoTxn => txn'[owner[p]] = "active"
    BY <1>1, <1>2, Zenon DEF RecoveryBody, PageInv, Holding, RecoveryType
  <2>3. \A u \in TxnIds : txn[u] # "active" /\ txn'[u] = "active" => u = t
    BY <1>1, <1>2, Zenon
  <2>4. PageInv(p)
    BY Zenon DEF RecoveryBody
  <2> QED BY <1>1, <2>1, <2>2, <2>3, <2>4, PageKept, RecordsSame, Zenon
<1> QED BY <1>3, <1>4, <1>5, Zenon DEF RecoveryBody

\* A page that is written to the file shows there what it shows in memory.
LEMMA MemoryShows ==
  ASSUME RecoveryType, stage = "up", NEW p \in Pages, PageInv(p),
         \A i \in UpdatesOf(p) : Settled(p, i)
  PROVE  Shows(p, Len(log), mem[p])
<1>1. CASE owner[p] = NoTxn
  <2>1. mem[p] = committed[p]
    BY <1>1, Zenon DEF PageInv, Memory, TellsApart
  <2> QED BY <1>1, <2>1, AllWon, SettledByCommit, Zenon DEF PageInv
<1>2. CASE owner[p] # NoTxn
  BY <1>2, UpdateFacts DEF PageInv, Holding, Shows
<1> QED BY <1>1, <1>2, Zenon

\* A page reaches the file with the changes of its owner, which are in the log.
LEMMA WriteBackPreserves ==
  ASSUME RecoveryType, RecoveryBody, NEW p \in Pages, WriteBackPage(p)
  PROVE  RecoveryBody'
<1>1. /\ stage = "up" /\ stage' = "up" /\ disk' = [disk EXCEPT ![p] = mem[p]]
      /\ UNCHANGED <<log, txn, mem, owner, saved, run, winners, committed>>
  BY Zenon DEF WriteBackPage, walVars, clientVars, winnerVars
<1>2. Past' /\ ThisRun'
  BY <1>1, PastSame, Zenon DEF RecoveryBody, RecoveryType, ThisRun
<1>3. ASSUME NEW q \in Pages PROVE PageInv(q)'
  <2>1. PageInv(q) /\ disk \in [Pages -> Images]
    BY Zenon DEF RecoveryBody, RecoveryType
  <2>2. CASE q # p
    <3>1. disk'[q] = disk[q] /\ (owner[q] # NoTxn => txn'[owner[q]] = "active")
      BY <1>1, <2>1, <2>2, Zenon DEF PageInv, Holding
    <3> QED BY <1>1, <2>1, <3>1, PageKept, RecordsSame, Zenon
  <2>3. CASE q = p
    <3>1. CommittedImage(p)' /\ BeforeImages(p)'
      BY <1>1, <2>1, <2>3, ImagesSame, Zenon DEF PageInv
    <3>2. Holding(p)'
      BY <1>1, <2>1, <2>3, RecordsSame, Zenon DEF PageInv, Holding
    <3>3. \A i \in UpdatesOf(p) : Settled(p, i)' <=> Settled(p, i)
      BY <1>1, RecordsSame, Zenon DEF Settled
    <3>4. Memory(p)'
      BY <1>1, <2>1, <2>3, <3>3, RecordsSame, Zenon DEF PageInv, Memory, TellsApart
    <3>5. OnDisk(p)'
      <4>1. (\A i \in UpdatesOf(p) : Settled(p, i)) => Shows(p, Len(log), mem[p])
        BY <1>1, <2>1, <2>3, MemoryShows, Zenon
      <4>2. disk'[p] = mem[p] /\ UpdatesOf(p)' = UpdatesOf(p)
        BY <1>1, <2>1, RecordsSame, Zenon
      <4>3. (\A i \in UpdatesOf(p)' : Settled(p, i)') => Shows(p, Len(log), mem[p])'
        BY <1>1, <3>3, <4>1, <4>2, RecordsSame, Zenon
      <4> QED BY <1>1, <4>2, <4>3, Zenon DEF OnDisk, Shows
    <3>6. Redone(p)' /\ Undone(p)'
      BY <1>1, Zenon DEF Redone, Undone
    <3> QED BY <2>3, <3>1, <3>2, <3>4, <3>5, <3>6, Zenon DEF PageInv
  <2> QED BY <2>2, <2>3, Zenon
<1> QED BY <1>2, <1>3, Zenon DEF RecoveryBody
\* An update is logged with what the page was, and then the page is changed.
LEMMA UpdatePreserves ==
  ASSUME RecoveryType, WritesSucceed, RecoveryBody, InStep', NEW t \in TxnIds, NEW p \in Pages,
         NEW image \in Images, UpdatePage(t, p, image)
  PROVE  RecoveryBody'
<1>0. PICK n \in Nat : n = Len(log) + 1
  BY UpdateFacts
<1>1. /\ stage = "up" /\ stage' = "up" /\ txn[t] = "active" /\ owner[p] \in {NoTxn, t}
      /\ AppendRecord(Record("update", t, p, mem[p], image))
      /\ mem' = [mem EXCEPT ![p] = image] /\ owner' = [owner EXCEPT ![p] = t]
      /\ saved' = IF owner[p] = t THEN saved ELSE [saved EXCEPT ![p] = mem[p]]
      /\ UNCHANGED <<disk, txn, run, winners, committed>>
  BY Zenon DEF UpdatePage, winnerVars
<1>2. /\ mem \in [Pages -> Images] /\ owner \in [Pages -> TxnIds \cup {NoTxn}]
      /\ saved \in [Pages -> Images] /\ mem[p] \in Images
      /\ Past /\ ThisRun /\ t # NoTxn
  BY RecoveryAssumption DEF RecoveryType, RecoveryBody, TxnIds, NoTxn
<1>3. /\ Len(log) \in Nat /\ Len(log') = n
      /\ \A i \in 1..Len(log) : log'[i] = log[i]
      /\ log'[n] = Numbered("update", t, p, mem[p], image)
      /\ \A q \in Pages : UpdatesOf(q)' = IF q = p THEN UpdatesOf(q) \cup {n} ELSE UpdatesOf(q)
      /\ CommittedIds' = CommittedIds /\ RedoStart' = RedoStart
  BY <1>0, <1>1, <1>2, Appended
<1>4. /\ log'[n].type = "update" /\ log'[n].txn_id = t /\ log'[n].run = run
      /\ log'[n].before_image = mem[p] /\ log'[n].after_image = image
  BY <1>3 DEF Numbered
<1>5. <<run, t>> \notin winners
  BY <1>1, <1>2, Zenon DEF ThisRun
<1>6. Past'
  BY <1>0, <1>1, <1>2, <1>3, <1>4, <1>5, PastAppended, Zenon DEF RecoveryType
<1>7. ThisRun'
  <2>1. ASSUME NEW i \in 1..Len(log'), log'[i].type = "update", log'[i].run = run
        PROVE  txn[log'[i].txn_id] # "new"
    <3>1. CASE i \in 1..Len(log)
      BY <1>1, <1>2, <1>3, <2>1, <3>1, Zenon DEF ThisRun
    <3>2. CASE i = n
      BY <1>1, <1>4, <3>2, Zenon
    <3> QED BY <1>0, <1>3, <3>1, <3>2
  <2> QED BY <1>1, <1>2, <2>1, Zenon DEF ThisRun
<1>8. ASSUME NEW q \in Pages, q # p PROVE PageInv(q)'
  <2>1. PageInv(q)
    BY Zenon DEF RecoveryBody
  <2>2. /\ owner'[q] = owner[q] /\ mem'[q] = mem[q] /\ saved'[q] = saved[q]
        /\ UpdatesOf(q)' = UpdatesOf(q)
    BY <1>1, <1>2, <1>3, <1>8, Zenon
  <2>3. \A i \in UpdatesOf(q) : log'[i] = log[i] /\ (Won(i)' <=> Won(i))
    BY <1>1, <1>3, UpdateFacts, Zenon DEF Won, Instance
  <2>4. owner[q] # NoTxn => txn'[owner[q]] = "active"
    BY <1>1, <2>1, Zenon DEF PageInv, Holding
  <2> QED BY <1>0, <1>1, <1>3, <2>1, <2>2, <2>3, <2>4, PageKept, Zenon
<1>9. PageInv(p)'
  <2>1. PageInv(p) /\ owner'[p] = t /\ mem'[p] = image
    BY <1>1, <1>2, Zenon DEF RecoveryBody
  <2>2. \A i \in UpdatesOf(p) :
          /\ i \in 1..Len(log) /\ i \in Nat /\ i < n /\ log[i].txn_id \in TxnIds
          /\ log'[i] = log[i] /\ (Won(i)' <=> Won(i)) /\ Instance(i)' = Instance(i)
    <3>1. \A i \in UpdatesOf(p) :
            i \in 1..Len(log) /\ i \in Nat /\ log[i].txn_id \in TxnIds /\ log'[i] = log[i]
      BY <1>3, UpdateFacts, Zenon
    <3>2. \A i \in 1..Len(log) : i < n
      BY <1>0, <1>3
    <3> QED BY <1>1, <3>1, <3>2, Zenon DEF Won, Instance
  <2>3. UpdatesOf(p)' = UpdatesOf(p) \cup {n} /\ n \in Nat
    BY <1>3, Zenon
  <2>4. Instance(n)' = <<run, t>> /\ ~Won(n)'
    BY <1>1, <1>4, <1>5, Zenon DEF Won, Instance
  <2>5. owner[p] = NoTxn => \A i \in UpdatesOf(p) : Instance(i) # <<run, t>>
    BY <1>1, <1>2, <2>1, Zenon DEF PageInv, Holding, Instance
  <2>6. \A i \in UpdatesOf(p) : Settled(p, i)' <=> Settled(p, i)
    <3>1. CASE owner[p] = t
      BY <1>1, <2>1, <2>2, <3>1, Zenon DEF Settled
    <3>2. CASE owner[p] = NoTxn
      BY <1>1, <2>1, <2>2, <2>5, <3>2, SettledByCommit, Zenon DEF Settled
    <3> QED BY <1>1, <3>1, <3>2, Zenon
  <2>7. CommittedImage(p)'
    <3>1. CommittedImage(p)
      BY <2>1, Zenon DEF PageInv
    <3> QED BY <1>1, <2>2, <2>3, <2>4, <3>1, Zenon DEF CommittedImage
  <2>8. BeforeImages(p)'
    <3>1. ASSUME NEW i \in UpdatesOf(p),
                 \A j \in UpdatesOf(p) \cup {n} : j < i => Won(j)' \/ Instance(j)' = Instance(i)'
          PROVE  Shows(p, i - 1, log[i].before_image)'
      <4>1. Shows(p, i - 1, log[i].before_image)
        BY <2>1, <2>2, <3>1, Zenon DEF PageInv, BeforeImages
      <4>2. i \in Nat /\ n \in Nat /\ i < n
        BY <2>2, <2>3, Zenon
      <4>3. n > i - 1 /\ ~(n <= i - 1)
        BY <4>2
      <4> QED BY <2>2, <2>3, <4>1, <4>3, Zenon DEF Shows
    <3>2. ASSUME \A j \in UpdatesOf(p) \cup {n} : j < n => Won(j)' \/ Instance(j)' = Instance(n)'
          PROVE  Shows(p, n - 1, log[n].before_image)'
      <4>1. \A j \in UpdatesOf(p) : Won(j) \/ Instance(j) = <<run, t>>
        BY <2>2, <2>4, <3>2, Zenon
      <4>2. \A j \in UpdatesOf(p) : Settled(p, j)
        BY <1>1, <2>5, <4>1, Zenon DEF Settled
      <4>3. Shows(p, Len(log), mem[p])
        BY <1>1, <2>1, <4>2, MemoryShows, Zenon
      <4>4. n - 1 = Len(log) /\ n > Len(log)
        BY <1>0, <1>3
      <4> QED BY <1>4, <2>2, <2>3, <4>3, <4>4 DEF Shows
    <3> QED BY <2>3, <3>1, <3>2, Zenon DEF BeforeImages
  <2>9. Holding(p)'
    <3>1. ASSUME NEW i \in UpdatesOf(p), log[i].run = run, txn[log[i].txn_id] = "active"
          PROVE  log[i].txn_id = t
      <4>1. owner[p] = log[i].txn_id
        BY <1>1, <1>2, <2>1, <3>1, Zenon DEF PageInv, Holding
      <4>2. log[i].txn_id # NoTxn
        BY <2>2, NoneIsNoId, Zenon
      <4> QED BY <1>1, <1>2, <4>1, <4>2, Zenon
    <3>2. ASSUME NEW i \in UpdatesOf(p), NEW j \in UpdatesOf(p),
                 Instance(i) # <<run, t>>, Instance(j) = <<run, t>>
          PROVE  i < j
      BY <1>1, <1>2, <2>1, <2>5, <3>2, Zenon DEF PageInv, Holding
    <3>3. /\ \A j \in UpdatesOf(p)' : j <= n
          /\ \A i \in UpdatesOf(p)' : log'[i].run = run /\ txn[log'[i].txn_id] = "active"
               => log'[i].txn_id = t
      <4>1. n <= n /\ \A j \in UpdatesOf(p) : j <= n
        BY <2>2, <2>3
      <4> QED BY <1>4, <2>2, <2>3, <3>1, <4>1, Zenon
    <3>4. \A i \in UpdatesOf(p)' : Instance(i)' # <<run, t>> =>
            \A j \in UpdatesOf(p)' : Instance(j)' = <<run, t>> => i < j
      BY <2>2, <2>3, <2>4, <3>2, Zenon
    <3> QED BY <1>1, <1>4, <2>1, <2>3, <2>4, <3>3, <3>4, Zenon DEF Holding
  <2>10. Memory(p)'
    <3>1. TellsApart(p)' => TellsApart(p)
      BY <1>3, <2>2, <2>3, <2>6, Zenon DEF TellsApart
    <3>2. saved'[p] = IF owner[p] = NoTxn THEN mem[p] ELSE saved[p]
      BY <1>1, <1>2, Zenon
    <3> QED BY <1>1, <1>2, <2>1, <3>1, <3>2, Zenon DEF Memory, PageInv
  <2>11. OnDisk(p)'
    <3>1. ~(n < RedoStart)
      BY <1>0, <1>2, <1>3 DEF Past
    <3> QED BY <1>3, <2>3, <3>1, Zenon DEF OnDisk
  <2>12. Redone(p)' /\ Undone(p)'
    BY <1>1, Zenon DEF Redone, Undone
  <2> QED BY <2>7, <2>8, <2>9, <2>10, <2>11, <2>12, Zenon DEF PageInv
<1> QED BY <1>6, <1>7, <1>8, <1>9, Zenon DEF RecoveryBody
\* The end of t changes nothing for a page that t does not hold.
LEMMA EndKeepsPage ==
  ASSUME RecoveryType, NEW p \in Pages, NEW t \in TxnIds, PageInv(p),
         stage = "up", stage' = "up", run' = run, txn[t] = "active", owner[p] # t,
         txn' = [txn EXCEPT ![t] = "ended"], owner' = Released(t),
         mem'[p] = mem[p], saved' = saved, disk' = disk, committed'[p] = committed[p],
         Len(log) \in Nat, Len(log') = Len(log) + 1,
         \A i \in 1..Len(log) : log'[i] = log[i], UpdatesOf(p)' = UpdatesOf(p),
         CommittedIds \subseteq CommittedIds', RedoStart' = RedoStart,
         winners \subseteq winners', winners' \subseteq winners \cup {<<run, t>>}
  PROVE  PageInv(p)'
<1>1. \A i \in UpdatesOf(p) : Instance(i) # <<run, t>>
  BY Zenon DEF PageInv, Holding, Instance
<1>2. \A i \in UpdatesOf(p) : log'[i] = log[i] /\ (Won(i)' <=> Won(i))
  BY <1>1, UpdateFacts, Zenon DEF Won, Instance
<1>3. /\ owner'[p] = owner[p] /\ txn \in [TxnIds -> {"new", "active", "ended"}]
      /\ owner[p] \in TxnIds \cup {NoTxn}
  BY Zenon DEF Released, RecoveryType
<1>4. owner[p] # NoTxn => txn'[owner[p]] = "active"
  BY <1>3, Zenon DEF PageInv, Holding
<1>5. \A u \in TxnIds : txn'[u] = "active" => txn[u] = "active"
  BY <1>3, Zenon
<1> QED BY <1>2, <1>3, <1>4, <1>5, PageKept, Zenon

\* Nobody who has ended is known as new or active.
LEMMA EndKeepsRun ==
  ASSUME RecoveryType, ThisRun, NEW t \in TxnIds, stage = "up", run' = run,
         txn' = [txn EXCEPT ![t] = "ended"],
         Len(log) \in Nat, Len(log') = Len(log) + 1,
         \A i \in 1..Len(log) : log'[i] = log[i],
         log'[Len(log) + 1].type # "update",
         winners' \subseteq winners \cup {<<run, t>>}
  PROVE  ThisRun'
<1>1. /\ txn \in [TxnIds -> {"new", "active", "ended"}]
      /\ 1..Len(log') = 1..Len(log) \cup {Len(log) + 1}
  BY DEF RecoveryType
<1>2. ASSUME NEW i \in 1..Len(log'), log'[i].type = "update", log'[i].run = run
      PROVE  txn'[log'[i].txn_id] # "new"
  <2>1. i \in 1..Len(log) /\ log[i].txn_id \in TxnIds /\ txn[log[i].txn_id] # "new"
    BY <1>1, <1>2, Zenon DEF ThisRun, RecoveryType, RecordsType
  <2> QED BY <1>1, <2>1, Zenon
<1>3. ASSUME NEW u \in TxnIds, txn'[u] # "ended" PROVE <<run, u>> \notin winners'
  <2>1. u # t /\ txn[u] # "ended"
    BY <1>1, <1>3, Zenon
  <2> QED BY <2>1, Zenon DEF ThisRun
<1> QED BY <1>2, <1>3, Zenon DEF ThisRun

\* A commit: the last update of every page that is let go is now a winner's.
LEMMA RecoveryCommitPreserves ==
  ASSUME RecoveryType, WritesSucceed, RecoveryBody, InStep', NEW t \in TxnIds, CommitTxn(t)
  PROVE  RecoveryBody'
<1>1. /\ stage = "up" /\ stage' = "up" /\ txn[t] = "active"
      /\ AppendRecord(Record("commit", t, NoPage, Blank, Blank))
      /\ txn' = [txn EXCEPT ![t] = "ended"] /\ owner' = Released(t)
      /\ winners' = winners \cup {<<run, t>>}
      /\ committed' = [p \in Pages |-> IF owner[p] = t THEN mem[p] ELSE committed[p]]
      /\ UNCHANGED <<disk, mem, saved, run>>
  BY Zenon DEF CommitTxn
<1>2. /\ Len(log) \in Nat /\ Len(log') = Len(log) + 1
      /\ \A i \in 1..Len(log) : log'[i] = log[i]
      /\ log'[Len(log) + 1] = Numbered("commit", t, NoPage, Blank, Blank)
      /\ \A q \in Pages : UpdatesOf(q)' = UpdatesOf(q)
      /\ CommittedIds' = CommittedIds \cup {t} /\ RedoStart' = RedoStart
  BY <1>1, MarkAppended, Zenon
<1>3. log'[Len(log) + 1].type = "commit" /\ log'[Len(log) + 1].run = run
  BY <1>1, MarkAppended, Zenon
<1>4. Past'
  <2>1. \A w \in winners' : w \in winners \/ (w[1] = run /\ w[2] \in CommittedIds')
    BY <1>1, <1>2
  <2>2. Past /\ run \in Nat /\ CommittedIds \subseteq CommittedIds'
    BY <1>2, Zenon DEF RecoveryBody, RecoveryType
  <2> QED BY <1>1, <1>2, <1>3, <2>1, <2>2, PastAppended, Zenon
<1>5. ThisRun'
  BY <1>1, <1>2, <1>3, EndKeepsRun, Zenon DEF RecoveryBody
<1>6. ASSUME NEW p \in Pages, owner[p] # t PROVE PageInv(p)'
  BY <1>1, <1>2, <1>6, EndKeepsPage, Zenon DEF RecoveryBody
<1>7. ASSUME NEW p \in Pages, owner[p] = t PROVE PageInv(p)'
  <2>1. PageInv(p) /\ owner'[p] = NoTxn /\ committed'[p] = mem[p] /\ t # NoTxn
    BY <1>1, <1>7, NoneIsNoId, Zenon DEF RecoveryBody, Released
  <2>2. /\ \A i \in UpdatesOf(p) :
             /\ i \in 1..Len(log) /\ i \in Nat /\ log[i].txn_id # NoTxn
             /\ log'[i] = log[i] /\ Instance(i)' = Instance(i)
             /\ Won(i)' <=> Won(i) \/ Instance(i) = <<run, t>>
    BY <1>1, <1>2, UpdateFacts, Zenon DEF Won, Instance
  <2>3. UpdatesOf(p)' = UpdatesOf(p)
    BY <1>2, Zenon
  <2>4. \A i \in UpdatesOf(p) : Settled(p, i)' <=> Settled(p, i)
    BY <1>1, <1>7, <2>1, <2>2, Zenon DEF Settled, Instance
  <2>5. \A n, im : Shows(p, n, im)' <=> Shows(p, n, im)
    BY <2>2, <2>3, Zenon DEF Shows
  <2>6. /\ \E i \in UpdatesOf(p) :
             /\ Instance(i) = <<run, t>> /\ mem[p] = log[i].after_image
             /\ \A j \in UpdatesOf(p) : j <= i
        /\ \A i \in UpdatesOf(p) : Instance(i) # <<run, t>> =>
             \A j \in UpdatesOf(p) : Instance(j) = <<run, t>> => i < j
        /\ \A i \in UpdatesOf(p) : log[i].run = run /\ txn[log[i].txn_id] = "active"
             => log[i].txn_id = t
    BY <1>1, <1>7, <2>1, Zenon DEF PageInv, Holding
  <2>7. CommittedImage(p)'
    <3>1. PICK i \in UpdatesOf(p) :
            /\ Instance(i) = <<run, t>> /\ mem[p] = log[i].after_image
            /\ \A j \in UpdatesOf(p) : j <= i
      BY <2>6, Zenon
    <3>2. Won(i)' /\ committed'[p] = log'[i].after_image
      BY <2>1, <2>2, <3>1, Zenon
    <3>3. \A j \in UpdatesOf(p) : ~(i < j)
      <4>1. i \in Nat /\ \A j \in UpdatesOf(p) : j \in Nat /\ j <= i
        BY <2>2, <3>1, Zenon
      <4> QED BY <4>1
    <3> QED BY <2>3, <3>2, <3>3, Zenon DEF CommittedImage
  <2>8. BeforeImages(p)'
    <3>1. ASSUME NEW i \in UpdatesOf(p),
                 \A j \in UpdatesOf(p) : j < i => Won(j)' \/ Instance(j) = Instance(i)
          PROVE  Shows(p, i - 1, log[i].before_image)
      <4>1. \A j \in UpdatesOf(p) : j < i => Won(j) \/ Instance(j) = Instance(i)
        BY <2>2, <2>6, <3>1
      <4> QED BY <2>1, <4>1, Zenon DEF PageInv, BeforeImages
    <3> QED BY <2>2, <2>3, <2>5, <3>1, Zenon DEF BeforeImages
  <2>9. Holding(p)'
    <3>1. \A i \in UpdatesOf(p) : log[i].run = run => txn'[log[i].txn_id] # "active"
      BY <1>1, <2>6, UpdateFacts, Zenon DEF RecoveryType
    <3> QED BY <1>1, <2>1, <2>2, <2>3, <3>1, Zenon DEF Holding
  <2>10. Memory(p)'
    BY <1>1, <2>1, Zenon DEF Memory
  <2>11. OnDisk(p)'
    <3>1. Shows(p, Len(log'), disk[p]) <=> Shows(p, Len(log), disk[p])
      BY <1>2, <2>2 DEF Shows
    <3> QED BY <1>1, <1>2, <2>1, <2>3, <2>4, <2>5, <3>1, Zenon DEF PageInv, OnDisk
  <2>12. Redone(p)' /\ Undone(p)'
    BY <1>1, Zenon DEF Redone, Undone
  <2> QED BY <2>7, <2>8, <2>9, <2>10, <2>11, <2>12, Zenon DEF PageInv
<1> QED BY <1>4, <1>5, <1>6, <1>7, Zenon DEF RecoveryBody
\* An abort: the pages are put back, and the records of t are a loser's.
LEMMA RecoveryAbortPreserves ==
  ASSUME RecoveryType, WritesSucceed, RecoveryBody, InStep', NEW t \in TxnIds, AbortTxn(t)
  PROVE  RecoveryBody'
<1>1. /\ stage = "up" /\ stage' = "up" /\ txn[t] = "active"
      /\ AppendRecord(Record("abort", t, NoPage, Blank, Blank))
      /\ txn' = [txn EXCEPT ![t] = "ended"] /\ owner' = Released(t)
      /\ mem' = [p \in Pages |-> IF owner[p] = t THEN saved[p] ELSE mem[p]]
      /\ UNCHANGED <<disk, saved, run, winners, committed>>
  BY Zenon DEF AbortTxn, winnerVars
<1>2. /\ Len(log) \in Nat /\ Len(log') = Len(log) + 1
      /\ \A i \in 1..Len(log) : log'[i] = log[i]
      /\ log'[Len(log) + 1] = Numbered("abort", t, NoPage, Blank, Blank)
      /\ \A q \in Pages : UpdatesOf(q)' = UpdatesOf(q)
      /\ CommittedIds' = CommittedIds /\ RedoStart' = RedoStart
  BY <1>1, MarkAppended, Zenon
<1>3. log'[Len(log) + 1].type = "abort" /\ log'[Len(log) + 1].run = run
  BY <1>1, MarkAppended, Zenon
<1>4. Past'
  BY <1>1, <1>2, <1>3, PastAppended, Zenon DEF RecoveryBody, RecoveryType
<1>5. ThisRun'
  BY <1>1, <1>2, <1>3, EndKeepsRun, Zenon DEF RecoveryBody
<1>6. ASSUME NEW p \in Pages, owner[p] # t PROVE PageInv(p)'
  <2>1. mem'[p] = mem[p]
    BY <1>1, <1>6, Zenon
  <2> QED BY <1>1, <1>2, <1>6, <2>1, EndKeepsPage, Zenon DEF RecoveryBody
<1>7. ASSUME NEW p \in Pages, owner[p] = t PROVE PageInv(p)'
  <2>1. PageInv(p) /\ owner'[p] = NoTxn /\ mem'[p] = saved[p] /\ t # NoTxn
    BY <1>1, <1>7, NoneIsNoId, Zenon DEF RecoveryBody, Released
  <2>2. /\ \A i \in UpdatesOf(p) :
             /\ i \in 1..Len(log) /\ i \in Nat /\ log[i].txn_id # NoTxn
             /\ log'[i] = log[i] /\ Instance(i)' = Instance(i) /\ (Won(i)' <=> Won(i))
    BY <1>1, <1>2, UpdateFacts, Zenon DEF Won, Instance
  <2>3. UpdatesOf(p)' = UpdatesOf(p)
    BY <1>2, Zenon
  <2>4. \A i \in UpdatesOf(p) : Settled(p, i)' => Settled(p, i)
    BY <1>1, <2>1, <2>2, Zenon DEF Settled, Instance
  <2>5. \A n, im : Shows(p, n, im)' <=> Shows(p, n, im)
    BY <2>2, <2>3, Zenon DEF Shows
  <2>6. CommittedImage(p)'
    BY <1>1, <2>1, <2>2, <2>3, Zenon DEF PageInv, CommittedImage
  <2>7. BeforeImages(p)'
    BY <2>1, <2>2, <2>3, <2>5, Zenon DEF PageInv, BeforeImages
  <2>8. Holding(p)'
    <3>1. \A i \in UpdatesOf(p) : log[i].run = run => txn'[log[i].txn_id] # "active"
      <4>1. \A i \in UpdatesOf(p) : log[i].run = run /\ txn[log[i].txn_id] = "active"
              => log[i].txn_id = t
        BY <1>1, <1>7, <2>1, Zenon DEF PageInv, Holding
      <4> QED BY <1>1, <4>1, UpdateFacts, Zenon DEF RecoveryType
    <3> QED BY <1>1, <2>1, <2>2, <2>3, <3>1, Zenon DEF Holding
  <2>9. Memory(p)'
    <3>1. TellsApart(p)' => TellsApart(p)
      BY <1>2, <2>2, <2>3, <2>4, Zenon DEF TellsApart
    <3> QED BY <1>1, <1>7, <2>1, <3>1, Zenon DEF PageInv, Memory
  <2>10. OnDisk(p)'
    <3>1. Shows(p, Len(log'), disk[p]) <=> Shows(p, Len(log), disk[p])
      <4>1. \A j \in UpdatesOf(p) : /\ j <= Len(log) /\ j <= Len(log')
                                    /\ ~(j > Len(log)) /\ ~(j > Len(log'))
        BY <1>2, <2>2, BehindLog, Zenon
      <4> QED BY <4>1, Zenon DEF Shows
    <3> QED BY <1>1, <1>2, <2>1, <2>3, <2>4, <2>5, <3>1, Zenon DEF PageInv, OnDisk
  <2>11. Redone(p)' /\ Undone(p)'
    BY <1>1, Zenon DEF Redone, Undone
  <2> QED BY <2>6, <2>7, <2>8, <2>9, <2>10, <2>11, Zenon DEF PageInv
<1> QED BY <1>4, <1>5, <1>6, <1>7, Zenon DEF RecoveryBody

\* A checkpoint: all pages are in the file as they are in memory, and redo
\* starts behind it.
LEMMA CheckpointPreserves ==
  ASSUME RecoveryType, WritesSucceed, RecoveryBody, InStep', Checkpoint
  PROVE  RecoveryBody'
<1>1. /\ stage = "up" /\ stage' = "up" /\ disk' = mem
      /\ AppendRecord(Record("checkpoint", NoTxn, NoPage, Blank, Blank))
      /\ UNCHANGED <<txn, owner, mem, saved, run, winners, committed>>
  BY Zenon DEF Checkpoint, clientVars, winnerVars
<1>2. /\ Len(log) \in Nat /\ Len(log') = Len(log) + 1
      /\ \A i \in 1..Len(log) : log'[i] = log[i]
      /\ log'[Len(log) + 1] = Numbered("checkpoint", NoTxn, NoPage, Blank, Blank)
      /\ \A q \in Pages : UpdatesOf(q)' = UpdatesOf(q)
      /\ CommittedIds' = CommittedIds /\ RedoStart' = Len(log) + 2
  BY <1>1, MarkAppended, Zenon
<1>3. log'[Len(log) + 1].type = "checkpoint" /\ log'[Len(log) + 1].run = run
  BY <1>1, MarkAppended, Zenon
<1>4. Past'
  BY <1>1, <1>2, <1>3, PastAppended, Zenon DEF RecoveryBody, RecoveryType
<1>5. ThisRun'
  <2>1. \A i \in 1..Len(log') : log'[i].type = "update" => i \in 1..Len(log)
    <3>1. 1..Len(log') = 1..Len(log) \cup {Len(log) + 1}
      BY <1>2
    <3> QED BY <1>3, <3>1, Zenon
  <2> QED BY <1>1, <1>2, <2>1, Zenon DEF RecoveryBody, ThisRun
<1>6. ASSUME NEW p \in Pages PROVE PageInv(p)'
  <2>1. PageInv(p)
    BY Zenon DEF RecoveryBody
  <2>2. \A i \in UpdatesOf(p) :
          /\ i \in 1..Len(log) /\ log'[i] = log[i] /\ Instance(i)' = Instance(i)
          /\ (Won(i)' <=> Won(i)) /\ (Settled(p, i)' <=> Settled(p, i))
    BY <1>1, <1>2, UpdateFacts, Zenon DEF Won, Instance, Settled
  <2>3. UpdatesOf(p)' = UpdatesOf(p)
    BY <1>2, Zenon
  <2>4. \A n, im : Shows(p, n, im)' <=> Shows(p, n, im)
    BY <2>2, <2>3, Zenon DEF Shows
  <2>5. CommittedImage(p)'
    BY <1>1, <2>1, <2>2, <2>3, Zenon DEF PageInv, CommittedImage
  <2>6. BeforeImages(p)'
    BY <2>1, <2>2, <2>3, <2>4, Zenon DEF PageInv, BeforeImages
  <2>7. Holding(p)'
    <3>1. /\ run' = run /\ txn' = txn /\ owner' = owner /\ mem' = mem /\ stage # "down"
          /\ Holding(p)
      BY <1>1, <2>1, Zenon DEF PageInv
    <3>2. \A i \in UpdatesOf(p)' :
            log'[i].run = run' /\ txn'[log'[i].txn_id] = "active" => owner'[p] = log'[i].txn_id
      <4>1. \A i \in UpdatesOf(p) :
              log[i].run = run /\ txn[log[i].txn_id] = "active" => owner[p] = log[i].txn_id
        BY <3>1, Zenon DEF Holding
      <4> QED BY <2>2, <2>3, <3>1, <4>1, Zenon
    <3>3. owner'[p] # NoTxn =>
            /\ txn'[owner'[p]] = "active"
            /\ \E i \in UpdatesOf(p)' :
                 /\ Instance(i)' = <<run', owner'[p]>> /\ mem'[p] = log'[i].after_image
                 /\ \A j \in UpdatesOf(p)' : j <= i
            /\ \A i \in UpdatesOf(p)' : Instance(i)' # <<run', owner'[p]>> =>
                 \A j \in UpdatesOf(p)' : Instance(j)' = <<run', owner'[p]>> => i < j
      BY <2>2, <2>3, <3>1, Zenon DEF Holding
    <3> QED BY <3>2, <3>3, Zenon DEF Holding
  <2>8. Memory(p)'
    <3>1. TellsApart(p)' => TellsApart(p)
      BY <1>2, <2>2, <2>3, Zenon DEF TellsApart
    <3> QED BY <1>1, <2>1, <3>1, Zenon DEF PageInv, Memory
  <2>9. OnDisk(p)'
    <3>1. ASSUME \A i \in UpdatesOf(p) : Settled(p, i) PROVE Shows(p, Len(log'), disk'[p])
      <4>1. Shows(p, Len(log), mem[p])
        BY <1>1, <2>1, <3>1, MemoryShows, Zenon
      <4>2. \A j \in UpdatesOf(p) : j <= Len(log) /\ j <= Len(log') /\ ~(j > Len(log))
        BY <1>2, <2>2, BehindLog, Zenon
      <4> QED BY <1>1, <4>1, <4>2, Zenon DEF Shows
    <3> QED BY <1>1, <2>2, <2>3, <2>4, <3>1, Zenon DEF OnDisk
  <2>10. Redone(p)' /\ Undone(p)'
    BY <1>1, Zenon DEF Redone, Undone
  <2> QED BY <2>5, <2>6, <2>7, <2>8, <2>9, <2>10, Zenon DEF PageInv
<1> QED BY <1>4, <1>5, <1>6, Zenon DEF RecoveryBody
-----------------------------------------------------------------------------

\* An empty log, blank pages and no process.
LEMMA RecoveryInitEstablishes == RecoveryInit => RecoveryInv
<1> SUFFICES ASSUME RecoveryInit PROVE RecoveryInv
  BY Zenon
<1>1. /\ log = <<>> /\ Len(log) = 0 /\ log \in Seq(LogRecords) /\ next_lsn = 1 /\ stream_good
      /\ stage = "down" /\ pos = 0 /\ run = 0 /\ winners = {}
      /\ disk = [p \in Pages |-> Blank] /\ mem = disk /\ saved = disk /\ committed = disk
      /\ txn = [t \in TxnIds |-> "new"] /\ owner = [p \in Pages |-> NoTxn]
  BY DEF RecoveryInit, WALInit
<1>2. RecoveryType /\ Progress
  BY <1>1, RecoveryAssumption DEF RecoveryType, RecordsType, Progress
<1>3. Checkpoints = {} /\ \A p \in Pages : UpdatesOf(p) = {}
  BY <1>1 DEF Checkpoints, UpdatesOf
<1>4. Past /\ ThisRun
  BY <1>1, <1>3 DEF Past, ThisRun, RedoStart
<1>5. ASSUME NEW p \in Pages PROVE PageInv(p)
  <2>1. CommittedImage(p) /\ BeforeImages(p)
    BY <1>1, <1>3, Zenon DEF CommittedImage, BeforeImages
  <2>2. Holding(p) /\ Memory(p) /\ Redone(p) /\ Undone(p)
    BY <1>1, Zenon DEF Holding, Memory, Redone, Undone
  <2>3. OnDisk(p)
    BY <1>1, <1>3, Zenon DEF OnDisk, Shows
  <2> QED BY <2>1, <2>2, <2>3, Zenon DEF PageInv
<1> QED BY <1>2, <1>4, <1>5, Zenon DEF RecoveryInv, RecoveryBody

\* Every step of a run of the process, of Recover, of its clients and of a
\* crash keeps the invariant.
LEMMA RecoveryNextPreserves ==
  ASSUME WritesSucceed
  PROVE  RecoveryInv /\ [RecoveryNext]_recoveryVars => RecoveryInv'
<1> SUFFICES ASSUME RecoveryInv, [RecoveryNext]_recoveryVars PROVE RecoveryInv'
  BY Zenon
<1>0. /\ RecoveryType /\ Progress /\ (InStep => RecoveryBody)
      /\ (RecoveryType' /\ Progress' /\ (InStep' => RecoveryBody') => RecoveryInv')
  BY Zenon DEF RecoveryInv, RecoveryBody
<1>1. CASE UNCHANGED recoveryVars
  <2>1. /\ UNCHANGED <<log, tail, next_lsn, stream_good, stage, pos, disk>>
        /\ UNCHANGED <<mem, txn, owner, saved, run, winners, committed>>
    BY <1>1, Zenon DEF recoveryVars, walVars, clientVars, winnerVars
  <2>2. RecoveryType' /\ Progress' /\ InStep' = InStep
    BY <1>0, <2>1, RecordsSame, Zenon DEF RecoveryType, RecordsType, Progress, InStep
  <2>3. ASSUME InStep PROVE Past' /\ ThisRun'
    BY <1>0, <2>1, <2>3, PastSame, Zenon DEF RecoveryBody, ThisRun
  <2>4. ASSUME InStep, NEW p \in Pages PROVE PageInv(p)'
    <3>1. PageInv(p)
      BY <1>0, <2>4, Zenon DEF RecoveryBody
    <3>2. CommittedImage(p)' /\ BeforeImages(p)'
      BY <2>1, <3>1, ImagesSame, Zenon DEF PageInv
    <3>3. Holding(p)'
      BY <2>1, <3>1, RecordsSame, Zenon DEF PageInv, Holding
    <3>4. Memory(p)' /\ OnDisk(p)'
      <4>1. \A i : Settled(p, i)' <=> Settled(p, i)
        BY <2>1, RecordsSame, Zenon DEF Settled
      <4>2. TellsApart(p)' => TellsApart(p)
        BY <2>1, <4>1, RecordsSame, Zenon DEF TellsApart
      <4>3. Memory(p)'
        BY <2>1, <3>1, <4>2, Zenon DEF PageInv, Memory
      <4>4. OnDisk(p)'
        BY <2>1, <3>1, <4>1, RecordsSame, Zenon DEF PageInv, OnDisk
      <4> QED BY <4>3, <4>4, Zenon
    <3>5. Redone(p)' /\ Undone(p)'
      <4>1. Redone(p)'
        BY <2>1, <3>1, RecordsSame, Zenon DEF PageInv, Redone
      <4>2. Undone(p)'
        <5>1. /\ UpdatesOf(p)' = UpdatesOf(p) /\ (UndoSafe(p)' <=> UndoSafe(p))
              /\ \A i : Won(i)' <=> Won(i)
              /\ \A n, im : Shows(p, n, im)' <=> Shows(p, n, im)
          BY <2>1, RecordsSame, Zenon
        <5> QED BY <2>1, <3>1, <5>1, Zenon DEF PageInv, Undone
      <4> QED BY <4>1, <4>2, Zenon
    <3> QED BY <3>2, <3>3, <3>4, <3>5, Zenon DEF PageInv
  <2> QED BY <1>0, <2>2, <2>3, <2>4, Zenon DEF RecoveryBody
<1>2. CASE Start \/ RecoverStep \/ RecoverFails
  <2>1. RecoveryType' /\ Progress'
    BY <1>0, <1>2, RecoverTypes, Zenon DEF RecoveryBody
  <2>2. InStep' = InStep
    BY <1>0, <1>2, OpenFacts, Zenon DEF Start, RecoverStep, RedoStep, RedoDone, UndoStep, UndoDone,
                              RecoverFails, walVars, InStep
  <2> QED BY <1>0, <1>2, <2>1, <2>2, StartPreserves, RedoStepPreserves, RedoDonePreserves,
             UndoStepPreserves, UndoDonePreserves, StopPreserves, Zenon DEF RecoverStep
<1>3. CASE Crash
  BY <1>0, <1>3, CrashTypes, StopPreserves, Zenon
<1>4. CASE ClientStep
  <2>1. RecoveryType'
    BY <1>0, <1>4, ClientTypes, Zenon
  <2>2. stage = "up" /\ stage' = "up"
    BY <1>4, Zenon DEF ClientStep, Begin, UpdatePage, CommitTxn, AbortTxn, WriteBackPage, Checkpoint
  <2>3. Progress'
    BY <2>2, Zenon DEF Progress
  <2>4. ASSUME InStep' PROVE InStep
    <3>1. CASE tail' = tail
      BY <2>4, <3>1, Zenon DEF InStep
    <3>2. ASSUME NEW r, AppendRecord(r) PROVE InStep
      BY <2>4, <3>2, AppendInStep, Zenon
    <3> QED BY <1>4, <3>1, <3>2, Zenon DEF ClientStep, Begin, UpdatePage, CommitTxn, AbortTxn,
                                    WriteBackPage, Checkpoint, walVars
  <2>5. ASSUME InStep' PROVE RecoveryBody'
    BY <1>0, <1>4, <2>4, <2>5, RecoveryBeginPreserves, UpdatePreserves, RecoveryCommitPreserves,
       RecoveryAbortPreserves, WriteBackPreserves, CheckpointPreserves, Zenon DEF ClientStep
  <2> QED BY <1>0, <2>1, <2>3, <2>5, Zenon
<1> QED BY <1>1, <1>2, <1>3, <1>4, Zenon DEF RecoveryNext

\* Recover restores what committed and nothing else, however often the process
\* dies, in Recover as well, as long as no write to the log fails.
THEOREM CommittedSurvives ==
  ASSUME WritesSucceed
  PROVE  RecoverySpec => []RecoveryRestoresCommitted
<1>1. RecoveryInv => RecoveryRestoresCommitted
  <2> SUFFICES ASSUME RecoveryInv, stage = "up", InStep, NEW p \in Pages,
                      owner[p] = NoTxn, UndoSafe(p)
               PROVE  mem[p] = committed[p]
    BY Zenon DEF RecoveryRestoresCommitted
  <2>1. RecoveryType /\ Memory(p)
    BY Zenon DEF RecoveryInv, RecoveryBody, PageInv
  <2> QED BY <2>1, SettledByCommit, Zenon DEF Memory
<1> QED BY <1>1, RecoveryInitEstablishes, RecoveryNextPreserves, PTL DEF RecoverySpec
=============================================================================
