------------------------------ MODULE Recovery ------------------------------
(***************************************************************************)
(* RecoveryManager::Recover (src/recovery/recovery_manager.cpp) over the   *)
(* log of WAL.tla and the pages of the data file, with the transactions    *)
(* whose work it restores.                                                 *)
(*                                                                         *)
(* No caller of WALManager exists in the sources yet.  The client here is  *)
(* the one of DESIGN.md ("Transaction Architecture") and of the unit       *)
(* tests: it logs both images of a page before it changes the page, holds  *)
(* the page exclusively until it has logged its commit or abort, puts the  *)
(* old images back when it aborts, and has every changed page written to   *)
(* the file before it logs a checkpoint.  Transaction ids start at 1 again *)
(* whenever the process does.                                              *)
(*                                                                         *)
(* Changed pages reach the file at any time (the buffer pool evicts when   *)
(* it must), and the process may die at any time, in Recover too.          *)
(***************************************************************************)
EXTENDS WAL

CONSTANTS
  Pages,
  Images,   \* page images
  Blank,    \* the image every page has at first
  NoPage,   \* the page of a record that is about none
  MaxTxn,   \* bound on the transactions of one run of the process
  MaxRuns   \* bound on the runs of the process

ASSUME RecoveryAssumption ==
  /\ Blank \in Images
  /\ NoPage \notin Pages
  /\ MaxTxn \in Nat /\ MaxRuns \in Nat

VARIABLES
  stage,      \* "down", "redo", "undo", "failed" (Recover returned an error), "up"
  pos,        \* the record Recover looks at next
  disk,       \* pages in the data file
  mem,        \* pages as the buffer pool shows them
  txn,        \* txn[t]: "new", "active" or "ended", in this run
  owner,      \* owner[p]: the transaction that holds p, or NoTxn
  saved,      \* saved[p]: p before its owner changed it
  run,        \* history: the number of this run of the process
  winners,    \* history: <<run, id>> of the transactions that committed
  committed   \* history: pages as the committed transactions left them

clientVars == <<mem, txn, owner, saved>>
winnerVars == <<winners, committed>>
recoveryVars == <<walVars, stage, pos, disk, clientVars, run, winnerVars>>

TxnIds == 1..MaxTxn
NoTxn == 0

Record(type, t, p, before, after) ==
  [lsn |-> kInvalidLsn, type |-> type, txn_id |-> t, page_id |-> p,
   before_image |-> before, after_image |-> after,
   run |-> run]  \* history, not in the file

RecoveryTypeOK ==
  /\ stage \in {"down", "redo", "undo", "failed", "up"}
  /\ open <=> stage # "down"
  /\ pos \in 0..MaxLog + 1
  /\ disk \in [Pages -> Images] /\ mem \in [Pages -> Images]
  /\ txn \in [TxnIds -> {"new", "active", "ended"}]
  /\ owner \in [Pages -> TxnIds \cup {NoTxn}]
  /\ saved \in [Pages -> Images]
  /\ run \in 0..MaxRuns
  /\ winners \subseteq (1..MaxRuns) \X TxnIds
  /\ committed \in [Pages -> Images]

RecoveryInit ==
  /\ WALInit
  /\ stage = "down" /\ pos = 0
  /\ disk = [p \in Pages |-> Blank]
  /\ mem = disk
  /\ txn = [t \in TxnIds |-> "new"]
  /\ owner = [p \in Pages |-> NoTxn]
  /\ saved = disk
  /\ run = 0
  /\ winners = {}
  /\ committed = disk

\* The memory of a process that has done nothing yet.
NewProcess ==
  /\ mem' = [p \in Pages |-> Blank]
  /\ saved' = [p \in Pages |-> Blank]
  /\ txn' = [t \in TxnIds |-> "new"]
  /\ owner' = [p \in Pages |-> NoTxn]
-----------------------------------------------------------------------------
\* ANALYSIS: the ids with a commit record, and where redo starts.
CommittedIds == {log[i].txn_id : i \in {j \in 1..Len(log) : log[j].type = "commit"}}

Checkpoints == {i \in 1..Len(log) : log[i].type = "checkpoint"}

RedoStart ==
  IF Checkpoints = {} THEN 1
  ELSE 1 + CHOOSE i \in Checkpoints : \A j \in Checkpoints : j <= i

\* Recover goes through records nobody appended: it fails at a page id out of
\* range, or ends and leaves any images behind.
Misread ==
  /\ disk' \in [Pages -> Images]
  /\ stage' \in {"failed", "up"}
  /\ pos' = 0
  /\ mem' = IF stage' = "up" THEN disk' ELSE mem
  /\ saved' = mem'

\* The process starts and calls Recover: ReadAll and the analysis pass.
Start ==
  /\ stage = "down"
  /\ run < MaxRuns
  /\ OpenLog
  /\ run' = run + 1
  /\ IF tail = "garbled"
     THEN Misread
     ELSE /\ stage' = IF ReadAllOk THEN "redo" ELSE "failed"
          /\ pos' = IF ReadAllOk THEN RedoStart ELSE 0
          /\ UNCHANGED <<disk, mem, saved>>
  /\ UNCHANGED <<txn, owner, winnerVars>>

\* Mutant: the loop does not move on from a record that is no update.
RedoStuck ==
  /\ stage = "redo" /\ pos <= Len(log)
  /\ log[pos].type = "update"
  /\ disk' = [disk EXCEPT ![log[pos].page_id] = log[pos].after_image]
  /\ pos' = pos + 1
  /\ UNCHANGED <<walVars, stage, clientVars, run, winnerVars>>

\* REDO: the after image of every update from there on.
RedoStep ==
  /\ stage = "redo" /\ pos <= Len(log)
  /\ disk' = IF log[pos].type = "update"
             THEN [disk EXCEPT ![log[pos].page_id] = log[pos].after_image]
             ELSE disk
  /\ pos' = pos + 1
  /\ UNCHANGED <<walVars, stage, clientVars, run, winnerVars>>

RedoDone ==
  /\ stage = "redo" /\ pos > Len(log)
  /\ stage' = "undo"
  /\ pos' = Len(log)
  /\ UNCHANGED <<walVars, disk, clientVars, run, winnerVars>>

\* Mutant: undo, too, stops at the checkpoint.
UndoneSinceCheckpoint(r) ==
  r.type = "update" /\ r.txn_id \notin CommittedIds /\ pos >= RedoStart

NeedsUndo(r) == r.type = "update" /\ r.txn_id \notin CommittedIds

\* UNDO: backwards over the whole log, the before image of every update of a
\* transaction that has no commit record.
UndoStep ==
  /\ stage = "undo" /\ pos > 0
  /\ disk' = IF NeedsUndo(log[pos])
             THEN [disk EXCEPT ![log[pos].page_id] = log[pos].before_image]
             ELSE disk
  /\ pos' = pos - 1
  /\ UNCHANGED <<walVars, stage, clientVars, run, winnerVars>>

\* Recover returns OK and clients are let in.
UndoDone ==
  /\ stage = "undo" /\ pos = 0
  /\ stage' = "up"
  /\ mem' = disk
  /\ saved' = disk
  /\ UNCHANGED <<walVars, pos, disk, txn, owner, run, winnerVars>>

\* A WritePage fails, and Recover returns its status.
RecoverFails ==
  /\ stage \in {"redo", "undo"}
  /\ stage' = "failed"
  /\ pos' = 0
  /\ UNCHANGED <<walVars, disk, clientVars, run, winnerVars>>
-----------------------------------------------------------------------------
Begin(t) ==
  /\ stage = "up"
  /\ txn[t] = "new" /\ \A u \in TxnIds : u < t => txn[u] # "new"
  /\ txn' = [txn EXCEPT ![t] = "active"]
  /\ UNCHANGED <<walVars, stage, pos, disk, mem, owner, saved, run, winnerVars>>

\* AppendUpdate, and then the page is changed.
UpdatePage(t, p, image) ==
  /\ stage = "up" /\ txn[t] = "active"
  /\ owner[p] \in {NoTxn, t}
  /\ image # mem[p]
  /\ AppendRecord(Record("update", t, p, mem[p], image))
  /\ mem' = [mem EXCEPT ![p] = image]
  /\ owner' = [owner EXCEPT ![p] = t]
  /\ saved' = IF owner[p] = t THEN saved ELSE [saved EXCEPT ![p] = mem[p]]
  /\ UNCHANGED <<stage, pos, disk, txn, run, winnerVars>>

Released(t) == [p \in Pages |-> IF owner[p] = t THEN NoTxn ELSE owner[p]]

\* AppendCommit; the pages are let go once it has returned.
CommitTxn(t) ==
  /\ stage = "up" /\ txn[t] = "active"
  /\ AppendRecord(Record("commit", t, NoPage, Blank, Blank))
  /\ txn' = [txn EXCEPT ![t] = "ended"]
  /\ owner' = Released(t)
  /\ winners' = winners \cup {<<run, t>>}
  /\ committed' = [p \in Pages |-> IF owner[p] = t THEN mem[p] ELSE committed[p]]
  /\ UNCHANGED <<stage, pos, disk, mem, saved, run>>

\* The old images are put back, and AppendAbort.
AbortTxn(t) ==
  /\ stage = "up" /\ txn[t] = "active"
  /\ AppendRecord(Record("abort", t, NoPage, Blank, Blank))
  /\ txn' = [txn EXCEPT ![t] = "ended"]
  /\ owner' = Released(t)
  /\ mem' = [p \in Pages |-> IF owner[p] = t THEN saved[p] ELSE mem[p]]
  /\ UNCHANGED <<stage, pos, disk, saved, run, winnerVars>>

WriteBackPage(p) ==
  /\ stage = "up"
  /\ disk[p] # mem[p]
  /\ disk' = [disk EXCEPT ![p] = mem[p]]
  /\ UNCHANGED <<walVars, stage, pos, clientVars, run, winnerVars>>

\* Every page is written, then AppendCheckpoint.
Checkpoint ==
  /\ stage = "up"
  /\ disk' = mem
  /\ AppendRecord(Record("checkpoint", NoTxn, NoPage, Blank, Blank))
  /\ UNCHANGED <<stage, pos, clientVars, run, winnerVars>>

\* The process dies, and its memory with it.
Crash ==
  /\ stage # "down"
  /\ stage' = "down"
  /\ CloseLog \/ (stage = "up" /\ CutAppend)
  /\ pos' = 0
  /\ NewProcess
  /\ UNCHANGED <<disk, run, winnerVars>>

RecoverStep == RedoStep \/ RedoDone \/ UndoStep \/ UndoDone

ClientStep ==
  \/ \E t \in TxnIds :
       \/ Begin(t)
       \/ \E p \in Pages, image \in Images : UpdatePage(t, p, image)
       \/ CommitTxn(t)
       \/ AbortTxn(t)
  \/ \E p \in Pages : WriteBackPage(p)
  \/ Checkpoint

RecoveryNext == Start \/ RecoverStep \/ RecoverFails \/ ClientStep \/ Crash

RecoverySpec == RecoveryInit /\ [][RecoveryNext]_recoveryVars

\* Recover is a loop on one thread: it goes on while the process lives.
RecoveryFairSpec == RecoverySpec /\ WF_recoveryVars(RecoverStep)
-----------------------------------------------------------------------------
Instance(i) == <<log[i].run, log[i].txn_id>>
UpdatesOf(p) == {i \in 1..Len(log) : log[i].type = "update" /\ log[i].page_id = p}

\* The log lets Recover get p right: no update of p that did not commit comes
\* before one that did, and none bears the id of a transaction that did.
UndoSafe(p) ==
  \A i \in UpdatesOf(p) : Instance(i) \notin winners =>
    /\ \A j \in UpdatesOf(p) : i < j => Instance(j) \notin winners
    /\ log[i].txn_id \notin CommittedIds

\* A page nobody holds is as the committed transactions left it, through any
\* number of crashes, in Recover as well: what committed is redone, what did
\* not is undone, checkpoint or not.  It is so for the pages for which the
\* log lets Recover tell the two apart (UndoSafe), and as long as nothing was
\* appended behind a record that a crash cut short (InStep).
RecoveryRestoresCommitted ==
  stage = "up" /\ InStep =>
    \A p \in Pages : owner[p] = NoTxn /\ UndoSafe(p) => mem[p] = committed[p]

\* Recover comes to an end, if the process lives.
RecoveryEnds == stage = "redo" ~> stage \in {"up", "failed", "down"}
=============================================================================
