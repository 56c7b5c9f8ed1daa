-------------------------------- MODULE MVCC --------------------------------
(***************************************************************************)
(* Row versions and their visibility (src/transaction/mvcc.cpp) over the   *)
(* TransactionManager and the LockManager.                                 *)
(*                                                                         *)
(* The heap file is the sequence of row versions ever inserted; a record   *)
(* id is an index into it.  DeleteVersion keeps the length of the record,  *)
(* so HeapFile::UpdateRecord rewrites it in place and the id stays valid.  *)
(*                                                                         *)
(* As in DESIGN.md ("every read/write in the txn"), a client locks a row   *)
(* version exclusively before it supersedes it, checks after that that     *)
(* the version is visible to it, and calls ReleaseAll once it has ended.   *)
(* UpdateVersion is DeleteVersion and then InsertVersion, two heap file    *)
(* operations with no lock around them: other transactions run in between. *)
(***************************************************************************)
EXTENDS TransactionManager, LockManager, Sequences

CONSTANTS
  Keys,          \* identities of rows, which all versions of a row share
  MaxVersions,   \* bound on the versions inserted
  WriterLevels   \* isolation levels of the transactions that write

ASSUME MVCCAssumption ==
  /\ MaxVersions \in Nat
  /\ Rids = 1..MaxVersions
  /\ WriterLevels \subseteq Levels

VARIABLES
  versions,     \* the heap file: <<[key, xmin, xmax], ...>>
  pending,      \* pending[t]: the key UpdateVersion of t has yet to insert, or NoKey
  live,         \* history: the versions that committed work leaves in the table
  superseded,   \* history: superseded[t]: the versions t has deleted
  live_at_start \* history: live_at_start[t]: `live' when t began

mvccVars == <<versions, pending>>
historyVars == <<live, superseded, live_at_start>>
vars == <<txnVars, lockVars, mvccVars, historyVars>>

NoKey == "no key"

TypeOK ==
  /\ TxnTypeOK
  /\ LockTypeOK
  /\ versions \in Seq([key : Keys, xmin : Txns, xmax : Txns \cup {kInvalidTxnId}])
  /\ Len(versions) <= MaxVersions
  /\ pending \in [Txns -> Keys \cup {NoKey}]
  /\ live \subseteq Rids
  /\ superseded \in [Txns -> SUBSET Rids]
  /\ live_at_start \in [Txns -> SUBSET Rids]

Init ==
  /\ TxnInit
  /\ LockInit
  /\ versions = <<>>
  /\ pending = [t \in Txns |-> NoKey]
  /\ live = {}
  /\ superseded = [t \in Txns |-> {}]
  /\ live_at_start = [t \in Txns |-> {}]
-----------------------------------------------------------------------------
CommittedAndVisibleTo(id, reader) ==
  /\ id # kInvalidTxnId
  /\ IsCommitted(id)
  /\ \/ transactions[reader].level = "ReadCommitted"
     \/ id < reader /\ id \notin transactions[reader].active_at_start

\* Mutants: a version is hidden by a deleter that has not committed; it is
\* hidden by its reader's own deletion only.
HiddenByAnyDeleter(meta, reader) ==
  /\ meta.xmin = reader \/ CommittedAndVisibleTo(meta.xmin, reader)
  /\ meta.xmax = kInvalidTxnId
HiddenBySelfOnly(meta, reader) ==
  /\ meta.xmax # reader
  /\ meta.xmin = reader \/ CommittedAndVisibleTo(meta.xmin, reader)

IsVisible(meta, reader) ==
  /\ meta.xmax # reader
  /\ meta.xmin = reader \/ CommittedAndVisibleTo(meta.xmin, reader)
  /\ meta.xmax = kInvalidTxnId \/ ~CommittedAndVisibleTo(meta.xmax, reader)

VersionIds == DOMAIN versions

\* What ScanVisible hands to its visitor.
ScanVisible(reader) == {v \in VersionIds : IsVisible(versions[v], reader)}

MayWrite(t) ==
  /\ IsActive(t)
  /\ transactions[t].level \in WriterLevels
  /\ pending[t] = NoKey

Inserted(t, k) ==
  /\ Len(versions) < MaxVersions
  /\ versions' = Append(versions, [key |-> k, xmin |-> t, xmax |-> kInvalidTxnId])

\* InsertVersion of a new row.
InsertVersion(t, k) ==
  /\ MayWrite(t)
  /\ \A v \in VersionIds : versions[v].key # k
  /\ Inserted(t, k)
  /\ UNCHANGED <<txnVars, lockVars, pending, historyVars>>

\* The client takes the lock on a version it is about to supersede.
LockVersion(t, v) ==
  /\ MayWrite(t)
  /\ v \in VersionIds
  /\ lock_table[v].exclusive # t
  /\ IsVisible(versions[v], t)
  /\ LockExclusive(t, v)
  /\ UNCHANGED <<txnVars, mvccVars, historyVars>>

\* DeleteVersion stamps the version with t, whatever stamp it had.
Stamped(t, v) ==
  /\ MayWrite(t)
  /\ v \in VersionIds
  /\ lock_table[v].exclusive = t
  /\ IsVisible(versions[v], t)
  /\ versions' = [versions EXCEPT ![v].xmax = t]
  /\ superseded' = [superseded EXCEPT ![t] = @ \cup {v}]
  /\ UNCHANGED <<txnVars, lockVars, live, live_at_start>>

DeleteVersion(t, v) ==
  /\ Stamped(t, v)
  /\ UNCHANGED pending

\* UpdateVersion: the old version is stamped, then the new one is inserted.
UpdateVersionDelete(t, v) ==
  /\ Stamped(t, v)
  /\ pending' = [pending EXCEPT ![t] = versions[v].key]

UpdateVersionInsert(t) ==
  /\ pending[t] # NoKey
  /\ Inserted(t, pending[t])
  /\ pending' = [pending EXCEPT ![t] = NoKey]
  /\ UNCHANGED <<txnVars, lockVars, historyVars>>

ClientBegin(t) ==
  /\ \E level \in Levels : Begin(t, level)
  /\ live_at_start' = [live_at_start EXCEPT ![t] = live]
  /\ UNCHANGED <<lockVars, mvccVars, live, superseded>>

\* A transaction whose UpdateVersion failed half way can only abort.
ClientCommit(t) ==
  /\ pending[t] = NoKey
  /\ Commit(t)
  /\ live' = (live \ superseded[t])
             \cup {v \in VersionIds \ superseded[t] : versions[v].xmin = t}
  /\ UNCHANGED <<lockVars, mvccVars, superseded, live_at_start>>

ClientAbort(t) ==
  /\ Abort(t)
  /\ pending' = [pending EXCEPT ![t] = NoKey]
  /\ UNCHANGED <<lockVars, versions, historyVars>>

ClientRelease(t) ==
  /\ transactions[t].state \in {"committed", "aborted"}
  /\ txn_locks[t] # {} \/ held[t].running
  /\ \/ ReleaseCopy(t)
     \/ \E v \in Rids : ReleaseRow(t, v)
     \/ ReleaseErase(t)
  /\ UNCHANGED <<txnVars, mvccVars, historyVars>>

Next ==
  \E t \in Txns :
    \/ ClientBegin(t) \/ ClientCommit(t) \/ ClientAbort(t) \/ ClientRelease(t)
    \/ \E k \in Keys : InsertVersion(t, k)
    \/ \E v \in VersionIds :
         LockVersion(t, v) \/ DeleteVersion(t, v) \/ UpdateVersionDelete(t, v)
    \/ UpdateVersionInsert(t)

Spec == Init /\ [][Next]_vars
-----------------------------------------------------------------------------
\* The versions of other transactions that t works with: those it sees and
\* those it has itself superseded.
Snapshot(t) ==
  {v \in VersionIds : /\ versions[v].xmin # t
                      /\ v \in ScanVisible(t) \/ v \in superseded[t]}

\* As long as a snapshot-isolation transaction runs, it sees exactly the
\* versions that were committed and not deleted when it began, whatever else
\* commits, deletes or updates meanwhile, and its own changes.
SnapshotIsStartState ==
  \A t \in Txns :
    IsActive(t) /\ transactions[t].level = "SnapshotIsolation" =>
      Snapshot(t) = live_at_start[t]

\* A read-committed transaction sees exactly what has been committed and not
\* deleted so far, and its own changes.
ReadCommittedSeesLive ==
  \A t \in Txns :
    IsActive(t) /\ transactions[t].level = "ReadCommitted" => Snapshot(t) = live

\* No transaction ever sees two versions of one row.
OneVersionPerRow ==
  \A t \in Txns : IsActive(t) =>
    \A v, w \in ScanVisible(t) : versions[v].key = versions[w].key => v = w
=============================================================================
