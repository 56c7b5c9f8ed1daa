-------------------------- MODULE TransactionProofs --------------------------
(***************************************************************************)
(* What row versions show to readers, for any number of transactions, rows *)
(* and versions.  The writers are read-committed transactions: a writer    *)
(* under snapshot isolation may stamp a version again that a transaction   *)
(* it does not see has deleted, and then none of the three properties      *)
(* holds.                                                                  *)
(*                                                                         *)
(* The stamps of a version are compared with `superseded', the set of all  *)
(* who ever deleted it.  A stamp is overwritten only once its owner has    *)
(* aborted: until it ends the owner has the row locked, and if it commits  *)
(* no writer sees the version again.                                       *)
(***************************************************************************)
EXTENDS MVCC, TLAPS

Began(t) == transactions[t].state # "none"
IsAborted(t) == transactions[t].state = "aborted"

\* The ids handed out are those below next_txn_id_.  Whoever is neither active
\* in the snapshot of a later transaction nor newer has ended.
IdsInOrder ==
  /\ \A t \in Txns : Began(t) <=> t < next_txn_id
  /\ \A t, u \in Txns :
       Began(t) /\ u < t /\ u \notin transactions[t].active_at_start =>
         IsCommitted(u) \/ IsAborted(u)

\* The transactions that had committed when t began.
CommittedBefore(t) ==
  {u \in Txns : IsCommitted(u) /\ u < t /\ u \notin transactions[t].active_at_start}

\* Only read-committed transactions have left stamps.
Writer(t) == Began(t) /\ transactions[t].level = "ReadCommitted"
StampsOfWriters ==
  /\ \A v \in VersionIds :
       /\ Writer(versions[v].xmin)
       /\ versions[v].xmax # kInvalidTxnId => Writer(versions[v].xmax)
  /\ \A t \in Txns : superseded[t] # {} => Writer(t)
  /\ \A t \in Txns : pending[t] # NoKey => IsActive(t)

\* The stamp of a version is that of one who deleted it, and of the only one
\* who did and has not aborted.  Who deletes a version has inserted it or has
\* found it committed.
StampIsLastDeleter ==
  /\ \A v \in VersionIds :
       versions[v].xmax # kInvalidTxnId => v \in superseded[versions[v].xmax]
  /\ \A t \in Txns : \A v \in superseded[t] :
       /\ v \in VersionIds
       /\ ~IsAborted(t) => versions[v].xmax = t
       /\ versions[v].xmin = t \/ IsCommitted(versions[v].xmin)

\* Until it ends, the owner of a stamp has the row locked.
StampIsLocked ==
  \A v \in VersionIds : \A t \in Txns :
    versions[v].xmax = t /\ IsActive(t) => lock_table[v].exclusive = t

\* The versions that the transactions of C, and they alone, leave.
LeftBy(C) ==
  {v \in VersionIds : versions[v].xmin \in C /\ \A u \in C : v \notin superseded[u]}

LiveIsCommitted ==
  /\ live = LeftBy({u \in Txns : IsCommitted(u)})
  /\ \A t \in Txns : Began(t) => live_at_start[t] = LeftBy(CommittedBefore(t))

\* Of two versions of a row that are not undone, the older one was deleted by
\* the transaction that inserted the newer one, or by one that committed.
Replaced(v, u) ==
  /\ versions[v].xmax # kInvalidTxnId
  /\ versions[v].xmax = u \/ IsCommitted(versions[v].xmax)

OlderReplaced ==
  \A v, w \in VersionIds :
    v < w /\ versions[v].key = versions[w].key
      /\ ~IsAborted(versions[v].xmin) /\ ~IsAborted(versions[w].xmin)
    => Replaced(v, versions[w].xmin)

\* The same for the version that UpdateVersion is about to insert.
PendingReplaces ==
  \A t \in Txns : pending[t] # NoKey =>
    /\ \E v \in VersionIds : versions[v].key = pending[t] /\ versions[v].xmax = t
    /\ \A v \in VersionIds :
         versions[v].key = pending[t] /\ ~IsAborted(versions[v].xmin) => Replaced(v, t)

\* What was live when a transaction began has one version of each row.
OneLivePerRow ==
  \A t \in Txns : Began(t) =>
    \A v, w \in live_at_start[t] : versions[v].key = versions[w].key => v = w

IInv ==
  /\ TypeOK
  /\ IdsInOrder
  /\ StampsOfWriters
  /\ StampIsLastDeleter
  /\ StampIsLocked
  /\ LiveIsCommitted
  /\ OlderReplaced
  /\ PendingReplaces
  /\ OneLivePerRow

\* The writers that the properties are about.
ReadCommittedWriters == WriterLevels \subseteq {"ReadCommitted"}

\* Ids are positive numbers, record ids the places of the versions.
LEMMA Ids ==
  /\ Txns \subseteq Nat /\ kInvalidTxnId \notin Txns /\ kInvalidTxnId \in Nat
  /\ Rids = 1..MaxVersions /\ MaxVersions \in Nat
  BY MVCCAssumption, TransactionManagerAssumption

-----------------------------------------------------------------------------
(* What the operations do, field by field. *)

VersionRecords == [key : Keys, xmin : Txns, xmax : Txns \cup {kInvalidTxnId}]

\* Every version has a key and stamps, and its place in the heap file.
LEMMA VersionTypes ==
  ASSUME TypeOK
  PROVE  /\ VersionIds = 1..Len(versions) /\ Len(versions) \in Nat
         /\ VersionIds \subseteq Rids
         /\ \A v \in VersionIds :
              /\ versions[v].key \in Keys /\ versions[v].xmin \in Txns
              /\ versions[v].xmax \in Txns \cup {kInvalidTxnId}
<1>1. /\ versions \in Seq(VersionRecords) /\ Len(versions) <= MaxVersions
  BY Zenon DEF TypeOK, VersionRecords
<1>2. \A v \in 1..Len(versions) : versions[v] \in VersionRecords
  BY <1>1
<1> QED BY <1>1, <1>2, Ids DEF VersionIds, VersionRecords

\* Begin gives the next id to a transaction that is active from then on.
LEMMA BeginFacts ==
  ASSUME IInv, NEW t \in Txns, ClientBegin(t)
  PROVE  /\ t = next_txn_id /\ next_txn_id' = t + 1
         /\ ~Began(t) /\ \A u \in Txns : Began(u) => u < t
         /\ transactions'[t].state = "active"
         /\ transactions'[t].level \in Levels
         /\ transactions'[t].active_at_start = {u \in Txns : IsActive(u)}
         /\ \A u \in Txns : u # t => transactions'[u] = transactions[u]
         /\ TxnTypeOK'
         /\ UNCHANGED <<lock_table, txn_locks, held, versions, pending, live, superseded>>
         /\ live_at_start' = [live_at_start EXCEPT ![t] = live]
<1>1. PICK level \in Levels : Begin(t, level)
  BY Zenon DEF ClientBegin
<1>2. TxnTypeOK /\ IdsInOrder
  BY Zenon DEF IInv, TypeOK
<1>3. /\ t = next_txn_id /\ next_txn_id' = t + 1
      /\ ~Began(t) /\ \A u \in Txns : Began(u) => u < t
  BY <1>1, <1>2, Ids DEF Begin, IdsInOrder, Began, TxnTypeOK
<1>4. active_txn_ids = {u \in Txns : IsActive(u)}
  BY <1>2, Zenon DEF TxnTypeOK, IsActive
<1>5. transactions' = [transactions EXCEPT ![t] =
        [state |-> "active", level |-> level, active_at_start |-> active_txn_ids]]
  BY <1>1, Zenon DEF Begin, SnapshotOfActive
<1>6. /\ transactions'[t] = [state |-> "active", level |-> level, active_at_start |-> active_txn_ids]
      /\ \A u \in Txns : u # t => transactions'[u] = transactions[u]
      /\ transactions' \in
           [Txns -> [state : {"none", "active", "committed", "aborted"},
                     level : Levels \cup {"none"},
                     active_at_start : SUBSET Txns]]
  BY <1>2, <1>4, <1>5, Zenon DEF TxnTypeOK
<1>7. active_txn_ids' = {u \in Txns : transactions'[u].state = "active"}
  BY <1>1, <1>2, <1>6 DEF Begin, TxnTypeOK
<1>8. next_txn_id' \in 1..MaxTxn + 1
  BY <1>2, <1>3, TransactionManagerAssumption DEF TxnTypeOK
<1>9. UNCHANGED <<lock_table, txn_locks, held, versions, pending, live, superseded>>
      /\ live_at_start' = [live_at_start EXCEPT ![t] = live]
  BY Zenon DEF ClientBegin, lockVars, mvccVars
<1> QED BY <1>3, <1>4, <1>6, <1>7, <1>8, <1>9 DEF TxnTypeOK

\* Commit and Abort change the state of one active transaction.
LEMMA EndFacts ==
  ASSUME IInv, NEW t \in Txns, NEW outcome \in {"committed", "aborted"}, End(t, outcome)
  PROVE  /\ IsActive(t)
         /\ transactions'[t].state = outcome
         /\ \A u \in Txns :
              /\ transactions'[u].level = transactions[u].level
              /\ transactions'[u].active_at_start = transactions[u].active_at_start
              /\ u # t => transactions'[u].state = transactions[u].state
         /\ next_txn_id' = next_txn_id
         /\ TxnTypeOK'
<1>1. TxnTypeOK
  BY Zenon DEF IInv, TypeOK
<1>2. /\ IsActive(t)
      /\ transactions' = [transactions EXCEPT ![t].state = outcome]
      /\ active_txn_ids' = active_txn_ids \ {t}
      /\ next_txn_id' = next_txn_id
  BY Zenon DEF End
<1>3. /\ transactions' \in
           [Txns -> [state : {"none", "active", "committed", "aborted"},
                     level : Levels \cup {"none"},
                     active_at_start : SUBSET Txns]]
      /\ transactions'[t].state = outcome
      /\ \A u \in Txns :
           /\ transactions'[u].level = transactions[u].level
           /\ transactions'[u].active_at_start = transactions[u].active_at_start
           /\ u # t => transactions'[u].state = transactions[u].state
  <2> DEFINE R == [state : {"none", "active", "committed", "aborted"},
                   level : Levels \cup {"none"},
                   active_at_start : SUBSET Txns]
             new == [transactions[t] EXCEPT !.state = outcome]
  <2>1. transactions \in [Txns -> R] /\ transactions' = [transactions EXCEPT ![t] = new]
    BY <1>1, <1>2, Zenon DEF TxnTypeOK
  <2>2. /\ new \in R /\ new.state = outcome
        /\ new.level = transactions[t].level
        /\ new.active_at_start = transactions[t].active_at_start
    BY <2>1
  <2> HIDE DEF new, R
  <2>3. /\ transactions' \in [Txns -> R] /\ transactions'[t] = new
        /\ \A u \in Txns : u # t => transactions'[u] = transactions[u]
    BY <2>1, <2>2, Zenon
  <2> QED BY <2>2, <2>3, Zenon DEF R
<1>4. active_txn_ids' = {u \in Txns : transactions'[u].state = "active"}
  BY <1>1, <1>2, <1>3, Zenon DEF TxnTypeOK
<1> QED BY <1>1, <1>2, <1>3, <1>4, Zenon DEF TxnTypeOK

\* An insert leaves the versions there are alone and puts one behind them.
LEMMA InsertedFacts ==
  ASSUME TypeOK, NEW t \in Txns, NEW k \in Keys, Inserted(t, k)
  PROVE  LET n == Len(versions) + 1
         IN  /\ n \in Rids /\ n \notin VersionIds
             /\ VersionIds' = VersionIds \cup {n}
             /\ \A v \in VersionIds : v < n /\ versions'[v] = versions[v]
             /\ versions'[n].key = k /\ versions'[n].xmin = t
             /\ versions'[n].xmax = kInvalidTxnId
             /\ versions' \in Seq(VersionRecords) /\ Len(versions') <= MaxVersions
<1> DEFINE n == Len(versions) + 1
           rec == [key |-> k, xmin |-> t, xmax |-> kInvalidTxnId]
<1>1. /\ versions \in Seq(VersionRecords) /\ Len(versions) < MaxVersions
      /\ versions' = Append(versions, rec)
      /\ rec \in VersionRecords
  BY Ids, Zenon DEF TypeOK, Inserted, VersionRecords
<1>2. /\ versions' \in Seq(VersionRecords) /\ Len(versions') = n
      /\ \A v \in 1..Len(versions) : versions'[v] = versions[v]
      /\ versions'[n] = rec
  BY <1>1
<1> QED BY <1>1, <1>2, Ids DEF VersionIds

\* DeleteVersion sets one stamp, of a version that its owner has locked and
\* that it sees; the version is remembered as deleted by it.
LEMMA StampedFacts ==
  ASSUME TypeOK, NEW t \in Txns, NEW v \in VersionIds, Stamped(t, v)
  PROVE  /\ VersionIds' = VersionIds
         /\ \A w \in VersionIds :
              /\ versions'[w].key = versions[w].key
              /\ versions'[w].xmin = versions[w].xmin
              /\ w # v => versions'[w].xmax = versions[w].xmax
         /\ versions'[v].xmax = t
         /\ versions' \in Seq(VersionRecords) /\ Len(versions') <= MaxVersions
         /\ superseded' \in [Txns -> SUBSET Rids]
         /\ superseded'[t] = superseded[t] \cup {v}
         /\ \A u \in Txns : u # t => superseded'[u] = superseded[u]
         /\ UNCHANGED <<next_txn_id, active_txn_ids, transactions, lock_table, txn_locks, held,
                        live, live_at_start>>
<1>1. /\ versions \in Seq(VersionRecords) /\ Len(versions) <= MaxVersions
      /\ versions' = [versions EXCEPT ![v].xmax = t]
      /\ superseded' = [superseded EXCEPT ![t] = @ \cup {v}]
      /\ v \in 1..Len(versions) /\ v \in Rids
      /\ superseded \in [Txns -> SUBSET Rids]
  BY Ids DEF TypeOK, Stamped, VersionRecords, VersionIds
<1>2. /\ versions' \in Seq(VersionRecords) /\ Len(versions') = Len(versions)
      /\ \A w \in 1..Len(versions) :
              /\ versions'[w].key = versions[w].key
              /\ versions'[w].xmin = versions[w].xmin
              /\ w # v => versions'[w].xmax = versions[w].xmax
      /\ versions'[v].xmax = t
  <2> DEFINE new == [versions[v] EXCEPT !.xmax = t]
  <2>1. versions[v] \in VersionRecords /\ versions' = [versions EXCEPT ![v] = new]
    BY <1>1
  <2>2. /\ new \in VersionRecords /\ new.xmax = t
        /\ new.key = versions[v].key /\ new.xmin = versions[v].xmin
    BY <2>1, Zenon DEF VersionRecords
  <2> HIDE DEF new
  <2>3. /\ versions' \in Seq(VersionRecords) /\ Len(versions') = Len(versions)
        /\ versions'[v] = new
        /\ \A w \in 1..Len(versions) : w # v => versions'[w] = versions[w]
    BY <1>1, <2>1, <2>2
  <2> QED BY <2>2, <2>3, Zenon
<1>3. UNCHANGED <<next_txn_id, active_txn_ids, transactions, lock_table, txn_locks, held,
                  live, live_at_start>>
  BY Zenon DEF Stamped, txnVars, lockVars
<1> QED BY <1>1, <1>2, <1>3, Zenon DEF VersionIds
-----------------------------------------------------------------------------
(* The invariant holds at first and is kept by every step. *)

\* Before the first Begin there is nothing.
LEMMA InitEstablishes == Init => IInv
<1> SUFFICES ASSUME Init PROVE IInv
  BY Zenon
<1>1. TxnTypeOK
  BY TransactionManagerAssumption DEF Init, TxnInit, TxnTypeOK, NoTransaction
<1>2. LockTypeOK
  BY Zenon DEF Init, LockInit, LockTypeOK, NoLock, NotReleasing
<1>3. TypeOK
  BY <1>1, <1>2, Ids DEF Init, TypeOK
<1>4. VersionIds = {} /\ \A t \in Txns : ~Began(t) /\ ~IsCommitted(t) /\ ~IsActive(t)
  BY DEF Init, VersionIds, TxnInit, NoTransaction, Began, IsCommitted, IsActive
<1>5. IdsInOrder
  BY <1>4, TransactionManagerAssumption DEF Init, TxnInit, IdsInOrder
<1>6. StampsOfWriters /\ StampIsLastDeleter /\ StampIsLocked
  BY <1>4, Zenon DEF Init, StampsOfWriters, StampIsLastDeleter, StampIsLocked
<1>7. LiveIsCommitted
  BY <1>4, Zenon DEF Init, LiveIsCommitted, LeftBy
<1>8. OlderReplaced /\ PendingReplaces /\ OneLivePerRow
  BY <1>4, Zenon DEF Init, OlderReplaced, PendingReplaces, OneLivePerRow
<1> QED BY <1>3, <1>5, <1>6, <1>7, <1>8, Zenon DEF IInv

\* Committed work leaves one version of each row: an older one was replaced by
\* a transaction that has committed.
LEMMA LiveHasOnePerRow ==
  ASSUME IInv
  PROVE  \A v, w \in live : versions[v].key = versions[w].key => v = w
<1>1. SUFFICES ASSUME NEW v \in live, NEW w \in live,
                      versions[v].key = versions[w].key, v < w
               PROVE  FALSE
  BY VersionTypes DEF IInv, LiveIsCommitted, LeftBy
<1>2. /\ v \in VersionIds /\ w \in VersionIds
      /\ IsCommitted(versions[v].xmin) /\ IsCommitted(versions[w].xmin)
      /\ \A u \in Txns : IsCommitted(u) => v \notin superseded[u]
  BY Zenon DEF IInv, LiveIsCommitted, LeftBy
<1>3. Replaced(v, versions[w].xmin)
  BY <1>1, <1>2, Zenon DEF IInv, OlderReplaced, IsCommitted, IsAborted
<1>4. /\ versions[v].xmax \in Txns /\ IsCommitted(versions[v].xmax)
      /\ v \in superseded[versions[v].xmax]
  BY <1>2, <1>3, VersionTypes, Zenon DEF IInv, Replaced, StampIsLastDeleter
<1> QED BY <1>2, <1>4, Zenon

\* Begin: what is committed is what the snapshot of the new transaction takes
\* for committed.
LEMMA BeginPreserves ==
  ASSUME IInv, NEW t \in Txns, ClientBegin(t)
  PROVE  IInv'
<1>1. /\ ~Began(t) /\ \A u \in Txns : Began(u) => u < t
      /\ t = next_txn_id /\ next_txn_id' = t + 1
      /\ transactions'[t].state = "active"
      /\ transactions'[t].active_at_start = {u \in Txns : IsActive(u)}
      /\ \A u \in Txns : u # t => transactions'[u] = transactions[u]
      /\ TxnTypeOK'
      /\ UNCHANGED <<lock_table, txn_locks, held, versions, pending, live, superseded>>
      /\ live_at_start' = [live_at_start EXCEPT ![t] = live]
  BY BeginFacts, Zenon
<1>2. TypeOK /\ VersionIds' = VersionIds
  BY <1>1, Zenon DEF IInv, VersionIds
<1>3. TypeOK'
  BY <1>1, <1>2, Zenon DEF TypeOK, LockTypeOK
<1>4. \A u \in Txns :
        /\ IsCommitted(u)' <=> IsCommitted(u)
        /\ IsAborted(u)' <=> IsAborted(u)
        /\ IsActive(u)' <=> IsActive(u) \/ u = t
        /\ Began(u)' <=> Began(u) \/ u = t
        /\ Writer(u) => Writer(u)'
  BY <1>1, Zenon DEF IsCommitted, IsAborted, IsActive, Began, Writer
<1>5. /\ \A v \in VersionIds : versions[v].xmin \in Txns /\ versions[v].xmin # t
                               /\ versions[v].xmax # t
      /\ superseded[t] = {}
  BY <1>1, <1>2, VersionTypes, Ids, Zenon DEF IInv, StampsOfWriters, Writer
<1>6. IdsInOrder'
  <2>1. \A u \in Txns : Began(u)' <=> u < next_txn_id'
    BY <1>1, <1>4, Ids DEF IInv, IdsInOrder
  <2>2. ASSUME NEW u \in Txns, NEW x \in Txns, Began(u)', x < u,
               x \notin transactions'[u].active_at_start
        PROVE  IsCommitted(x)' \/ IsAborted(x)'
    <3>1. CASE u = t
      <4>1. Began(x)' /\ x # t
        BY <1>1, <2>1, <2>2, <3>1, Ids
      <4>2. Began(x) /\ ~IsActive(x)
        BY <1>1, <1>4, <2>2, <3>1, <4>1, Zenon
      <4>3. IsCommitted(x) \/ IsAborted(x)
        BY <4>2, <1>2, Zenon DEF TypeOK, TxnTypeOK, Began, IsActive, IsCommitted, IsAborted
      <4> QED BY <4>3, <1>4, Zenon
    <3>2. CASE u # t
      BY <1>1, <1>4, <2>2, <3>2, Zenon DEF IInv, IdsInOrder
    <3> QED BY <3>1, <3>2, Zenon
  <2> QED BY <2>1, <2>2, Zenon DEF IdsInOrder
<1>7. StampsOfWriters'
  BY <1>1, <1>2, <1>4, VersionTypes, Zenon DEF IInv, StampsOfWriters
<1>8. StampIsLastDeleter'
  BY <1>1, <1>2, <1>4, VersionTypes, Zenon DEF IInv, StampIsLastDeleter
<1>9. StampIsLocked'
  BY <1>1, <1>2, <1>4, <1>5, Zenon DEF IInv, StampIsLocked
<1>10. LiveIsCommitted'
  <2>1. {u \in Txns : IsCommitted(u)}' = {u \in Txns : IsCommitted(u)}
    BY <1>4, Zenon
  <2>2. live' = LeftBy({u \in Txns : IsCommitted(u)})'
    BY <1>1, <1>2, <2>1, Zenon DEF IInv, LiveIsCommitted, LeftBy
  <2>3. ASSUME NEW u \in Txns, Began(u)' PROVE live_at_start'[u] = LeftBy(CommittedBefore(u))'
    <3>1. CASE u = t
      <4>1. CommittedBefore(t)' = {x \in Txns : IsCommitted(x)}
        BY <1>1, <1>4, Zenon DEF CommittedBefore, IsCommitted, IsActive, Began
      <4>2. live_at_start'[t] = live
        BY <1>1, <1>2, Zenon DEF TypeOK
      <4> QED BY <1>1, <1>2, <3>1, <4>1, <4>2, Zenon DEF IInv, LiveIsCommitted, LeftBy
    <3>2. CASE u # t
      <4>1. CommittedBefore(u)' = CommittedBefore(u)
        BY <1>1, <1>4, <3>2, Zenon DEF CommittedBefore
      <4>2. live_at_start'[u] = live_at_start[u] /\ Began(u)
        BY <1>1, <1>2, <1>4, <2>3, <3>2, Zenon DEF TypeOK
      <4> QED BY <1>1, <1>2, <4>1, <4>2 DEF IInv, LiveIsCommitted, LeftBy
    <3> QED BY <3>1, <3>2, Zenon
  <2> QED BY <2>2, <2>3, Zenon DEF LiveIsCommitted
<1>11. OlderReplaced' /\ PendingReplaces'
  BY <1>1, <1>2, <1>4, VersionTypes DEF IInv, OlderReplaced, PendingReplaces, Replaced
<1>12. OneLivePerRow'
  <2>1. \A u \in Txns : live_at_start'[u] = IF u = t THEN live ELSE live_at_start[u]
    BY <1>1, <1>2, Zenon DEF TypeOK
  <2> QED BY <1>1, <1>4, <2>1, LiveHasOnePerRow DEF IInv, OneLivePerRow
<1> QED BY <1>3, <1>6, <1>7, <1>8, <1>9, <1>10, <1>11, <1>12, Zenon DEF IInv
\* The end of a transaction changes no snapshot: who was active when one was
\* taken, or began later, counts as running in it for good.
LEMMA EndKeepsSnapshots ==
  ASSUME IInv, NEW t \in Txns, NEW outcome \in {"committed", "aborted"}, End(t, outcome)
  PROVE  /\ \A u \in Txns :
              /\ Began(u)' <=> Began(u)
              /\ Writer(u)' <=> Writer(u)
              /\ IsActive(u)' <=> IsActive(u) /\ u # t
              /\ IsCommitted(u)' <=> IsCommitted(u) \/ (u = t /\ outcome = "committed")
              /\ IsAborted(u)' <=> IsAborted(u) \/ (u = t /\ outcome = "aborted")
         /\ \A u \in Txns : Began(u) => CommittedBefore(u)' = CommittedBefore(u)
         /\ IdsInOrder'
<1>1. /\ IsActive(t)
      /\ transactions'[t].state = outcome
      /\ \A u \in Txns :
           /\ transactions'[u].level = transactions[u].level
           /\ transactions'[u].active_at_start = transactions[u].active_at_start
           /\ u # t => transactions'[u].state = transactions[u].state
      /\ next_txn_id' = next_txn_id
  BY EndFacts, Zenon
<1>2. \A u \in Txns :
        /\ Began(u)' <=> Began(u)
        /\ Writer(u)' <=> Writer(u)
        /\ IsActive(u)' <=> IsActive(u) /\ u # t
        /\ IsCommitted(u)' <=> IsCommitted(u) \/ (u = t /\ outcome = "committed")
        /\ IsAborted(u)' <=> IsAborted(u) \/ (u = t /\ outcome = "aborted")
  BY <1>1, Zenon DEF Began, Writer, IsActive, IsCommitted, IsAborted
<1>3. \A u \in Txns : Began(u) /\ t < u => t \in transactions[u].active_at_start
  BY <1>1, Zenon DEF IInv, IdsInOrder, IsActive, IsCommitted, IsAborted
<1>4. \A u \in Txns : Began(u) => CommittedBefore(u)' = CommittedBefore(u)
  BY <1>1, <1>2, <1>3, Zenon DEF CommittedBefore
<1>5. IdsInOrder'
  BY <1>1, <1>2, Zenon DEF IInv, IdsInOrder
<1> QED BY <1>2, <1>4, <1>5, Zenon

\* Commit: what the transaction has inserted and not deleted again is live now,
\* what it has deleted is not.
LEMMA CommitPreserves ==
  ASSUME IInv, NEW t \in Txns, ClientCommit(t)
  PROVE  IInv'
<1>1. /\ End(t, "committed") /\ pending[t] = NoKey
      /\ live' = (live \ superseded[t])
                 \cup {v \in VersionIds \ superseded[t] : versions[v].xmin = t}
      /\ UNCHANGED <<lock_table, txn_locks, held, versions, pending, superseded, live_at_start>>
  BY Zenon DEF ClientCommit, Commit, lockVars, mvccVars
<1>2. TypeOK /\ VersionIds' = VersionIds /\ VersionIds \subseteq Rids
  BY <1>1, VersionTypes, Zenon DEF IInv, VersionIds
<1>3. TypeOK'
  <2>1. TxnTypeOK'
    BY <1>1, EndFacts, Zenon
  <2>2. live' \subseteq Rids
    BY <1>1, <1>2, Zenon DEF TypeOK
  <2> QED BY <1>1, <1>2, <2>1, <2>2, Zenon DEF TypeOK, LockTypeOK
<1>4. /\ \A u \in Txns :
           /\ Began(u)' <=> Began(u)
           /\ Writer(u)' <=> Writer(u)
           /\ IsActive(u)' <=> IsActive(u) /\ u # t
           /\ IsCommitted(u)' <=> IsCommitted(u) \/ u = t
           /\ IsAborted(u)' <=> IsAborted(u)
      /\ \A u \in Txns : Began(u) => CommittedBefore(u)' = CommittedBefore(u)
      /\ IdsInOrder'
  <2>1. IsActive(t)
    BY <1>1, EndFacts, Zenon
  <2> QED BY <1>1, <2>1, EndKeepsSnapshots, Zenon
<1>5. StampsOfWriters'
  BY <1>1, <1>2, <1>4, VersionTypes, Zenon DEF IInv, StampsOfWriters
<1>6. StampIsLastDeleter'
  BY <1>1, <1>2, <1>4, VersionTypes, Zenon DEF IInv, StampIsLastDeleter
<1>7. StampIsLocked'
  BY <1>1, <1>2, <1>4, Zenon DEF IInv, StampIsLocked
<1>8. LiveIsCommitted'
  <2>1. live = {v \in VersionIds : /\ IsCommitted(versions[v].xmin)
                                   /\ \A u \in Txns : IsCommitted(u) => v \notin superseded[u]}
    BY VersionTypes, <1>2, Zenon DEF IInv, LiveIsCommitted, LeftBy
  <2>2. LeftBy({u \in Txns : IsCommitted(u)})'
          = {v \in VersionIds : /\ IsCommitted(versions[v].xmin) \/ versions[v].xmin = t
                                /\ \A u \in Txns : IsCommitted(u) \/ u = t => v \notin superseded[u]}
    BY <1>1, <1>2, <1>4, VersionTypes, Zenon DEF LeftBy
  <2>3. ASSUME NEW v \in VersionIds, versions[v].xmin = t, v \notin superseded[t], NEW u \in Txns,
               IsCommitted(u)
        PROVE  v \notin superseded[u]
    BY <2>3, EndFacts, <1>1, Zenon DEF IInv, StampIsLastDeleter, IsActive, IsCommitted
  <2>4. live' = LeftBy({u \in Txns : IsCommitted(u)})'
    BY <1>1, <2>1, <2>2, <2>3, Zenon
  <2>5. ASSUME NEW u \in Txns, Began(u)' PROVE live_at_start'[u] = LeftBy(CommittedBefore(u))'
    <3>1. Began(u) /\ CommittedBefore(u)' = CommittedBefore(u)
      BY <1>4, <2>5, Zenon
    <3> QED BY <1>1, <1>2, <3>1 DEF IInv, LiveIsCommitted, LeftBy
  <2> QED BY <2>4, <2>5, Zenon DEF LiveIsCommitted
<1>9. OlderReplaced' /\ PendingReplaces'
  BY <1>1, <1>2, <1>4, VersionTypes DEF IInv, OlderReplaced, PendingReplaces, Replaced
<1>10. OneLivePerRow'
  BY <1>1, <1>4, Zenon DEF IInv, OneLivePerRow
<1> QED BY <1>3, <1>4, <1>5, <1>6, <1>7, <1>8, <1>9, <1>10, Zenon DEF IInv

\* Abort: what the transaction inserted is dead, what it deleted may be deleted
\* again by another.
LEMMA AbortPreserves ==
  ASSUME IInv, NEW t \in Txns, ClientAbort(t)
  PROVE  IInv'
<1>1. /\ End(t, "aborted")
      /\ pending' = [pending EXCEPT ![t] = NoKey]
      /\ UNCHANGED <<lock_table, txn_locks, held, versions, live, superseded, live_at_start>>
  BY Zenon DEF ClientAbort, Abort, lockVars, historyVars
<1>2. TypeOK /\ VersionIds' = VersionIds
  BY <1>1, Zenon DEF IInv, VersionIds
<1>3. /\ pending' \in [Txns -> Keys \cup {NoKey}] /\ pending'[t] = NoKey
      /\ \A u \in Txns : u # t => pending'[u] = pending[u]
  BY <1>1, <1>2, Zenon DEF TypeOK
<1>4. TypeOK'
  <2>1. TxnTypeOK'
    BY <1>1, EndFacts, Zenon
  <2> QED BY <1>1, <1>2, <1>3, <2>1, Zenon DEF TypeOK, LockTypeOK
<1>5. /\ \A u \in Txns :
           /\ Began(u)' <=> Began(u)
           /\ Writer(u)' <=> Writer(u)
           /\ IsActive(u)' <=> IsActive(u) /\ u # t
           /\ IsCommitted(u)' <=> IsCommitted(u)
           /\ IsAborted(u)' <=> IsAborted(u) \/ u = t
      /\ \A u \in Txns : Began(u) => CommittedBefore(u)' = CommittedBefore(u)
      /\ IdsInOrder'
  <2>1. IsActive(t)
    BY <1>1, EndFacts, Zenon
  <2> QED BY <1>1, <2>1, EndKeepsSnapshots, Zenon
<1>6. ~IsCommitted(t)
  BY <1>1, EndFacts, Zenon DEF IsActive, IsCommitted
<1>7. StampsOfWriters'
  BY <1>1, <1>2, <1>3, <1>5, VersionTypes, Zenon DEF IInv, StampsOfWriters
<1>8. StampIsLastDeleter'
  BY <1>1, <1>2, <1>5, VersionTypes, Zenon DEF IInv, StampIsLastDeleter
<1>9. StampIsLocked'
  BY <1>1, <1>2, <1>5, Zenon DEF IInv, StampIsLocked
<1>10. LiveIsCommitted'
  <2>1. {u \in Txns : IsCommitted(u)}' = {u \in Txns : IsCommitted(u)}
    BY <1>5, Zenon
  <2>2. live' = LeftBy({u \in Txns : IsCommitted(u)})'
    BY <1>1, <1>2, <2>1, Zenon DEF IInv, LiveIsCommitted, LeftBy
  <2>3. ASSUME NEW u \in Txns, Began(u)' PROVE live_at_start'[u] = LeftBy(CommittedBefore(u))'
    <3>1. Began(u) /\ CommittedBefore(u)' = CommittedBefore(u)
      BY <1>5, <2>3, Zenon
    <3> QED BY <1>1, <1>2, <3>1 DEF IInv, LiveIsCommitted, LeftBy
  <2> QED BY <2>2, <2>3, Zenon DEF LiveIsCommitted
<1>11. OlderReplaced'
  BY <1>1, <1>2, <1>5, <1>6, VersionTypes, Zenon DEF IInv, OlderReplaced, Replaced
<1>12. PendingReplaces'
  BY <1>1, <1>2, <1>3, <1>5, VersionTypes DEF IInv, PendingReplaces, Replaced
<1>13. OneLivePerRow'
  BY <1>1, <1>5, Zenon DEF IInv, OneLivePerRow
<1> QED BY <1>4, <1>5, <1>7, <1>8, <1>9, <1>10, <1>11, <1>12, <1>13, Zenon DEF IInv
\* A version is inserted for a row of which t has replaced, or found replaced,
\* every version that is not undone, and on which nobody else works.
LEMMA InsertPreserves ==
  ASSUME IInv, NEW t \in Txns, NEW k \in Keys,
         IsActive(t), Writer(t), Inserted(t, k),
         \A v \in VersionIds :
           versions[v].key = k /\ ~IsAborted(versions[v].xmin) => Replaced(v, t),
         \A u \in Txns : u # t /\ pending[u] # NoKey => pending[u] # k,
         pending' = [pending EXCEPT ![t] = NoKey],
         UNCHANGED <<txnVars, lockVars, historyVars>>
  PROVE  IInv'
<1> DEFINE n == Len(versions) + 1
<1>1. TypeOK /\ UNCHANGED <<next_txn_id, active_txn_ids, transactions, lock_table, txn_locks, held,
                            live, superseded, live_at_start>>
  BY Zenon DEF IInv, txnVars, lockVars, historyVars
<1>2. /\ n \in Rids /\ n \notin VersionIds
      /\ VersionIds' = VersionIds \cup {n}
      /\ \A v \in VersionIds : v < n /\ versions'[v] = versions[v]
      /\ versions'[n].key = k /\ versions'[n].xmin = t
      /\ versions'[n].xmax = kInvalidTxnId
      /\ versions' \in Seq(VersionRecords) /\ Len(versions') <= MaxVersions
  BY <1>1, InsertedFacts, Zenon
<1> HIDE DEF n
<1>3. /\ pending' \in [Txns -> Keys \cup {NoKey}] /\ pending'[t] = NoKey
      /\ \A u \in Txns : u # t => pending'[u] = pending[u]
  BY <1>1, Zenon DEF TypeOK
<1>4. TypeOK'
  BY <1>1, <1>2, <1>3, Zenon DEF TypeOK, TxnTypeOK, LockTypeOK, VersionRecords
<1>5. \A u \in Txns :
        /\ Began(u)' <=> Began(u)
        /\ Writer(u)' <=> Writer(u)
        /\ IsActive(u)' <=> IsActive(u)
        /\ IsCommitted(u)' <=> IsCommitted(u)
        /\ IsAborted(u)' <=> IsAborted(u)
        /\ CommittedBefore(u)' = CommittedBefore(u)
  BY <1>1, Zenon DEF Began, Writer, IsActive, IsCommitted, IsAborted, CommittedBefore
<1>6. IdsInOrder'
  BY <1>1, <1>5, Zenon DEF IInv, IdsInOrder
<1>7. StampsOfWriters'
  BY <1>1, <1>2, <1>3, <1>5, VersionTypes DEF IInv, StampsOfWriters
<1>8. StampIsLastDeleter'
  BY <1>1, <1>2, <1>5, VersionTypes DEF IInv, StampIsLastDeleter
<1>9. StampIsLocked'
  BY <1>1, <1>2, <1>5, Ids DEF IInv, StampIsLocked
<1>10. LiveIsCommitted'
  <2>1. ASSUME NEW C \in SUBSET Txns, t \notin C PROVE LeftBy(C)' = LeftBy(C)
    BY <1>1, <1>2, <2>1, Zenon DEF LeftBy
  <2>2. /\ {u \in Txns : IsCommitted(u)}' = {u \in Txns : IsCommitted(u)}
        /\ t \notin {u \in Txns : IsCommitted(u)}
        /\ \A u \in Txns : CommittedBefore(u) \in SUBSET Txns /\ t \notin CommittedBefore(u)
    BY <1>5, Zenon DEF CommittedBefore, IsActive, IsCommitted
  <2>3. live' = LeftBy({u \in Txns : IsCommitted(u)})'
    <3>1. LeftBy({u \in Txns : IsCommitted(u)})' = LeftBy({u \in Txns : IsCommitted(u)})
      BY <1>1, <1>2, <2>2, Zenon DEF LeftBy
    <3> QED BY <1>1, <3>1, Zenon DEF IInv, LiveIsCommitted
  <2>4. ASSUME NEW u \in Txns, Began(u)' PROVE live_at_start'[u] = LeftBy(CommittedBefore(u))'
    <3>1. LeftBy(CommittedBefore(u))' = LeftBy(CommittedBefore(u))
      BY <1>1, <1>2, <1>5, <2>2, Zenon DEF LeftBy
    <3> QED BY <1>1, <1>5, <2>4, <3>1, Zenon DEF IInv, LiveIsCommitted
  <2> QED BY <2>3, <2>4, Zenon DEF LiveIsCommitted
<1>11. OlderReplaced'
  <2> SUFFICES ASSUME NEW v \in VersionIds', NEW w \in VersionIds', v < w,
                      versions'[v].key = versions'[w].key,
                      ~IsAborted(versions[v].xmin)', ~IsAborted(versions[w].xmin)'
               PROVE  Replaced(v, versions[w].xmin)'
    BY Zenon DEF OlderReplaced
  <2>1. v \in VersionIds
    BY <1>1, <1>2, VersionTypes, Ids
  <2>2. CASE w \in VersionIds
    BY <1>1, <1>2, <1>5, <2>1, <2>2, VersionTypes DEF IInv, OlderReplaced, Replaced
  <2>3. CASE w = n
    BY <1>1, <1>2, <1>5, <2>1, <2>3, VersionTypes, Zenon DEF Replaced
  <2> QED BY <1>2, <2>2, <2>3, Zenon
<1>12. PendingReplaces'
  <2> SUFFICES ASSUME NEW u \in Txns, pending'[u] # NoKey
               PROVE  /\ \E v \in VersionIds' : versions'[v].key = pending'[u] /\ versions'[v].xmax = u
                      /\ \A v \in VersionIds' :
                           versions'[v].key = pending'[u] /\ ~IsAborted(versions[v].xmin)'
                             => Replaced(v, u)'
    BY Zenon DEF PendingReplaces
  <2>1. u # t /\ pending'[u] = pending[u] /\ pending[u] # k
    BY <1>3, Zenon
  <2>2. \E v \in VersionIds' : versions'[v].key = pending'[u] /\ versions'[v].xmax = u
    BY <1>2, <2>1 DEF IInv, PendingReplaces
  <2>3. ASSUME NEW v \in VersionIds', versions'[v].key = pending'[u], ~IsAborted(versions[v].xmin)'
        PROVE  Replaced(v, u)'
    BY <1>1, <1>2, <1>5, <2>1, <2>3, VersionTypes DEF IInv, PendingReplaces, Replaced
  <2> QED BY <2>2, <2>3, Zenon
<1>13. OneLivePerRow'
  <2>1. \A u \in Txns : Began(u) => live_at_start[u] \subseteq VersionIds
    BY Zenon DEF IInv, LiveIsCommitted, LeftBy
  <2> QED BY <1>1, <1>2, <1>5, <2>1 DEF IInv, OneLivePerRow
<1> QED BY <1>4, <1>6, <1>7, <1>8, <1>9, <1>10, <1>11, <1>12, <1>13, Zenon DEF IInv

\* InsertVersion: the row is new.
LEMMA InsertVersionPreserves ==
  ASSUME IInv, ReadCommittedWriters, NEW t \in Txns, NEW k \in Keys, InsertVersion(t, k)
  PROVE  IInv'
<1>1. /\ IsActive(t) /\ transactions[t].level \in WriterLevels /\ pending[t] = NoKey
      /\ \A v \in VersionIds : versions[v].key # k
      /\ Inserted(t, k)
      /\ UNCHANGED <<txnVars, lockVars, pending, historyVars>>
  BY Zenon DEF InsertVersion, MayWrite
<1>2. Writer(t)
  BY <1>1, Zenon DEF ReadCommittedWriters, Writer, Began, IsActive
<1>3. pending' = [pending EXCEPT ![t] = NoKey]
  BY <1>1, Zenon DEF IInv, TypeOK
<1>4. \A u \in Txns : u # t /\ pending[u] # NoKey => pending[u] # k
  BY <1>1 DEF IInv, PendingReplaces
<1> QED BY <1>1, <1>2, <1>3, <1>4, InsertPreserves, Zenon

\* UpdateVersion, its second half: only t works on the row, for the version it
\* has deleted carries its stamp alone.
LEMMA UpdateVersionInsertPreserves ==
  ASSUME IInv, ReadCommittedWriters, NEW t \in Txns, UpdateVersionInsert(t)
  PROVE  IInv'
<1> DEFINE k == pending[t]
<1>1. /\ k # NoKey /\ k \in Keys
      /\ Inserted(t, k)
      /\ pending' = [pending EXCEPT ![t] = NoKey]
      /\ UNCHANGED <<txnVars, lockVars, historyVars>>
  BY Zenon DEF UpdateVersionInsert, IInv, TypeOK
<1>2. PICK v \in VersionIds : versions[v].key = k /\ versions[v].xmax = t
  BY <1>1, Zenon DEF IInv, PendingReplaces
<1>3. IsActive(t) /\ Writer(t)
  BY <1>1, <1>2, Ids, Zenon DEF IInv, StampsOfWriters
<1>4. ~IsAborted(versions[v].xmin)
  BY <1>2, <1>3, Ids, Zenon DEF IInv, StampIsLastDeleter, IsActive, IsCommitted, IsAborted
<1>5. ASSUME NEW u \in Txns, u # t, pending[u] # NoKey PROVE pending[u] # k
  BY <1>2, <1>3, <1>4, <1>5 DEF IInv, PendingReplaces, Replaced, IsActive, IsCommitted
<1>6. \A w \in VersionIds : versions[w].key = k /\ ~IsAborted(versions[w].xmin) => Replaced(w, t)
  BY <1>1, Zenon DEF IInv, PendingReplaces
<1> QED BY <1>1, <1>3, <1>5, <1>6, InsertPreserves, Zenon
\* A version that t sees, and has locked, bears the stamp of nobody or of a
\* transaction that has aborted, and no newer version of its row is alive.
LEMMA SeenIsNewest ==
  ASSUME IInv, NEW t \in Txns, NEW v \in VersionIds,
         IsActive(t), Writer(t), lock_table[v].exclusive = t, IsVisible(versions[v], t)
  PROVE  /\ versions[v].xmax # kInvalidTxnId => IsAborted(versions[v].xmax)
         /\ versions[v].xmin = t \/ IsCommitted(versions[v].xmin)
         /\ \A w \in VersionIds :
              v < w /\ versions[w].key = versions[v].key => IsAborted(versions[w].xmin)
<1>1. /\ versions[v].xmin \in Txns /\ versions[v].xmax \in Txns \cup {kInvalidTxnId}
      /\ \A w \in VersionIds : versions[w].xmin \in Txns
  BY VersionTypes, Zenon DEF IInv
<1>2. /\ versions[v].xmin = t \/ IsCommitted(versions[v].xmin)
      /\ versions[v].xmax # t
      /\ versions[v].xmax # kInvalidTxnId => ~IsCommitted(versions[v].xmax)
  BY Zenon DEF IsVisible, CommittedAndVisibleTo, Writer
<1>3. versions[v].xmax # kInvalidTxnId => IsAborted(versions[v].xmax)
  <2>1. ASSUME versions[v].xmax # kInvalidTxnId
        PROVE  Began(versions[v].xmax) /\ ~IsActive(versions[v].xmax)
    BY <1>1, <1>2, <2>1, Zenon DEF IInv, StampsOfWriters, StampIsLocked, Writer
  <2> QED BY <1>1, <1>2, <2>1, Zenon
             DEF IInv, TypeOK, TxnTypeOK, Began, IsActive, IsCommitted, IsAborted
<1>4. ~IsAborted(versions[v].xmin)
  BY <1>2, Zenon DEF IsActive, IsCommitted, IsAborted
<1>5. ASSUME NEW w \in VersionIds, v < w, versions[w].key = versions[v].key,
             ~IsAborted(versions[w].xmin)
      PROVE  FALSE
  <2>1. Replaced(v, versions[w].xmin)
    BY <1>4, <1>5, Zenon DEF IInv, OlderReplaced
  <2> QED BY <1>2, <1>3, <1>5, <2>1, Zenon DEF Replaced
<1> QED BY <1>2, <1>3, <1>5, Zenon

\* DeleteVersion, and the first half of UpdateVersion.
LEMMA StampPreserves ==
  ASSUME IInv, ReadCommittedWriters, NEW t \in Txns, NEW v \in VersionIds, Stamped(t, v),
         NEW k \in {NoKey, versions[v].key}, pending' = [pending EXCEPT ![t] = k]
  PROVE  IInv'
<1>1. /\ TypeOK
      /\ IsActive(t) /\ transactions[t].level \in WriterLevels /\ pending[t] = NoKey
      /\ lock_table[v].exclusive = t /\ IsVisible(versions[v], t)
  BY Zenon DEF IInv, Stamped, MayWrite
<1>2. Writer(t)
  BY <1>1, Zenon DEF ReadCommittedWriters, Writer, Began, IsActive
<1>3. /\ VersionIds' = VersionIds
      /\ \A w \in VersionIds :
           /\ versions'[w].key = versions[w].key
           /\ versions'[w].xmin = versions[w].xmin
           /\ w # v => versions'[w].xmax = versions[w].xmax
      /\ versions'[v].xmax = t
      /\ versions' \in Seq(VersionRecords) /\ Len(versions') <= MaxVersions
      /\ superseded' \in [Txns -> SUBSET Rids]
      /\ superseded'[t] = superseded[t] \cup {v}
      /\ \A u \in Txns : u # t => superseded'[u] = superseded[u]
      /\ UNCHANGED <<next_txn_id, active_txn_ids, transactions, lock_table, txn_locks, held,
                     live, live_at_start>>
  BY <1>1, StampedFacts, Zenon
<1>4. /\ \A w \in VersionIds : /\ w \in Nat /\ versions[w].key \in Keys
                               /\ versions[w].xmin \in Txns
                               /\ versions[w].xmax \in Txns \cup {kInvalidTxnId}
      /\ kInvalidTxnId \notin Txns
  BY <1>1, VersionTypes, Ids
<1>5. /\ pending' \in [Txns -> Keys \cup {NoKey}] /\ pending'[t] = k
      /\ \A u \in Txns : u # t => pending'[u] = pending[u]
  BY <1>1, <1>4, Zenon DEF TypeOK
<1>6. TypeOK'
  BY <1>1, <1>3, <1>5, Zenon DEF TypeOK, TxnTypeOK, LockTypeOK, VersionRecords
<1>7. \A u \in Txns :
        /\ Began(u)' <=> Began(u)
        /\ Writer(u)' <=> Writer(u)
        /\ IsActive(u)' <=> IsActive(u)
        /\ IsCommitted(u)' <=> IsCommitted(u)
        /\ IsAborted(u)' <=> IsAborted(u)
        /\ CommittedBefore(u)' = CommittedBefore(u)
  BY <1>3, Zenon DEF Began, Writer, IsActive, IsCommitted, IsAborted, CommittedBefore
<1>8. /\ versions[v].xmax # kInvalidTxnId => IsAborted(versions[v].xmax)
      /\ versions[v].xmin = t \/ IsCommitted(versions[v].xmin)
      /\ \A w \in VersionIds :
           v < w /\ versions[w].key = versions[v].key => IsAborted(versions[w].xmin)
  BY <1>1, <1>2, SeenIsNewest, Zenon
<1>9. IdsInOrder'
  BY <1>3, <1>7, Zenon DEF IInv, IdsInOrder
<1>10. StampsOfWriters'
  BY <1>1, <1>2, <1>3, <1>4, <1>5, <1>7 DEF IInv, StampsOfWriters
<1>11. StampIsLastDeleter'
  <2>1. ASSUME NEW w \in VersionIds', versions'[w].xmax # kInvalidTxnId
        PROVE  w \in superseded'[versions'[w].xmax]
    BY <1>3, <1>4, <2>1 DEF IInv, StampIsLastDeleter
  <2>2. ASSUME NEW u \in Txns, NEW w \in superseded'[u]
        PROVE  /\ w \in VersionIds'
               /\ ~IsAborted(u) => versions'[w].xmax = u
               /\ versions'[w].xmin = u \/ IsCommitted(versions[w].xmin)
    <3>1. CASE u = t /\ w = v
      BY <1>3, <1>8, <3>1, Zenon
    <3>2. CASE u # t \/ w # v
      <4>1. w \in superseded[u]
        BY <1>3, <2>2, <3>2, Zenon
      <4>2. /\ w \in VersionIds
            /\ ~IsAborted(u) => versions[w].xmax = u
            /\ versions[w].xmin = u \/ IsCommitted(versions[w].xmin)
        BY <4>1, Zenon DEF IInv, StampIsLastDeleter
      <4>3. w = v => u # t /\ IsAborted(u)
        BY <1>4, <1>8, <3>2, <4>2, Zenon
      <4> QED BY <1>3, <4>2, <4>3, Zenon
    <3> QED BY <3>1, <3>2, Zenon
  <2>3. ASSUME NEW u \in Txns, NEW w \in superseded'[u]
        PROVE  /\ w \in VersionIds'
               /\ ~IsAborted(u)' => versions'[w].xmax = u
               /\ versions'[w].xmin = u \/ IsCommitted(versions[w].xmin)'
    BY <1>3, <1>4, <1>7, <2>2, Zenon
  <2> QED BY <2>1, <2>3, Zenon DEF StampIsLastDeleter
<1>12. StampIsLocked'
  BY <1>1, <1>3, <1>7 DEF IInv, StampIsLocked
<1>13. LiveIsCommitted'
  <2>1. /\ {u \in Txns : IsCommitted(u)}' = {u \in Txns : IsCommitted(u)}
        /\ t \notin {u \in Txns : IsCommitted(u)}
        /\ \A u \in Txns : CommittedBefore(u) \in SUBSET Txns /\ t \notin CommittedBefore(u)
    BY <1>1, <1>7, Zenon DEF CommittedBefore, IsActive, IsCommitted
  <2>2. LeftBy({u \in Txns : IsCommitted(u)})' = LeftBy({u \in Txns : IsCommitted(u)})
    BY <1>3, <2>1, Zenon DEF LeftBy
  <2>3. ASSUME NEW u \in Txns PROVE LeftBy(CommittedBefore(u))' = LeftBy(CommittedBefore(u))
    <3>1. CommittedBefore(u)' = CommittedBefore(u) /\ t \notin CommittedBefore(u)
          /\ CommittedBefore(u) \subseteq Txns
      BY <1>7, <2>1, Zenon
    <3> QED BY <1>3, <3>1, Zenon DEF LeftBy
  <2> QED BY <1>3, <1>7, <2>2, <2>3, Zenon DEF IInv, LiveIsCommitted
<1>14. OlderReplaced'
  <2> SUFFICES ASSUME NEW x \in VersionIds', NEW w \in VersionIds', x < w,
                      versions'[x].key = versions'[w].key,
                      ~IsAborted(versions[x].xmin)', ~IsAborted(versions[w].xmin)'
               PROVE  Replaced(x, versions[w].xmin)'
    BY Zenon DEF OlderReplaced
  <2>1. /\ x \in VersionIds /\ w \in VersionIds /\ versions[x].key = versions[w].key
        /\ ~IsAborted(versions[x].xmin) /\ ~IsAborted(versions[w].xmin)
    BY <1>3, <1>4, <1>7, Zenon
  <2>2. x # v
    BY <1>8, <2>1, Zenon
  <2>3. Replaced(x, versions[w].xmin)
    BY <2>1, Zenon DEF IInv, OlderReplaced
  <2> QED BY <1>3, <1>4, <1>7, <2>1, <2>2, <2>3, Zenon DEF Replaced
<1>15. PendingReplaces'
  <2>1. ASSUME NEW u \in Txns, u # t, pending[u] # NoKey
        PROVE  /\ pending[u] # versions[v].key
               /\ \E w \in VersionIds' : versions'[w].key = pending[u] /\ versions'[w].xmax = u
               /\ \A w \in VersionIds' :
                    versions'[w].key = pending[u] /\ ~IsAborted(versions[w].xmin)' => Replaced(w, u)'
    <3>1. pending[u] # versions[v].key
      <4>1. IsActive(u) /\ ~IsAborted(versions[v].xmin)
        BY <1>1, <1>8, <2>1, Zenon DEF IInv, StampsOfWriters, IsActive, IsCommitted, IsAborted
      <4> QED BY <1>8, <2>1, <4>1, Zenon
                 DEF IInv, PendingReplaces, Replaced, IsActive, IsCommitted, IsAborted
    <3>2. \E w \in VersionIds' : versions'[w].key = pending[u] /\ versions'[w].xmax = u
      BY <1>3, <2>1, <3>1 DEF IInv, PendingReplaces
    <3>3. ASSUME NEW w \in VersionIds', versions'[w].key = pending[u], ~IsAborted(versions[w].xmin)'
          PROVE  Replaced(w, u)'
      <4>1. w \in VersionIds /\ w # v /\ versions[w].key = pending[u] /\ ~IsAborted(versions[w].xmin)
        BY <1>3, <1>4, <1>7, <3>1, <3>3, Zenon
      <4>2. Replaced(w, u)
        BY <2>1, <4>1, Zenon DEF IInv, PendingReplaces
      <4> QED BY <1>3, <1>4, <1>7, <4>1, <4>2, Zenon DEF Replaced
    <3> QED BY <3>1, <3>2, <3>3, Zenon
  <2>2. ASSUME k = versions[v].key
        PROVE  /\ \E w \in VersionIds' : versions'[w].key = k /\ versions'[w].xmax = t
               /\ \A w \in VersionIds' :
                    versions'[w].key = k /\ ~IsAborted(versions[w].xmin)' => Replaced(w, t)'
    <3>1. \E w \in VersionIds' : versions'[w].key = k /\ versions'[w].xmax = t
      BY <1>3, <2>2, Zenon
    <3>2. ASSUME NEW w \in VersionIds, versions[w].key = k, ~IsAborted(versions[w].xmin), w # v
          PROVE  Replaced(w, t)
      <4>1. w < v
        BY <1>4, <1>8, <2>2, <3>2
      <4>2. ~IsAborted(versions[v].xmin)
        BY <1>1, <1>8, Zenon DEF IsActive, IsCommitted, IsAborted
      <4>3. Replaced(w, versions[v].xmin)
        BY <2>2, <3>2, <4>1, <4>2, Zenon DEF IInv, OlderReplaced
      <4> QED BY <1>8, <4>3, Zenon DEF Replaced
    <3>3. ASSUME NEW w \in VersionIds', versions'[w].key = k, ~IsAborted(versions[w].xmin)'
          PROVE  Replaced(w, t)'
      <4>1. w \in VersionIds /\ versions[w].key = k /\ ~IsAborted(versions[w].xmin)
        BY <1>3, <1>4, <1>7, <3>3, Zenon
      <4>2. CASE w = v
        BY <1>3, <1>4, <4>2, Zenon DEF Replaced
      <4>3. CASE w # v
        BY <1>3, <1>4, <1>7, <3>2, <4>1, <4>3, Zenon DEF Replaced
      <4> QED BY <4>2, <4>3, Zenon
    <3> QED BY <3>1, <3>3, Zenon
  <2> QED BY <1>5, <2>1, <2>2 DEF PendingReplaces
<1>16. OneLivePerRow'
  <2>1. \A u \in Txns : Began(u) => live_at_start[u] \subseteq VersionIds
    BY Zenon DEF IInv, LiveIsCommitted, LeftBy
  <2>2. ASSUME NEW u \in Txns, Began(u)', NEW x \in live_at_start'[u], NEW w \in live_at_start'[u],
               versions'[x].key = versions'[w].key
        PROVE  x = w
    <3>1. /\ Began(u) /\ x \in live_at_start[u] /\ w \in live_at_start[u]
          /\ versions[x].key = versions[w].key
      BY <1>3, <1>7, <2>1, <2>2, Zenon
    <3> QED BY <3>1, Zenon DEF IInv, OneLivePerRow
  <2> QED BY <2>2, Zenon DEF OneLivePerRow
<1> QED BY <1>6, <1>9, <1>10, <1>11, <1>12, <1>13, <1>14, <1>15, <1>16, Zenon DEF IInv

\* Locking and releasing: as long as nobody loses a lock before it has ended.
LEMMA LocksChangePreserves ==
  ASSUME IInv, LockTypeOK', UNCHANGED <<txnVars, mvccVars, historyVars>>,
         \A v \in VersionIds, u \in Txns :
           IsActive(u) /\ lock_table[v].exclusive = u => lock_table'[v].exclusive = u
  PROVE  IInv'
<1>1. UNCHANGED <<next_txn_id, active_txn_ids, transactions, versions, pending, live,
                  superseded, live_at_start>>
  BY Zenon DEF txnVars, mvccVars, historyVars
<1>2. TypeOK'
  BY <1>1, Zenon DEF IInv, TypeOK, TxnTypeOK
<1>3. StampIsLocked'
  BY <1>1, Zenon DEF IInv, StampIsLocked, VersionIds, IsActive
<1>4. /\ IdsInOrder' /\ StampsOfWriters' /\ StampIsLastDeleter'
      /\ OlderReplaced' /\ PendingReplaces' /\ OneLivePerRow'
  <2>1. IdsInOrder'
    BY <1>1, Zenon DEF IInv, IdsInOrder, Began, IsCommitted, IsAborted
  <2>2. StampsOfWriters'
    BY <1>1, Zenon DEF IInv, StampsOfWriters, VersionIds, Writer, Began, IsActive
  <2>3. StampIsLastDeleter'
    BY <1>1, Zenon DEF IInv, StampIsLastDeleter, VersionIds, IsCommitted, IsAborted
  <2>4. OlderReplaced'
    BY <1>1, Zenon DEF IInv, OlderReplaced, Replaced, VersionIds, IsCommitted, IsAborted
  <2>5. PendingReplaces'
    BY <1>1, Zenon DEF IInv, PendingReplaces, Replaced, VersionIds, IsCommitted, IsAborted
  <2>6. OneLivePerRow'
    BY <1>1, Zenon DEF IInv, OneLivePerRow, Began
  <2> QED BY <2>1, <2>2, <2>3, <2>4, <2>5, <2>6, Zenon
<1>5. LiveIsCommitted'
  BY <1>1, Zenon DEF IInv, LiveIsCommitted, LeftBy, CommittedBefore, VersionIds, Began, IsCommitted
<1> QED BY <1>2, <1>3, <1>4, <1>5, Zenon DEF IInv

\* LockExclusive takes a row that nobody else has.
LEMMA LockVersionPreserves ==
  ASSUME IInv, NEW t \in Txns, NEW v \in VersionIds, LockVersion(t, v)
  PROVE  IInv'
<1>1. LockTypeOK /\ v \in Rids /\ VersionIds \subseteq Rids
  BY VersionTypes, Zenon DEF IInv, TypeOK
<1>2. LockTypeOK'
  BY <1>1, Zenon DEF LockVersion, LockExclusive, LockTypeOK
<1>3. \A w \in VersionIds, u \in Txns :
        IsActive(u) /\ lock_table[w].exclusive = u => lock_table'[w].exclusive = u
  BY <1>1, Ids, Zenon DEF LockVersion, LockExclusive, MayLockExclusive, HeldByOther, LockTypeOK
<1> QED BY <1>2, <1>3, LocksChangePreserves, Zenon DEF LockVersion

\* ReleaseAll is called once the transaction has ended.
LEMMA ReleasePreserves ==
  ASSUME IInv, NEW t \in Txns, ClientRelease(t)
  PROVE  IInv'
<1>1. LockTypeOK /\ VersionIds \subseteq Rids
  BY VersionTypes, Zenon DEF IInv, TypeOK
<1>2. ~IsActive(t)
  BY Zenon DEF ClientRelease, IsActive
<1>3. CASE ReleaseCopy(t)
  <2>1. LockTypeOK'
    BY <1>1, <1>3, Zenon DEF ReleaseCopy, LockTypeOK
  <2> QED BY <1>3, <2>1, LocksChangePreserves, Zenon DEF ClientRelease, ReleaseCopy
<1>4. CASE ReleaseErase(t)
  <2>1. LockTypeOK'
    BY <1>1, <1>4, Zenon DEF ReleaseErase, LockTypeOK
  <2> QED BY <1>4, <2>1, LocksChangePreserves, Zenon DEF ClientRelease, ReleaseErase
<1>5. ASSUME NEW r \in Rids, ReleaseRow(t, r) PROVE IInv'
  <2>1. /\ lock_table' = [lock_table EXCEPT ![r] = Unlocked(lock_table[r], t)]
        /\ txn_locks' = [txn_locks EXCEPT ![t] = txn_locks[t] \ {r}]
        /\ held' = [held EXCEPT ![t] = Copy(held[t].rids \ {r})]
    BY <1>5, Zenon DEF ReleaseRow, GiveBack
  <2>2. /\ Unlocked(lock_table[r], t) \in [shared : SUBSET Txns, exclusive : Txns \cup {kInvalidTxnId}]
        /\ \A u \in Txns :
             u # t /\ lock_table[r].exclusive = u => Unlocked(lock_table[r], t).exclusive = u
    BY <1>1, Zenon DEF Unlocked, LockTypeOK
  <2>3. held[t].rids \ {r} \subseteq Rids
    BY <1>1 DEF LockTypeOK, NotReleasing, Copy
  <2>4. LockTypeOK'
    <3>1. lock_table' \in [Rids -> [shared : SUBSET Txns, exclusive : Txns \cup {kInvalidTxnId}]]
      BY <1>1, <2>1, <2>2, Zenon DEF LockTypeOK
    <3>2. txn_locks' \in [Txns -> SUBSET Rids]
      BY <1>1, <2>1, Zenon DEF LockTypeOK
    <3>3. held' \in [Txns -> {NotReleasing} \cup {Copy(S) : S \in SUBSET Rids}]
      BY <1>1, <2>1, <2>3, Zenon DEF LockTypeOK
    <3> QED BY <3>1, <3>2, <3>3, Zenon DEF LockTypeOK
  <2>5. \A w \in VersionIds, u \in Txns :
          IsActive(u) /\ lock_table[w].exclusive = u => lock_table'[w].exclusive = u
    BY <1>1, <1>2, <2>1, <2>2, Zenon DEF LockTypeOK
  <2> QED BY <2>4, <2>5, LocksChangePreserves, Zenon DEF ClientRelease
<1> QED BY <1>3, <1>4, <1>5, Zenon DEF ClientRelease

\* Every step keeps the invariant.
LEMMA NextPreserves ==
  ASSUME IInv, ReadCommittedWriters, [Next]_vars
  PROVE  IInv'
<1>1. ASSUME NEW t \in Txns, NEW v \in VersionIds, DeleteVersion(t, v) PROVE IInv'
  <2>1. Stamped(t, v) /\ pending[t] = NoKey /\ pending' = [pending EXCEPT ![t] = NoKey]
    BY <1>1, Zenon DEF DeleteVersion, Stamped, MayWrite, IInv, TypeOK
  <2> QED BY <2>1, StampPreserves, Zenon
<1>2. ASSUME NEW t \in Txns, NEW v \in VersionIds, UpdateVersionDelete(t, v) PROVE IInv'
  BY <1>2, StampPreserves, Zenon DEF UpdateVersionDelete
<1>3. CASE UNCHANGED vars
  <2>1. UNCHANGED <<txnVars, mvccVars, historyVars, lock_table, txn_locks, held>>
    BY <1>3, Zenon DEF vars, lockVars
  <2>2. LockTypeOK'
    BY <2>1, Zenon DEF IInv, TypeOK, LockTypeOK
  <2> QED BY <2>1, <2>2, LocksChangePreserves, Zenon
<1> QED
  BY <1>1, <1>2, <1>3, BeginPreserves, CommitPreserves, AbortPreserves, ReleasePreserves,
     InsertVersionPreserves, LockVersionPreserves, UpdateVersionInsertPreserves, Zenon DEF Next
-----------------------------------------------------------------------------
(* What the readers see. *)

\* A reader whose snapshot is fixed has written nothing and sees what the
\* transactions that had committed when it began have left.
LEMMA SnapshotReader ==
  ASSUME IInv, NEW t \in Txns, IsActive(t), transactions[t].level # "ReadCommitted"
  PROVE  Snapshot(t) = live_at_start[t] /\ ScanVisible(t) \subseteq Snapshot(t)
<1> DEFINE C == CommittedBefore(t)
<1>1. /\ superseded[t] = {}
      /\ \A v \in VersionIds : versions[v].xmin # t /\ versions[v].xmax # t
  BY Ids, VersionTypes, Zenon DEF IInv, StampsOfWriters, Writer
<1>2. Began(t) /\ live_at_start[t] = LeftBy(C)
  BY Zenon DEF IInv, LiveIsCommitted, IsActive, Began
<1>3. \A u \in Txns : CommittedAndVisibleTo(u, t) <=> u \in C
  BY Ids, Zenon DEF CommittedAndVisibleTo, CommittedBefore
<1>4. ASSUME NEW v \in VersionIds
      PROVE  /\ versions[v].xmin \in Txns /\ versions[v].xmax \in Txns \cup {kInvalidTxnId}
             /\ versions[v].xmax # kInvalidTxnId => v \in superseded[versions[v].xmax]
             /\ \A u \in C : v \in superseded[u] => versions[v].xmax = u
  BY VersionTypes, Zenon
  DEF IInv, StampIsLastDeleter, CommittedBefore, IsCommitted, IsAborted
<1>5. \A v \in VersionIds : IsVisible(versions[v], t) <=> v \in LeftBy(C)
  <2>1. C \subseteq Txns
    BY Zenon DEF CommittedBefore
  <2> HIDE DEF C
  <2>2. SUFFICES ASSUME NEW v \in VersionIds PROVE IsVisible(versions[v], t) <=> v \in LeftBy(C)
    BY Zenon
  <2>3. v \in LeftBy(C) <=> versions[v].xmin \in C /\ versions[v].xmax \notin C
    BY <1>4, <2>1, Ids, Zenon DEF LeftBy
  <2> QED BY <1>1, <1>3, <1>4, <2>1, <2>3, Ids, Zenon DEF IsVisible
<1> QED BY <1>1, <1>2, <1>5, Zenon DEF Snapshot, ScanVisible, LeftBy

\* A read-committed reader sees what the committed transactions have left.
LEMMA CommittedReader ==
  ASSUME IInv, NEW t \in Txns, IsActive(t), transactions[t].level = "ReadCommitted"
  PROVE  Snapshot(t) = live
<1> DEFINE C == {u \in Txns : IsCommitted(u)}
<1>1. live = LeftBy(C) /\ t \notin C /\ ~IsAborted(t)
  BY Zenon DEF IInv, LiveIsCommitted, IsActive, IsCommitted, IsAborted
<1>2. \A u \in Txns : CommittedAndVisibleTo(u, t) <=> u \in C
  BY Ids, Zenon DEF CommittedAndVisibleTo
<1>3. ASSUME NEW v \in VersionIds
      PROVE  /\ versions[v].xmin \in Txns /\ versions[v].xmax \in Txns \cup {kInvalidTxnId}
             /\ versions[v].xmax # kInvalidTxnId => v \in superseded[versions[v].xmax]
             /\ \A u \in C : v \in superseded[u] => versions[v].xmax = u
             /\ v \in superseded[t] =>
                  versions[v].xmax = t /\ (versions[v].xmin = t \/ versions[v].xmin \in C)
  BY <1>1, VersionTypes, Zenon
  DEF IInv, StampIsLastDeleter, IsCommitted, IsAborted
<1> HIDE DEF C
<1>4. ASSUME NEW v \in VersionIds
      PROVE  v \in Snapshot(t) <=> v \in LeftBy(C)
  <2>1. v \in LeftBy(C) <=> versions[v].xmin \in C /\ versions[v].xmax \notin C
    BY <1>3, Ids, Zenon DEF LeftBy, C
  <2>2. v \in Snapshot(t) <=> versions[v].xmin \in C /\ versions[v].xmax \notin C
    BY <1>1, <1>2, <1>3, Ids, Zenon DEF Snapshot, ScanVisible, IsVisible, C
  <2> QED BY <2>1, <2>2, Zenon
<1> QED BY <1>1, <1>4, Zenon DEF Snapshot, LeftBy

\* No reader sees a version that another version it sees has replaced.
LEMMA ReaderSeesOne ==
  ASSUME IInv, NEW t \in Txns, IsActive(t)
  PROVE  \A v, w \in ScanVisible(t) : versions[v].key = versions[w].key => v = w
<1>1. CASE transactions[t].level # "ReadCommitted"
  BY <1>1, SnapshotReader DEF IInv, OneLivePerRow, IsActive, Began
<1>2. CASE transactions[t].level = "ReadCommitted"
  <2> SUFFICES ASSUME NEW v \in VersionIds, NEW w \in VersionIds,
                      IsVisible(versions[v], t), IsVisible(versions[w], t),
                      versions[v].key = versions[w].key, v < w
               PROVE  FALSE
    BY VersionTypes DEF ScanVisible, IInv
  <2>1. ASSUME NEW x \in {v, w}
        PROVE  versions[x].xmin = t \/ IsCommitted(versions[x].xmin)
    BY Zenon DEF IsVisible, CommittedAndVisibleTo
  <2>2. ~IsAborted(versions[v].xmin) /\ ~IsAborted(versions[w].xmin)
    BY <2>1, Zenon DEF IsActive, IsCommitted, IsAborted
  <2>3. Replaced(v, versions[w].xmin)
    BY <2>2, Zenon DEF IInv, OlderReplaced
  <2> QED BY <1>2, <2>1, <2>3, Zenon DEF Replaced, IsVisible, CommittedAndVisibleTo
<1> QED BY <1>1, <1>2, Zenon

\* The invariant of all reachable states.
LEMMA MVCCInvariant ==
  ASSUME ReadCommittedWriters PROVE Spec => []IInv
<1>1. Init => IInv
  BY InitEstablishes, Zenon
<1>2. IInv /\ [Next]_vars => IInv'
  BY NextPreserves, Zenon
<1> QED BY <1>1, <1>2, PTL DEF Spec

\* As long as a snapshot-isolation transaction runs, it sees exactly what was
\* committed when it began (mvcc.cpp, IsVisible with the snapshot Begin took),
\* however many read-committed writers update, delete, commit and abort.
THEOREM SnapshotsAreStable ==
  ASSUME ReadCommittedWriters PROVE Spec => []SnapshotIsStartState
<1>1. IInv => SnapshotIsStartState
  BY SnapshotReader, Zenon DEF SnapshotIsStartState
<1> QED BY <1>1, MVCCInvariant, PTL

\* A read-committed transaction sees exactly the committed state and its own
\* changes: the one xmax stamp a version has is enough, although DeleteVersion
\* overwrites it.
THEOREM ReadCommittedReadsLive ==
  ASSUME ReadCommittedWriters PROVE Spec => []ReadCommittedSeesLive
<1>1. IInv => ReadCommittedSeesLive
  BY CommittedReader, Zenon DEF ReadCommittedSeesLive
<1> QED BY <1>1, MVCCInvariant, PTL

\* ScanVisible never hands out two versions of one row, although UpdateVersion
\* stamps the old one and inserts the new one in two steps.
THEOREM ScanShowsOneVersion ==
  ASSUME ReadCommittedWriters PROVE Spec => []OneVersionPerRow
<1>1. IInv => OneVersionPerRow
  BY ReaderSeesOne, Zenon DEF OneVersionPerRow
<1> QED BY <1>1, MVCCInvariant, PTL
=============================================================================
