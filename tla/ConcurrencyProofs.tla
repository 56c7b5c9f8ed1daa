-------------------------- MODULE ConcurrencyProofs --------------------------
(***************************************************************************)
(* Locking (lock_manager.cpp), for any number of transactions and rows,    *)
(* and the threads of the server.                                          *)
(*                                                                         *)
(* The lock table keeps its promises in any order of calls.  LockInv is    *)
(* inductive as it stands: that the two tables agree is what makes the     *)
(* copy of ReleaseAll complete.                                            *)
(*                                                                         *)
(* Strict two-phase locking over this table is serializable.  The          *)
(* invariant of the table is strengthened by: who has accessed a row has   *)
(* begun (Begun), and holds the lock for it as long as it is active        *)
(* (AccessesStayLocked).                                                   *)
(*                                                                         *)
(* DetectDeadlock answers right.  The invariant of the search is that the  *)
(* stack is a path, that a neighbour looked at is black or the next on the *)
(* path, and that black nodes reach only black nodes and contain no cycle. *)
(*                                                                         *)
(* The threads of the server (tcp_server.cpp), for any number of clients:  *)
(* whoever is between lock and unlock is the one exec_mutex names, and a   *)
(* connection has an owner that Stop waits for.                            *)
(***************************************************************************)
EXTENDS TwoPhaseLocking, DeadlockDetector, TCPServer, TLAPS

(* The lock table. *)

LockInv == LockTypeOK /\ ExclusiveExcludes /\ TablesAgree

\* Before the first call nothing is locked.
LEMMA LockInitEstablishes == LockInit => LockInv
  BY TransactionAssumption
  DEF LockInit, LockInv, LockTypeOK, ExclusiveExcludes, TablesAgree, Holds, NoLock, NotReleasing

\* LockShared keeps the tables in order.
LEMMA LockSharedPreserves ==
  ASSUME LockInv, NEW t \in Txns, NEW r \in Rids, LockShared(t, r)
  PROVE  LockInv'
<1>1. LockTypeOK'
  BY Zenon DEF LockInv, LockTypeOK, LockShared
<1>2. ExclusiveExcludes'
  BY DEF LockInv, LockTypeOK, ExclusiveExcludes, LockShared, MayLockShared, HeldByOther
<1>3. TablesAgree'
  BY DEF LockInv, LockTypeOK, TablesAgree, Holds, LockShared
<1> QED BY <1>1, <1>2, <1>3, Zenon DEF LockInv

\* LockExclusive keeps the tables in order: the entry it overwrites holds no
\* lock but the caller's own.
LEMMA LockExclusivePreserves ==
  ASSUME LockInv, NEW t \in Txns, NEW r \in Rids, LockExclusive(t, r)
  PROVE  LockInv'
<1>1. LockTypeOK'
  BY Zenon DEF LockInv, LockTypeOK, LockExclusive
<1>2. ExclusiveExcludes'
  BY Zenon DEF LockInv, LockTypeOK, ExclusiveExcludes, LockExclusive
<1>3. TablesAgree'
  BY TransactionAssumption
  DEF LockInv, LockTypeOK, TablesAgree, Holds, LockExclusive, MayLockExclusive, HeldByOther
<1> QED BY <1>1, <1>2, <1>3, Zenon DEF LockInv

\* What Unlock does to one row changes nothing for other transactions or rows.
LEMMA GiveBackFacts ==
  ASSUME LockTypeOK, NEW t \in Txns, NEW r \in Rids, GiveBack(t, r)
  PROVE  /\ lock_table' \in [Rids -> [shared : SUBSET Txns, exclusive : Txns \cup {kInvalidTxnId}]]
         /\ txn_locks' \in [Txns -> SUBSET Rids]
         /\ ~Holds(t, r)'
         /\ txn_locks'[t] = txn_locks[t] \ {r}
         /\ \A u \in Txns \ {t} : txn_locks'[u] = txn_locks[u]
         /\ \A u \in Txns, q \in Rids : u # t \/ q # r => (Holds(u, q)' <=> Holds(u, q))
         /\ ExclusiveExcludes => ExclusiveExcludes'
<1>1. lock_table' = [lock_table EXCEPT ![r] = Unlocked(lock_table[r], t)]
  BY Zenon DEF GiveBack
<1>2. Unlocked(lock_table[r], t) \in [shared : SUBSET Txns, exclusive : Txns \cup {kInvalidTxnId}]
  BY Zenon DEF LockTypeOK, Unlocked
<1>3. lock_table' \in [Rids -> [shared : SUBSET Txns, exclusive : Txns \cup {kInvalidTxnId}]]
  BY <1>1, <1>2, Zenon DEF LockTypeOK
<1>4. /\ txn_locks' \in [Txns -> SUBSET Rids]
      /\ txn_locks'[t] = txn_locks[t] \ {r}
      /\ \A u \in Txns \ {t} : txn_locks'[u] = txn_locks[u]
  BY Zenon DEF GiveBack, LockTypeOK
<1>5. /\ ~Holds(t, r)'
      /\ \A u \in Txns, q \in Rids : u # t \/ q # r => (Holds(u, q)' <=> Holds(u, q))
  BY <1>1, TransactionAssumption DEF LockTypeOK, Holds, Unlocked
<1>6. ExclusiveExcludes => ExclusiveExcludes'
  BY <1>1, TransactionAssumption, Zenon DEF LockTypeOK, ExclusiveExcludes, Unlocked
<1> QED BY <1>3, <1>4, <1>5, <1>6, Zenon

\* Unlock keeps the tables in order.
LEMMA UnlockPreserves ==
  ASSUME LockInv, NEW t \in Txns, NEW r \in Rids, Unlock(t, r)
  PROVE  LockInv'
<1>1. LockTypeOK /\ GiveBack(t, r) /\ held' = held /\ ~held[t].running
  BY Zenon DEF LockInv, Unlock
<1>2. LockTypeOK'
  BY <1>1, GiveBackFacts, Zenon DEF LockTypeOK
<1>3. ExclusiveExcludes'
  BY <1>1, GiveBackFacts, Zenon DEF LockInv
<1>4. TablesAgree'
  BY <1>1, GiveBackFacts DEF LockInv, TablesAgree, LockTypeOK
<1> QED BY <1>2, <1>3, <1>4, Zenon DEF LockInv

\* The first step of ReleaseAll takes a complete copy.
LEMMA ReleaseCopyPreserves ==
  ASSUME LockInv, NEW t \in Txns, ReleaseCopy(t)
  PROVE  LockInv'
<1>1. LockTypeOK'
  BY Zenon DEF LockInv, LockTypeOK, ReleaseCopy
<1>2. ExclusiveExcludes'
  BY Zenon DEF LockInv, ExclusiveExcludes, ReleaseCopy
<1>3. TablesAgree'
  <2>1. /\ lock_table' = lock_table /\ txn_locks' = txn_locks
        /\ held'[t] = Copy(txn_locks[t])
        /\ \A u \in Txns \ {t} : held'[u] = held[u]
    BY Zenon DEF LockInv, LockTypeOK, ReleaseCopy
  <2>2. held'[t].rids = txn_locks'[t]
    BY <2>1 DEF Copy
  <2> QED BY <2>1, <2>2, Zenon DEF LockInv, TablesAgree, Holds
<1> QED BY <1>1, <1>2, <1>3, Zenon DEF LockInv

\* Each Unlock of ReleaseAll takes the row out of the table and of the copy.
LEMMA ReleaseRowPreserves ==
  ASSUME LockInv, NEW t \in Txns, NEW r \in Rids, ReleaseRow(t, r)
  PROVE  LockInv'
<1>1. /\ LockTypeOK /\ GiveBack(t, r)
      /\ held[t].running
      /\ held' = [held EXCEPT ![t] = Copy(held[t].rids \ {r})]
  BY Zenon DEF LockInv, ReleaseRow
<1>2. PICK S \in SUBSET Rids : held[t] = Copy(S)
  BY <1>1 DEF LockTypeOK, NotReleasing
<1>3. held' = [held EXCEPT ![t] = Copy(S \ {r})]
  BY <1>1, <1>2 DEF LockTypeOK, Copy
<1>4. held' \in [Txns -> {NotReleasing} \cup {Copy(T) : T \in SUBSET Rids}]
  BY <1>1, <1>3, Zenon DEF LockTypeOK
<1>5. LockTypeOK'
  BY <1>1, <1>4, GiveBackFacts, Zenon DEF LockTypeOK
<1>6. ExclusiveExcludes'
  BY <1>1, GiveBackFacts, Zenon DEF LockInv
<1>7. /\ held'[t].rids = held[t].rids \ {r}
      /\ \A u \in Txns \ {t} : held'[u] = held[u]
  BY <1>2, <1>3 DEF LockTypeOK, LockInv, Copy
<1>8. TablesAgree'
  <2>1. ASSUME NEW u \in Txns PROVE \A q \in Rids : q \in txn_locks'[u] <=> Holds(u, q)'
    BY <1>1, GiveBackFacts DEF LockInv, TablesAgree
  <2>2. held'[t].rids = txn_locks'[t]
    BY <1>1, <1>7, GiveBackFacts, Zenon DEF LockInv, TablesAgree
  <2>3. ASSUME NEW u \in Txns, u # t, held'[u].running PROVE held'[u].rids = txn_locks'[u]
    BY <1>1, <1>7, <2>3, GiveBackFacts DEF LockInv, TablesAgree
  <2> QED BY <2>1, <2>2, <2>3, Zenon DEF TablesAgree
<1> QED BY <1>5, <1>6, <1>8, Zenon DEF LockInv

\* The last step of ReleaseAll erases an entry that is already empty.
LEMMA ReleaseErasePreserves ==
  ASSUME LockInv, NEW t \in Txns, ReleaseErase(t)
  PROVE  LockInv'
<1>1. txn_locks[t] = {}
  BY Zenon DEF LockInv, TablesAgree, ReleaseErase
<1>2. txn_locks' = txn_locks
  BY <1>1, Zenon DEF LockInv, LockTypeOK, ReleaseErase
<1>3. LockTypeOK'
  BY <1>2, Zenon DEF LockInv, LockTypeOK, ReleaseErase
<1>4. ExclusiveExcludes'
  BY Zenon DEF LockInv, ExclusiveExcludes, ReleaseErase
<1>5. TablesAgree'
  BY <1>2, Zenon DEF LockInv, LockTypeOK, TablesAgree, Holds, ReleaseErase, NotReleasing
<1> QED BY <1>3, <1>4, <1>5, Zenon DEF LockInv

\* Every call, and every step of ReleaseAll, keeps the tables in order.
LEMMA LockNextPreserves == LockInv /\ [LockNext]_lockVars => LockInv'
<1> SUFFICES ASSUME LockInv, [LockNext]_lockVars PROVE LockInv'
  BY Zenon
<1>1. CASE UNCHANGED lockVars
  BY <1>1, Zenon DEF lockVars, LockInv, LockTypeOK, ExclusiveExcludes, TablesAgree, Holds
<1>2. ASSUME NEW t \in Txns, NEW r \in Rids, LockStep(t, r) PROVE LockInv'
  BY <1>2, LockSharedPreserves, LockExclusivePreserves, UnlockPreserves, ReleaseRowPreserves, Zenon
  DEF LockStep
<1>3. ASSUME NEW t \in Txns, ReleaseCopy(t) \/ ReleaseErase(t) PROVE LockInv'
  BY <1>3, ReleaseCopyPreserves, ReleaseErasePreserves, Zenon
<1> QED BY <1>1, <1>2, <1>3, Zenon DEF LockNext

\* The lock table satisfies LockInv in every state it can reach.
THEOREM LockInvariance == LockSpec => []LockInv
<1> QED BY LockInitEstablishes, LockNextPreserves, PTL DEF LockSpec

\* An exclusive lock excludes every other lock on its row, whatever the calls.
THEOREM ExclusiveLocksExclude == LockSpec => []ExclusiveExcludes
<1>1. LockInv => ExclusiveExcludes
  BY Zenon DEF LockInv
<1> QED BY <1>1, LockInvariance, PTL

\* lock_table_ and txn_locks_ agree, and so ReleaseAll leaves no lock behind.
THEOREM LockTablesAgree == LockSpec => []TablesAgree
<1>1. LockInv => TablesAgree
  BY Zenon DEF LockInv
<1> QED BY <1>1, LockInvariance, PTL
-----------------------------------------------------------------------------
(* Strict two-phase locking. *)

\* Only transactions that have begun have read or written anything.
Begun ==
  \A t \in Txns, r \in Rids : t \in readers[r] \cup writers[r] => phase[t] # "new"

IInv == TypeOK /\ LockInv /\ Begun /\ AccessesStayLocked /\ SerializableInEndOrder

\* Initially nothing has been accessed.
LEMMA InitEstablishes == Init => IInv
<1> SUFFICES ASSUME Init PROVE IInv
  BY Zenon
<1>1. LockInv
  BY LockInitEstablishes, Zenon DEF Init
<1>2. TypeOK
  BY <1>1, Zenon DEF Init, TypeOK, LockInv
<1>3. Begun /\ AccessesStayLocked /\ SerializableInEndOrder
  BY Zenon DEF Init, Begun, AccessesStayLocked, SerializableInEndOrder
<1> QED BY <1>1, <1>2, <1>3, Zenon DEF IInv

\* Begin gives a transaction that has accessed nothing.
LEMMA BeginPreserves ==
  ASSUME IInv, NEW t \in Txns, ClientBegin(t)
  PROVE  IInv'
<1>1. UNCHANGED <<lock_table, txn_locks, held, readers, writers, before, earlier>>
  BY Zenon DEF ClientBegin, lockVars, historyVars
<1>2. LockInv'
  BY <1>1, Zenon DEF IInv, LockInv, LockTypeOK, ExclusiveExcludes, TablesAgree, Holds
<1>3. TypeOK'
  BY <1>1, <1>2, Zenon DEF IInv, TypeOK, LockInv, ClientBegin
<1>4. /\ phase'[t] = "active" /\ phase[t] = "new"
      /\ \A u \in Txns \ {t} : phase'[u] = phase[u]
  BY Zenon DEF IInv, TypeOK, ClientBegin
<1>5. Begun'
  BY <1>1, <1>4, Zenon DEF IInv, Begun
<1>6. AccessesStayLocked'
  BY <1>1, <1>4, Zenon DEF IInv, AccessesStayLocked, Begun, IsActive, Holds
<1>7. SerializableInEndOrder'
  BY <1>1, <1>4, Zenon DEF IInv, SerializableInEndOrder, HasEnded
<1> QED BY <1>2, <1>3, <1>5, <1>6, <1>7, Zenon DEF IInv

\* A lock that is granted takes no other active transaction's lock away.
LEMMA LockPreserves ==
  ASSUME IInv, NEW t \in Txns, NEW r \in Rids, ClientLock(t, r)
  PROVE  IInv'
<1>1. UNCHANGED <<phase, readers, writers, before, earlier>>
  BY Zenon DEF ClientLock, historyVars
<1>2. LockInv'
  BY LockSharedPreserves, LockExclusivePreserves, Zenon DEF IInv, ClientLock
<1>3. TypeOK'
  BY <1>1, <1>2, Zenon DEF IInv, TypeOK, LockInv
<1>4. Begun' /\ SerializableInEndOrder'
  BY <1>1, Zenon DEF IInv, Begun, SerializableInEndOrder, HasEnded
<1>5. ASSUME NEW u \in Txns, NEW q \in Rids
      PROVE  /\ Holds(u, q) => Holds(u, q)'
             /\ lock_table[q].exclusive = u => lock_table'[q].exclusive = u
  <2>1. CASE LockShared(t, r)
    BY <2>1, Zenon DEF IInv, LockInv, LockTypeOK, LockShared, Holds
  <2>2. CASE LockExclusive(t, r)
    BY <2>2, TransactionAssumption, Zenon
    DEF IInv, LockInv, LockTypeOK, LockExclusive, MayLockExclusive, HeldByOther, Holds
  <2> QED BY <2>1, <2>2, Zenon DEF ClientLock
<1>6. AccessesStayLocked'
  BY <1>1, <1>5, Zenon DEF IInv, AccessesStayLocked, IsActive
<1> QED BY <1>2, <1>3, <1>4, <1>6, Zenon DEF IInv

\* Who has written a row that t may read, or accessed a row that t may write,
\* has ended: it would still have the lock otherwise.
LEMMA ConflictsHaveEnded ==
  ASSUME IInv, NEW t \in Txns, NEW r \in Rids, NEW u \in Txns, u # t
  PROVE  /\ Holds(t, r) /\ u \in writers[r] => HasEnded(u)
         /\ lock_table[r].exclusive = t /\ u \in readers[r] \cup writers[r] => HasEnded(u)
<1>1. u \in readers[r] \cup writers[r] => phase[u] \in {"active", "ended"}
  BY Zenon DEF IInv, TypeOK, Begun
<1>2. lock_table[r].exclusive = u => ~Holds(t, r)
  BY TransactionAssumption, Zenon DEF IInv, LockInv, ExclusiveExcludes, Holds
<1>3. lock_table[r].exclusive = t => ~Holds(u, r)
  BY TransactionAssumption, Zenon DEF IInv, LockInv, ExclusiveExcludes, Holds
<1>4. phase[u] = "active" =>
        /\ u \in readers[r] => Holds(u, r)
        /\ u \in writers[r] => lock_table[r].exclusive = u
  BY Zenon DEF IInv, AccessesStayLocked, IsActive
<1>5. lock_table[r].exclusive = u => Holds(u, r)
  BY Zenon DEF Holds
<1> QED BY <1>1, <1>2, <1>3, <1>4, <1>5, Zenon DEF HasEnded

\* A read adds edges from transactions that have ended only.
LEMMA ReadPreserves ==
  ASSUME IInv, NEW t \in Txns, NEW r \in Rids, ClientRead(t, r)
  PROVE  IInv'
<1>1. UNCHANGED <<lock_table, txn_locks, held, phase, writers, earlier>>
  BY Zenon DEF ClientRead, lockVars
<1>2. LockInv'
  BY <1>1, Zenon DEF IInv, LockInv, LockTypeOK, ExclusiveExcludes, TablesAgree, Holds
<1>3. /\ readers' = [readers EXCEPT ![r] = readers[r] \cup {t}]
      /\ before' = before \cup ((writers[r] \ {t}) \X {t})
      /\ phase[t] = "active" /\ Holds(t, r)
  BY Zenon DEF ClientRead, IsActive
<1>4. TypeOK'
  BY <1>1, <1>2, <1>3, Zenon DEF IInv, TypeOK, LockInv
<1>5. Begun'
  BY <1>1, <1>3, Zenon DEF IInv, TypeOK, Begun
<1>6. AccessesStayLocked'
  BY <1>1, <1>3, Zenon DEF IInv, TypeOK, AccessesStayLocked, IsActive, Holds
<1>7. SerializableInEndOrder'
  <2> SUFFICES ASSUME NEW v \in Txns, NEW u \in Txns, <<v, u>> \in before'
               PROVE  /\ HasEnded(v)'
                      /\ HasEnded(u)' => v \in earlier'[u]
    BY Zenon DEF SerializableInEndOrder
  <2>1. CASE <<v, u>> \in before
    BY <1>1, <2>1, Zenon DEF IInv, SerializableInEndOrder, HasEnded
  <2>2. CASE u = t /\ v \in writers[r] \ {t}
    BY <1>1, <1>3, <2>2, ConflictsHaveEnded, Zenon DEF HasEnded
  <2> QED BY <1>3, <2>1, <2>2, Zenon
<1> QED BY <1>2, <1>4, <1>5, <1>6, <1>7, Zenon DEF IInv

\* So does a write.
LEMMA WritePreserves ==
  ASSUME IInv, NEW t \in Txns, NEW r \in Rids, ClientWrite(t, r)
  PROVE  IInv'
<1>1. UNCHANGED <<lock_table, txn_locks, held, phase, readers, earlier>>
  BY Zenon DEF ClientWrite, lockVars
<1>2. LockInv'
  BY <1>1, Zenon DEF IInv, LockInv, LockTypeOK, ExclusiveExcludes, TablesAgree, Holds
<1>3. /\ writers' = [writers EXCEPT ![r] = writers[r] \cup {t}]
      /\ before' = before \cup (((readers[r] \cup writers[r]) \ {t}) \X {t})
      /\ phase[t] = "active" /\ lock_table[r].exclusive = t
  BY Zenon DEF ClientWrite, IsActive
<1>4. TypeOK'
  BY <1>1, <1>2, <1>3 DEF IInv, TypeOK, LockInv
<1>5. Begun'
  BY <1>1, <1>3, Zenon DEF IInv, TypeOK, Begun
<1>6. AccessesStayLocked'
  BY <1>1, <1>3, Zenon DEF IInv, TypeOK, AccessesStayLocked, IsActive, Holds
<1>7. SerializableInEndOrder'
  <2> SUFFICES ASSUME NEW v \in Txns, NEW u \in Txns, <<v, u>> \in before'
               PROVE  /\ HasEnded(v)'
                      /\ HasEnded(u)' => v \in earlier'[u]
    BY Zenon DEF SerializableInEndOrder
  <2>1. CASE <<v, u>> \in before
    BY <1>1, <2>1, Zenon DEF IInv, SerializableInEndOrder, HasEnded
  <2>2. CASE u = t /\ v \in (readers[r] \cup writers[r]) \ {t}
    BY <1>1, <1>3, <2>2, ConflictsHaveEnded, Zenon DEF HasEnded
  <2> QED BY <1>3, <2>1, <2>2, Zenon
<1> QED BY <1>2, <1>4, <1>5, <1>6, <1>7, Zenon DEF IInv

\* A transaction that ends has all its predecessors behind it.
LEMMA EndPreserves ==
  ASSUME IInv, NEW t \in Txns, ClientEnd(t)
  PROVE  IInv'
<1>1. UNCHANGED <<lock_table, txn_locks, held, readers, writers, before>>
  BY Zenon DEF ClientEnd, lockVars
<1>2. LockInv'
  BY <1>1, Zenon DEF IInv, LockInv, LockTypeOK, ExclusiveExcludes, TablesAgree, Holds
<1>3. /\ phase[t] = "active" /\ phase'[t] = "ended"
      /\ \A u \in Txns \ {t} : phase'[u] = phase[u] /\ earlier'[u] = earlier[u]
      /\ earlier'[t] = {u \in Txns : HasEnded(u)}
  BY Zenon DEF IInv, TypeOK, ClientEnd, IsActive
<1>4. TypeOK'
  BY <1>1, <1>2, Zenon DEF IInv, TypeOK, LockInv, ClientEnd
<1>5. Begun'
  BY <1>1, <1>3, Zenon DEF IInv, Begun
<1>6. AccessesStayLocked'
  BY <1>1, <1>3, Zenon DEF IInv, AccessesStayLocked, IsActive, Holds
<1>7. SerializableInEndOrder'
  BY <1>1, <1>3, Zenon DEF IInv, SerializableInEndOrder, HasEnded
<1> QED BY <1>2, <1>4, <1>5, <1>6, <1>7, Zenon DEF IInv

\* ReleaseAll takes locks from a transaction that has ended only.
LEMMA ReleasePreserves ==
  ASSUME IInv, NEW t \in Txns, ClientRelease(t)
  PROVE  IInv'
<1>1. UNCHANGED <<phase, readers, writers, before, earlier>>
  BY Zenon DEF ClientRelease, historyVars
<1>2. LockInv'
  <2>1. txn_locks[t] \subseteq Rids
    BY Zenon DEF IInv, LockInv, LockTypeOK
  <2> QED
    BY <2>1, ReleaseCopyPreserves, ReleaseRowPreserves, ReleaseErasePreserves, UnlockPreserves, Zenon
    DEF IInv, ClientRelease
<1>3. TypeOK'
  BY <1>1, <1>2, Zenon DEF IInv, TypeOK, LockInv
<1>4. Begun' /\ SerializableInEndOrder'
  BY <1>1, Zenon DEF IInv, Begun, SerializableInEndOrder, HasEnded
<1>5. ASSUME NEW u \in Txns, u # t, NEW q \in Rids
      PROVE  /\ Holds(u, q) => Holds(u, q)'
             /\ lock_table[q].exclusive = u => lock_table'[q].exclusive = u
  <2>1. CASE lock_table' = lock_table
    BY <2>1, Zenon DEF Holds
  <2>2. ASSUME NEW r \in Rids, GiveBack(t, r)
        PROVE  /\ Holds(u, q) => Holds(u, q)'
               /\ lock_table[q].exclusive = u => lock_table'[q].exclusive = u
    BY <1>5, <2>2, Zenon DEF IInv, LockInv, LockTypeOK, GiveBack, Unlocked, Holds
  <2>3. txn_locks[t] \subseteq Rids
    BY Zenon DEF IInv, LockInv, LockTypeOK
  <2> QED BY <2>1, <2>2, <2>3, Zenon
             DEF ClientRelease, ReleaseCopy, ReleaseErase, ReleaseRow, Unlock
<1>6. AccessesStayLocked'
  BY <1>1, <1>5, Zenon DEF IInv, AccessesStayLocked, IsActive, ClientRelease, HasEnded
<1> QED BY <1>2, <1>3, <1>4, <1>6, Zenon DEF IInv

\* Every step of every transaction preserves the invariant.
LEMMA NextPreserves == IInv /\ [Next]_vars => IInv'
<1> SUFFICES ASSUME IInv, [Next]_vars PROVE IInv'
  BY Zenon
<1>1. CASE UNCHANGED vars
  BY <1>1 DEF vars, lockVars, historyVars, IInv, TypeOK, LockInv, LockTypeOK, ExclusiveExcludes,
              TablesAgree, Holds, Begun, AccessesStayLocked, SerializableInEndOrder, IsActive, HasEnded
<1>2. ASSUME NEW t \in Txns, ClientBegin(t) \/ ClientEnd(t) \/ ClientRelease(t) PROVE IInv'
  BY <1>2, BeginPreserves, EndPreserves, ReleasePreserves, Zenon
<1>3. ASSUME NEW t \in Txns, NEW r \in Rids,
             ClientLock(t, r) \/ ClientRead(t, r) \/ ClientWrite(t, r)
      PROVE  IInv'
  BY <1>3, LockPreserves, ReadPreserves, WritePreserves, Zenon
<1> QED BY <1>1, <1>2, <1>3, Zenon DEF Next

\* The invariant holds in every reachable state.
THEOREM Invariance == Spec => []IInv
<1> QED BY InitEstablishes, NextPreserves, PTL DEF Spec

\* Strict two-phase locking through this lock table is serializable in the
\* order in which transactions end.
THEOREM Serializable == Spec => []SerializableInEndOrder
<1>1. IInv => SerializableInEndOrder
  BY Zenon DEF IInv
<1> QED BY <1>1, Invariance, PTL

\* Whatever an active transaction has read or written stays locked for it.
THEOREM LocksAreKept == Spec => []AccessesStayLocked
<1>1. IInv => AccessesStayLocked
  BY Zenon DEF IInv
<1> QED BY <1>1, Invariance, PTL
-----------------------------------------------------------------------------
(* The deadlock detector. *)

\* The stack is a path of the graph that meets no node twice.
StackIsPath ==
  /\ \A i, j \in 1..Len(stack) : stack[i] = stack[j] => i = j
  /\ \A i \in 1..Len(stack) - 1 : stack[i + 1] \in edges[stack[i]]

\* A neighbour a call of visit has looked at is black, or is the one the next
\* call is visiting.
LookedAt ==
  \A i \in 1..Len(stack) :
    /\ todo[i] \subseteq edges[stack[i]]
    /\ \A m \in edges[stack[i]] \ todo[i] :
         color[m] = "black" \/ (i < Len(stack) /\ m = stack[i + 1])

\* From a black node only black nodes are reached, and no black nodes wait for
\* each other.
Black == {n \in Nodes : color[n] = "black"}
BlackIsDone ==
  /\ \A n \in Black : edges[n] \subseteq Black
  /\ \A S \in SUBSET Black : S # {} => \E n \in S : edges[n] \cap S = {}

\* A node that waits for somebody is a key of the graph, and the outer loop
\* passes over no key.
RootsRemain ==
  /\ \A n \in Nodes : edges[n] # {} /\ color[n] = "white" => n \in roots
  /\ result = "none" => stack = <<>> /\ roots = {}

IsCycle(s) ==
  /\ s # <<>>
  /\ IsInjective(s)
  /\ \A i \in 1..Len(s) : s[IF i = Len(s) THEN 1 ELSE i + 1] \in edges[s[i]]

DetectInv ==
  /\ DetectTypeOK
  /\ StackIsPath
  /\ LookedAt
  /\ BlackIsDone
  /\ RootsRemain
  /\ result = "deadlock" => IsCycle(cycle)

\* What it says of a node to be on the stack.
LEMMA OnStack ==
  ASSUME NEW s \in Seq(Nodes)
  PROVE  /\ \A n : n \in Range(s) <=> \E i \in 1..Len(s) : s[i] = n
         /\ Len(s) \in Nat /\ DOMAIN s = 1..Len(s)
         /\ \A i \in 1..Len(s) : s[i] \in Nodes
  BY DEF Range

\* The search begins with nothing seen.
LEMMA DetectInitEstablishes == DetectInit => DetectInv
<1> SUFFICES ASSUME DetectInit PROVE DetectInv
  BY Zenon
<1>1. /\ stack = <<>> /\ todo = <<>> /\ Len(stack) = 0 /\ Len(todo) = 0
      /\ result = "running" /\ cycle = <<>>
      /\ color = [n \in Nodes |-> "white"]
      /\ edges \in [Nodes -> SUBSET Nodes]
  BY Zenon DEF DetectInit
<1>2. PICK keys \in SUBSET Nodes : roots = keys /\ \A n \in Nodes \ keys : edges[n] = {}
  BY Zenon DEF DetectInit
<1>3. Range(stack) = {}
  BY <1>1 DEF Range
<1>4. DetectTypeOK
  BY <1>1, <1>2, <1>3 DEF DetectTypeOK
<1>5. Black = {}
  BY <1>1, Zenon DEF Black
<1>6. StackIsPath /\ LookedAt
  BY <1>1 DEF StackIsPath, LookedAt
<1> QED BY <1>1, <1>2, <1>4, <1>5, <1>6, Zenon DEF DetectInv, BlackIsDone, RootsRemain

\* A call of visit for a white node, from the outer loop or from the call on
\* top of the stack.
LEMMA EnterPreserves ==
  ASSUME DetectInv, result = "running", NEW n \in Nodes, color[n] = "white",
         NEW rest \in Seq(SUBSET Nodes), Len(rest) = Len(stack),
         \A i \in 1..Len(stack) : i < Len(stack) => rest[i] = todo[i],
         stack # <<>> => /\ n \in edges[Last(stack)]
                         /\ rest[Len(stack)] = todo[Len(stack)] \ {n},
         Enter(n), todo' = Append(rest, edges[n]), UNCHANGED <<edges, result, cycle>>,
         roots' \in {roots, roots \ {n}}
  PROVE  DetectInv'
<1> DEFINE k == Len(stack) + 1
<1>1. /\ DetectTypeOK /\ StackIsPath /\ LookedAt /\ BlackIsDone /\ RootsRemain
      /\ stack \in Seq(Nodes) /\ Len(stack) \in Nat
      /\ \A i \in 1..Len(stack) : stack[i] \in Nodes
      /\ edges \in [Nodes -> SUBSET Nodes]
      /\ color \in [Nodes -> {"white", "gray", "black"}]
  BY OnStack, Zenon DEF DetectInv, DetectTypeOK
<1>2. /\ stack' = Append(stack, n) /\ stack' \in Seq(Nodes) /\ Len(stack') = k
      /\ \A i \in 1..Len(stack) : stack'[i] = stack[i]
      /\ stack'[k] = n
  BY <1>1 DEF Enter
<1>3. /\ todo' \in Seq(SUBSET Nodes) /\ Len(todo') = k
      /\ \A i \in 1..Len(stack) : todo'[i] = rest[i]
      /\ todo'[k] = edges[n]
  BY <1>1
<1>4. /\ color' \in [Nodes -> {"white", "gray", "black"}] /\ color'[n] = "gray"
      /\ \A m \in Nodes : m # n => color'[m] = color[m]
  BY <1>1, Zenon DEF Enter
<1>5. Black' = Black /\ n \notin Black
  BY <1>1, <1>4, Zenon DEF Black
<1>6. \A i \in 1..Len(stack) : stack[i] # n
  BY <1>1, OnStack, Zenon DEF DetectTypeOK
<1>7. DetectTypeOK'
  <2>1. ASSUME NEW m \in Nodes PROVE color'[m] = "gray" <=> m \in Range(stack')
    <3>1. m \in Range(stack') <=> \E i \in 1..Len(stack') : stack'[i] = m
      BY <1>2, OnStack, Zenon
    <3>2. color[m] = "gray" <=> \E i \in 1..Len(stack) : stack[i] = m
      BY <1>1, OnStack, Zenon DEF DetectTypeOK
    <3> QED BY <1>1, <1>2, <1>4, <3>1, <3>2
  <2> QED BY <1>1, <1>2, <1>3, <1>4, <2>1, Zenon DEF DetectTypeOK
<1>8. StackIsPath'
  <2>1. \A i, j \in 1..k : stack'[i] = stack'[j] => i = j
    BY <1>1, <1>2, <1>6 DEF StackIsPath
  <2>2. \A i \in 1..k - 1 : stack'[i + 1] \in edges[stack'[i]]
    BY <1>1, <1>2 DEF StackIsPath, Last
  <2> QED BY <1>2, <2>1, <2>2, Zenon DEF StackIsPath
<1>9. LookedAt'
  <2>1. ASSUME NEW i \in 1..k
        PROVE  /\ todo'[i] \subseteq edges[stack'[i]]
               /\ \A m \in edges[stack'[i]] \ todo'[i] :
                    color'[m] = "black" \/ (i < k /\ m = stack'[i + 1])
    <3>1. CASE i = k
      BY <1>2, <1>3, <3>1, Zenon
    <3>2. CASE i < Len(stack)
      <4>1. /\ stack'[i] = stack[i] /\ stack'[i + 1] = stack[i + 1] /\ todo'[i] = todo[i]
            /\ stack[i] \in Nodes
        BY <1>1, <1>2, <1>3, <3>2
      <4>2. \A m \in Nodes : color[m] = "black" => color'[m] = "black"
        BY <1>4, Zenon
      <4> QED BY <1>1, <3>2, <4>1, <4>2 DEF LookedAt
    <3>3. CASE i = Len(stack)
      <4>1. /\ stack'[i] = stack[i] /\ stack'[i + 1] = n /\ todo'[i] = todo[i] \ {n}
            /\ stack[i] \in Nodes /\ i \in 1..Len(stack)
        BY <1>1, <1>2, <1>3, <3>3
      <4>2. \A m \in Nodes : color[m] = "black" => color'[m] = "black"
        BY <1>4, Zenon
      <4> QED BY <1>1, <3>3, <4>1, <4>2 DEF LookedAt
    <3> QED BY <1>1, <3>1, <3>2, <3>3
  <2> QED BY <1>2, <2>1 DEF LookedAt
<1>10. BlackIsDone'
  BY <1>1, <1>5, Zenon DEF BlackIsDone
<1>11. RootsRemain'
  BY <1>1, <1>4, Zenon DEF RootsRemain
<1> QED BY <1>7, <1>8, <1>9, <1>10, <1>11, Zenon DEF DetectInv

\* The outer loop looks at its next key.
LEMMA NextRootPreserves ==
  ASSUME DetectInv, NEW n \in Nodes, NextRoot(n)
  PROVE  DetectInv'
<1>1. /\ result = "running" /\ stack = <<>> /\ Len(stack) = 0 /\ todo = <<>>
      /\ roots' = roots \ {n} /\ UNCHANGED <<edges, result, cycle>>
      /\ edges[n] \in SUBSET Nodes
  BY DEF NextRoot, DetectInv, DetectTypeOK
<1>2. CASE color[n] = "white"
  <2>1. Enter(n) /\ todo' = Append(<<>>, edges[n])
    BY <1>2 DEF NextRoot
  <2>2. <<>> \in Seq(SUBSET Nodes) /\ Len(<<>>) = 0
    OBVIOUS
  <2> HIDE DEF DetectInv
  <2> QED BY <1>1, <1>2, <2>1, <2>2, EnterPreserves, Zenon
<1>3. CASE color[n] # "white"
  <2>1. UNCHANGED <<color, stack, todo>>
    BY <1>3, Zenon DEF NextRoot
  <2> QED BY <1>1, <1>3, <2>1
       DEF DetectInv, DetectTypeOK, StackIsPath, LookedAt, BlackIsDone, Black, RootsRemain, IsCycle
<1> QED BY <1>2, <1>3, Zenon

\* The place of a node on the stack, and the part of the stack from there on.
LEMMA CycleFromStack ==
  ASSUME DetectInv, NEW n \in Nodes, color[n] = "gray", n \in edges[Last(stack)]
  PROVE  IsCycle(CycleFrom(n)) /\ CycleFrom(n) \in Seq(Nodes)
<1>1. /\ StackIsPath /\ stack \in Seq(Nodes) /\ Len(stack) \in Nat
      /\ \A i \in 1..Len(stack) : stack[i] \in Nodes
  BY OnStack, Zenon DEF DetectInv, DetectTypeOK
<1>2. PICK j \in 1..Len(stack) : stack[j] = n
  BY OnStack, Zenon DEF DetectInv, DetectTypeOK
<1>3. \A i \in 1..Len(stack) : stack[i] = n <=> i = j
  BY <1>1, <1>2, Zenon DEF StackIsPath
<1>5. IndexOf(stack, n) = j
  BY <1>2, <1>3 DEF IndexOf
<1> DEFINE s == SubSeq(stack, j, Len(stack))
<1>6. CycleFrom(n) = s
  BY <1>5, Zenon DEF CycleFrom
<1>7. /\ s \in Seq(Nodes) /\ Len(s) = Len(stack) - j + 1
      /\ \A i \in 1..Len(s) : s[i] = stack[j + i - 1]
  BY <1>1, <1>2
<1> HIDE DEF s
<1>8. s # <<>> /\ DOMAIN s = 1..Len(s)
  BY <1>1, <1>2, <1>7
<1>9. IsInjective(s)
  <2> SUFFICES ASSUME NEW a \in 1..Len(s), NEW b \in 1..Len(s), s[a] = s[b] PROVE a = b
    BY <1>8, Zenon DEF IsInjective
  <2>1. Len(stack) \in Nat /\ Len(s) = Len(stack) - j + 1
    BY <1>1, <1>7, Zenon
  <2>2. j + a - 1 \in 1..Len(stack) /\ j + b - 1 \in 1..Len(stack)
    BY <2>1
  <2>3. stack[j + a - 1] = stack[j + b - 1]
    BY <1>7, Zenon
  <2>4. j + a - 1 = j + b - 1
    BY <1>1, <2>2, <2>3, Zenon DEF StackIsPath
  <2> QED BY <2>4
<1>10. ASSUME NEW i \in 1..Len(s)
       PROVE  s[IF i = Len(s) THEN 1 ELSE i + 1] \in edges[s[i]]
  <2>1. CASE i = Len(s)
    <3>1. 1 \in 1..Len(s) /\ j + 1 - 1 = j /\ j + i - 1 = Len(stack)
      BY <1>1, <1>2, <1>7, <2>1
    <3>2. s[1] = n /\ s[i] = Last(stack)
      BY <1>2, <1>7, <3>1, Zenon DEF Last
    <3> QED BY <2>1, <3>2, Zenon
  <2>2. CASE i # Len(s)
    <3>1. /\ i + 1 \in 1..Len(s) /\ j + i - 1 \in 1..Len(stack) - 1
          /\ j + (i + 1) - 1 = (j + i - 1) + 1
      <4>1. Len(stack) \in Nat /\ Len(s) = Len(stack) - j + 1
        BY <1>1, <1>7, Zenon
      <4> QED BY <2>2, <4>1
    <3>2. s[i] = stack[j + i - 1] /\ s[i + 1] = stack[(j + i - 1) + 1]
      <4>1. s[i + 1] = stack[j + (i + 1) - 1]
        BY <1>7, <3>1, Zenon
      <4> QED BY <1>7, <3>1, <4>1, Zenon
    <3>3. stack[(j + i - 1) + 1] \in edges[stack[j + i - 1]]
      BY <1>1, <3>1, Zenon DEF StackIsPath
    <3> QED BY <2>2, <3>2, <3>3, Zenon
  <2> QED BY <2>1, <2>2, Zenon
<1> QED BY <1>6, <1>7, <1>8, <1>9, <1>10, Zenon DEF IsCycle

\* visit looks at a neighbour: it closes a cycle, is visited, or is done.
LEMMA NextNeighborPreserves ==
  ASSUME DetectInv, NEW n \in Nodes, NextNeighbor(n)
  PROVE  DetectInv'
<1> DEFINE k == Len(stack)
<1>1. /\ DetectTypeOK /\ LookedAt /\ result = "running" /\ stack # <<>>
      /\ stack \in Seq(Nodes) /\ k \in Nat /\ k \in 1..k
      /\ todo \in Seq(SUBSET Nodes) /\ Len(todo) = k
      /\ UNCHANGED <<edges, roots>>
      /\ n \in todo[k]
  BY DEF DetectInv, DetectTypeOK, NextNeighbor, Last
<1>2. n \in edges[Last(stack)]
  BY <1>1, Zenon DEF LookedAt, Last
<1>3. CASE color[n] = "gray"
  <2>1. /\ result' = "deadlock" /\ cycle' = CycleFrom(n) /\ UNCHANGED <<color, stack, todo>>
    BY <1>3, Zenon DEF NextNeighbor, ClosesCycle
  <2>2. IsCycle(CycleFrom(n)) /\ CycleFrom(n) \in Seq(Nodes)
    BY <1>2, <1>3, CycleFromStack, Zenon
  <2>3. IsCycle(cycle)' /\ cycle' \in Seq(Nodes)
    BY <1>1, <2>1, <2>2, Zenon DEF IsCycle
  <2>4. DetectTypeOK'
    BY <1>1, <2>1, <2>3, Zenon DEF DetectInv, DetectTypeOK
  <2>5. StackIsPath' /\ LookedAt'
    BY <1>1, <2>1, Zenon DEF DetectInv, StackIsPath, LookedAt
  <2>6. BlackIsDone' /\ RootsRemain'
    BY <1>1, <2>1, Zenon DEF DetectInv, BlackIsDone, Black, RootsRemain
  <2> QED BY <2>1, <2>3, <2>4, <2>5, <2>6, Zenon DEF DetectInv
<1>4. CASE color[n] # "gray"
  <2> DEFINE rest == [todo EXCEPT ![k] = todo[k] \ {n}]
  <2>1. /\ UNCHANGED <<result, cycle>>
        /\ \/ color[n] = "white" /\ Enter(n) /\ todo' = Append(rest, edges[n])
           \/ color[n] # "white" /\ todo' = rest /\ UNCHANGED <<color, stack>>
    BY <1>1, <1>4, Zenon DEF NextNeighbor, ClosesCycle, OtherNeighbors
  <2>2. /\ rest \in Seq(SUBSET Nodes) /\ Len(rest) = k
        /\ \A i \in 1..k : i < k => rest[i] = todo[i]
        /\ rest[k] = todo[k] \ {n}
    BY <1>1
  <2> HIDE DEF rest
  <2>3. CASE color[n] = "white"
    BY <1>1, <1>2, <2>1, <2>2, <2>3, EnterPreserves, Zenon
  <2>4. CASE color[n] # "white"
    <3>1. color[n] = "black"
      BY <1>1, <1>4, <2>4, Zenon DEF DetectTypeOK
    <3>2. todo' = rest /\ UNCHANGED <<color, stack, edges, roots, result, cycle>>
      BY <1>1, <2>1, <2>4, Zenon
    <3>3. LookedAt'
      <4>1. ASSUME NEW i \in 1..k
            PROVE  /\ rest[i] \subseteq edges[stack[i]]
                   /\ \A m \in edges[stack[i]] \ rest[i] :
                        color[m] = "black" \/ (i < k /\ m = stack[i + 1])
        <5>1. CASE i < k
          BY <1>1, <2>2, <5>1, Zenon DEF LookedAt
        <5>2. CASE i = k
          BY <1>1, <2>2, <3>1, <5>2, Zenon DEF LookedAt
        <5> QED BY <1>1, <5>1, <5>2
      <4>2. ASSUME NEW i \in 1..Len(stack')
            PROVE  /\ todo'[i] \subseteq edges'[stack'[i]]
                   /\ \A m \in edges'[stack'[i]] \ todo'[i] :
                        color'[m] = "black" \/ (i < Len(stack') /\ m = stack'[i + 1])
        BY <3>2, <4>1, Zenon
      <4> QED BY <4>2, Zenon DEF LookedAt
    <3>4. DetectTypeOK'
      BY <1>1, <2>2, <3>2, Zenon DEF DetectTypeOK
    <3>5. StackIsPath' /\ RootsRemain'
      BY <3>2 DEF DetectInv, StackIsPath, RootsRemain
    <3>6. BlackIsDone'
      BY <3>2, Zenon DEF DetectInv, BlackIsDone, Black
    <3> QED BY <1>1, <3>2, <3>3, <3>4, <3>5, <3>6, Zenon DEF DetectInv
  <2> QED BY <2>3, <2>4, Zenon
<1> QED BY <1>3, <1>4, Zenon

\* visit returns: its node is black, as is all it waits for.
LEMMA LeavePreserves ==
  ASSUME DetectInv, Leave
  PROVE  DetectInv'
<1> DEFINE k == Len(stack)
           n == stack[k]
<1>1. /\ DetectTypeOK /\ StackIsPath /\ LookedAt /\ BlackIsDone /\ RootsRemain
      /\ result = "running" /\ stack # <<>>
      /\ stack \in Seq(Nodes) /\ k \in Nat /\ k \in 1..k /\ n \in Nodes
      /\ \A i \in 1..k : stack[i] \in Nodes
      /\ todo \in Seq(SUBSET Nodes) /\ Len(todo) = k
      /\ edges \in [Nodes -> SUBSET Nodes]
      /\ color \in [Nodes -> {"white", "gray", "black"}]
      /\ UNCHANGED <<edges, roots, result, cycle>>
      /\ todo[k] = {}
  BY DEF DetectInv, DetectTypeOK, Leave, Last
<1>2. /\ stack' \in Seq(Nodes) /\ Len(stack') = k - 1
      /\ \A i \in 1..k - 1 : stack'[i] = stack[i]
      /\ todo' \in Seq(SUBSET Nodes) /\ Len(todo') = k - 1
      /\ \A i \in 1..k - 1 : todo'[i] = todo[i]
  BY <1>1 DEF Leave, Front
<1>3. /\ color' \in [Nodes -> {"white", "gray", "black"}] /\ color'[n] = "black"
      /\ \A m \in Nodes : m # n => color'[m] = color[m]
  BY <1>1, Zenon DEF Leave, Last
<1>4. color[n] = "gray" /\ edges[n] \subseteq Black
  BY <1>1, OnStack DEF DetectTypeOK, LookedAt, Black
<1>5. Black' = Black \cup {n} /\ n \notin Black /\ Black \subseteq Nodes
  BY <1>1, <1>3, <1>4 DEF Black
<1> HIDE DEF n
<1>6. DetectTypeOK'
  <2>1. ASSUME NEW m \in Nodes PROVE color'[m] = "gray" <=> m \in Range(stack')
    <3>1. m \in Range(stack') <=> \E i \in 1..k - 1 : stack[i] = m
      <4>1. m \in Range(stack') <=> \E i \in 1..Len(stack') : stack'[i] = m
        BY <1>2, OnStack, Zenon
      <4> QED BY <1>2, <4>1, Zenon
    <3>2. color[m] = "gray" <=> \E i \in 1..k : stack[i] = m
      BY <1>1, OnStack, Zenon DEF DetectTypeOK
    <3>3. \A i \in 1..k : stack[i] = n <=> i = k
      BY <1>1, Zenon DEF StackIsPath, n
    <3> QED BY <1>1, <1>3, <3>1, <3>2, <3>3
  <2> QED BY <1>1, <1>2, <1>3, <2>1, Zenon DEF DetectTypeOK
<1>7. StackIsPath'
  BY <1>1, <1>2 DEF StackIsPath
<1>8. LookedAt'
  <2>1. ASSUME NEW i \in 1..k - 1
        PROVE  /\ todo[i] \subseteq edges[stack[i]]
               /\ \A m \in edges[stack[i]] \ todo[i] :
                    color'[m] = "black" \/ (i < k - 1 /\ m = stack[i + 1])
    <3>1. /\ i \in 1..k /\ todo[i] \subseteq edges[stack[i]]
          /\ \A m \in edges[stack[i]] \ todo[i] : color[m] = "black" \/ m = stack[i + 1]
      BY <1>1 DEF LookedAt
    <3>2. \A m \in Nodes : color[m] = "black" => color'[m] = "black"
      BY <1>3, Zenon
    <3>3. i = k - 1 => stack[i + 1] = n
      BY <1>1 DEF n
    <3> QED BY <1>1, <1>3, <3>1, <3>2, <3>3
  <2>2. \A i \in 1..k - 1 : i < k - 1 => stack'[i + 1] = stack[i + 1]
    <3>1. \A i \in 1..k - 1 : i < k - 1 => i + 1 \in 1..k - 1
      BY <1>1
    <3> QED BY <1>2, <3>1, Zenon
  <2>3. ASSUME NEW i \in 1..Len(stack')
        PROVE  /\ todo'[i] \subseteq edges'[stack'[i]]
               /\ \A m \in edges'[stack'[i]] \ todo'[i] :
                    color'[m] = "black" \/ (i < Len(stack') /\ m = stack'[i + 1])
    <3>1. i \in 1..k - 1 /\ stack'[i] = stack[i] /\ todo'[i] = todo[i] /\ edges' = edges
      BY <1>1, <1>2, Zenon
    <3> QED BY <1>2, <2>1, <2>2, <3>1, Zenon
  <2> QED BY <2>3, Zenon DEF LookedAt
<1>9. BlackIsDone'
  <2>1. \A m \in Black' : edges[m] \subseteq Black'
    BY <1>1, <1>4, <1>5, Zenon DEF BlackIsDone
  <2>2. ASSUME NEW S \in SUBSET (Black \cup {n}), S # {}
        PROVE  \E m \in S : edges[m] \cap S = {}
    <3>1. CASE S \ {n} = {}
      BY <1>4, <1>5, <2>2, <3>1, Zenon
    <3>2. CASE S \ {n} # {}
      <4>1. PICK m \in S \ {n} : edges[m] \cap (S \ {n}) = {}
        BY <1>1, <3>2, Zenon DEF BlackIsDone
      <4>2. n \notin edges[m]
        BY <1>1, <1>5, <4>1, Zenon DEF BlackIsDone
      <4> QED BY <4>1, <4>2, Zenon
    <3> QED BY <3>1, <3>2, Zenon
  <2> QED BY <1>1, <1>5, <2>1, <2>2, Zenon DEF BlackIsDone
<1>10. RootsRemain'
  BY <1>1, <1>3, Zenon DEF RootsRemain
<1> QED BY <1>1, <1>6, <1>7, <1>8, <1>9, <1>10, Zenon DEF DetectInv

\* Every step of the search keeps the invariant.
LEMMA DetectNextPreserves ==
  ASSUME DetectInv, [DetectNext]_detectVars PROVE DetectInv'
<1>1. CASE UNCHANGED <<edges, roots, color, stack, todo, cycle>> /\ result' \in {result, "none"}
             /\ (result' = "none" => stack = <<>> /\ roots = {})
  <2>1. DetectTypeOK'
    BY <1>1, Zenon DEF DetectInv, DetectTypeOK
  <2>2. StackIsPath' /\ LookedAt'
    BY <1>1 DEF DetectInv, StackIsPath, LookedAt
  <2>3. BlackIsDone'
    BY <1>1, Zenon DEF DetectInv, BlackIsDone, Black
  <2>4. RootsRemain'
    BY <1>1, Zenon DEF DetectInv, RootsRemain
  <2>5. result' = "deadlock" => IsCycle(cycle)'
    BY <1>1, Zenon DEF DetectInv, IsCycle
  <2> QED BY <2>1, <2>2, <2>3, <2>4, <2>5, Zenon DEF DetectInv
<1>2. CASE UNCHANGED detectVars
  BY <1>1, <1>2, Zenon DEF detectVars, DetectInv, RootsRemain
<1>3. CASE Finish
  BY <1>1, <1>3, Zenon DEF Finish
<1> QED BY <1>2, <1>3, NextRootPreserves, NextNeighborPreserves, LeavePreserves, Zenon
           DEF DetectNext

\* A search that ends without a cycle has made every node black that waits for
\* somebody.
LEMMA NoneMeansNone ==
  ASSUME DetectInv, result = "none" PROVE ~Deadlocked
<1>1. SUFFICES ASSUME Deadlocked PROVE FALSE
  BY Zenon
<1>2. PICK S \in (SUBSET Nodes) \ {{}} : \A n \in S : edges[n] \cap S # {}
  BY <1>1, Zenon DEF Deadlocked
<1>3. S \in SUBSET Nodes /\ S # {}
  BY <1>2, Zenon
<1>4. \A n \in Nodes : color[n] # "gray"
  BY DEF DetectInv, DetectTypeOK, RootsRemain, Range
<1>5. S \subseteq Black
  BY <1>2, <1>3, <1>4, Zenon DEF DetectInv, DetectTypeOK, RootsRemain, Black
<1> QED BY <1>2, <1>3, <1>5, Zenon DEF DetectInv, BlackIsDone

\* The answer of DetectDeadlock is right for every wait-for graph and every
\* order in which the hash tables are walked: "none" only when no transactions
\* wait for each other, and else a cycle of transactions that do.
THEOREM DeadlocksAreDetected == DetectSpec => []DetectsExactlyDeadlocks
<1>1. DetectInv => DetectsExactlyDeadlocks
  BY NoneMeansNone, Zenon DEF DetectInv, DetectsExactlyDeadlocks, IsCycle
<1>2. DetectInv /\ [DetectNext]_detectVars => DetectInv'
  BY DetectNextPreserves, Zenon
<1> QED BY <1>1, <1>2, DetectInitEstablishes, PTL DEF DetectSpec
-----------------------------------------------------------------------------
(* The TCP server. *)


\* A thread between its lock and its unlock owns the mutex and, while it
\* executes, works on the database as it is.
MutexInv ==
  /\ db = executed
  /\ \A c \in Clients : pc[c] \in {"execute", "reply locked"} => exec_mutex = c
  /\ \A c \in Clients : pc[c] = "execute" => copy[c] = db

Unstarted == {"none", "backlog", "accepted", "done"}
Serving == Labels \ Unstarted
Idle == {"none", "backlog", "done"}

\* Who may still run while Stop goes on: a connection that was accepted is in
\* the hands of the accept thread, which is joined first, or has a thread that
\* Stop joins.
StopInv ==
  /\ main_pc = "start" => accept_pc = "off"
  /\ main_pc \in {"join threads", "stopped", "exited"} => accept_pc = "exited"
  /\ \A c \in Clients : pc[c] = "accepted" => accept_pc = "spawn" /\ incoming = c
  /\ \A c \in Clients : pc[c] \in Serving => c \in threads
  /\ main_pc \in {"stopped", "exited"} => \A c \in Clients : pc[c] \in Idle
  /\ main_pc = "exited" => flushed = db

-----------------------------------------------------------------------------
\* The type invariant, with what makes it inductive: the accept thread spawns
\* a thread for a connection it has accepted.
TypeInv ==
  /\ ServerTypeOK
  /\ accept_pc = "spawn" => incoming \in Clients

\* A server that has not been started yet.
LEMMA TypeInvInit == ServerInit => TypeInv
<1> SUFFICES ASSUME ServerInit PROVE TypeInv
  BY Zenon
<1>1. inbox \in [Clients -> Seq(Statements \cup {Part})]
  BY DEF ServerInit
<1>2. outbox \in [Clients -> 0 .. BufferSize]
  BY ServerAssumption DEF ServerInit
<1>3. open \in [Clients -> BOOLEAN]
  BY Zenon DEF ServerInit
<1>4. pc \in [Clients -> Labels]
  BY Zenon DEF ServerInit, Labels
<1>5. request \in [Clients -> Statements \cup {Part}]
  BY Zenon DEF ServerInit
<1>6. /\ copy \in [Clients -> Nat] /\ sent \in [Clients -> Nat]
      /\ answered \in [Clients -> Nat]
  BY Zenon DEF ServerInit
<1>7. QED
  BY <1>1, <1>2, <1>3, <1>4, <1>5, <1>6, Zenon DEF ServerInit, TypeInv, ServerTypeOK

\* A queue whose last element is replaced keeps its type: a frame that is
\* completed by its second part.
LEMMA LastReplaced ==
  ASSUME NEW S, NEW q \in Seq(S), NEW e \in S
  PROVE  [q EXCEPT ![Len(q)] = e] \in Seq(S)
<1> DEFINE r == [q EXCEPT ![Len(q)] = e]
<1>1. /\ Len(q) \in Nat
      /\ \A i \in 1 .. Len(q) : q[i] \in S
      /\ DOMAIN q = 1 .. Len(q)
  OBVIOUS
<1>2. r \in [1 .. Len(q) -> S]
  BY <1>1, Zenon
<1>3. QED
  BY <1>1, <1>2

\* Steps that leave the main thread and the accept thread alone.
LEMMA ConnectionTypes ==
  ASSUME TypeInv, UNCHANGED <<mainVars, acceptVars, threads_locked, alive>>,
         pc' \in [Clients -> Labels], exec_mutex' \in Clients \cup {Free},
         request' \in [Clients -> Statements \cup {Part}],
         copy' \in [Clients -> Nat], db' \in Nat, executed' \in Nat,
         open' \in [Clients -> BOOLEAN],
         inbox' \in [Clients -> Seq(Statements \cup {Part})],
         outbox' \in [Clients -> 0 .. BufferSize],
         sent' \in [Clients -> Nat], answered' \in [Clients -> Nat]
  PROVE  TypeInv'
BY Zenon DEF TypeInv, ServerTypeOK, mainVars, acceptVars

\* A queue without its first element, and that element.
LEMMA QueueParts ==
  ASSUME NEW S, NEW q \in Seq(S)
  PROVE  /\ q # <<>> => Head(q) \in S /\ Tail(q) \in Seq(S)
         /\ \A e \in S : Append(q, e) \in Seq(S)
OBVIOUS

\* One more, and one less, of what a buffer holds.
LEMMA BufferCounts ==
  ASSUME NEW n \in 0 .. BufferSize
  PROVE  /\ n < BufferSize => n + 1 \in 0 .. BufferSize
         /\ n > 0 => n - 1 \in 0 .. BufferSize
         /\ 0 \in 0 .. BufferSize
BY ServerAssumption

\* Counters go on counting.
LEMMA Counted == \A n \in Nat : n + 1 \in Nat
OBVIOUS

\* Every step of a thread or a client keeps the types.
LEMMA TypeInvStep == TypeInv /\ [ServerNext]_serverVars => TypeInv'
<1> SUFFICES ASSUME TypeInv, [ServerNext]_serverVars PROVE TypeInv'
  BY Zenon
<1>0. /\ pc \in [Clients -> Labels] /\ request \in [Clients -> Statements \cup {Part}]
      /\ copy \in [Clients -> Nat] /\ db \in Nat /\ executed \in Nat
      /\ exec_mutex \in Clients \cup {Free}
      /\ inbox \in [Clients -> Seq(Statements \cup {Part})]
      /\ outbox \in [Clients -> 0 .. BufferSize]
      /\ sent \in [Clients -> Nat] /\ answered \in [Clients -> Nat]
  BY Zenon DEF TypeInv, ServerTypeOK
<1>open. open \in [Clients -> BOOLEAN]
  BY Zenon DEF TypeInv, ServerTypeOK
<1>1. CASE Start
  BY <1>1, Zenon DEF Start, TypeInv, ServerTypeOK, mainVars, acceptVars, threadVars, clientVars
<1>2. CASE Stop
  BY <1>2, Zenon DEF Stop, TypeInv, ServerTypeOK, mainVars, acceptVars, threadVars, clientVars
<1>3. CASE MainStep
  <2>1. CASE JoinAccept
    <3>1. open' \in [Clients -> BOOLEAN]
      BY <2>1, <1>open, Zenon DEF JoinAccept
    <3>2. QED
      BY <2>1, <3>1, Zenon
         DEF JoinAccept, TypeInv, ServerTypeOK, mainVars, acceptVars, threadVars, clientVars
  <2>2. CASE JoinThreads \/ FlushAll
    BY <2>2, Zenon
       DEF JoinThreads, FlushAll, TypeInv, ServerTypeOK, mainVars, acceptVars, threadVars, clientVars
  <2>3. QED
    BY <1>3, <2>1, <2>2, Zenon DEF MainStep
<1>4. CASE AcceptStep
  <2>1. CASE AcceptCheck
    BY <2>1, Zenon
       DEF AcceptCheck, TypeInv, ServerTypeOK, mainVars, acceptVars, threadVars, clientVars
  <2>2. CASE Accept
    BY <2>2, Zenon
       DEF Accept, Waiting, Labels, TypeInv, ServerTypeOK, mainVars, acceptVars, threadVars, clientVars
  <2>3. CASE Spawn
    BY <2>3, Zenon
       DEF Spawn, Labels, TypeInv, ServerTypeOK, mainVars, acceptVars, threadVars, clientVars
  <2>4. QED
    BY <1>4, <2>1, <2>2, <2>3, Zenon DEF AcceptStep
<1>5. ASSUME NEW c \in Clients, ThreadStep(c) PROVE TypeInv'
  <2>1. CASE Check(c)
    <3>1. open' \in [Clients -> BOOLEAN]
      BY <2>1, <1>open, Zenon DEF Check, Hangup
    <3>2. pc' \in [Clients -> Labels]
      BY <2>1, <1>0, Zenon DEF Check, Goto, Hangup, Labels
    <3>3. UNCHANGED <<mainVars, acceptVars, threads_locked, exec_mutex, request, copy, db,
                      executed, alive, inbox, outbox, sent, answered>>
      BY <2>1, Zenon DEF Check
    <3>4. QED
      BY <1>0, <3>1, <3>2, <3>3, ConnectionTypes, Zenon
  <2>2. CASE Poll(c)
    <3>1. pc' \in [Clients -> Labels]
      BY <2>2, <1>0, Zenon DEF Poll, Goto, Labels
    <3>2. UNCHANGED <<mainVars, acceptVars, threads_locked, exec_mutex, request, copy, db,
                      executed, alive, open, inbox, outbox, sent, answered>>
      BY <2>2, Zenon DEF Poll, clientVars
    <3>3. QED
      BY <1>0, <1>open, <3>1, <3>2, ConnectionTypes, Zenon
  <2>3. CASE Read(c)
    <3>1. pc' \in [Clients -> Labels]
      BY <2>3, <1>0, ServerAssumption, Zenon DEF Read, Goto, Hangup, Labels
    <3>2. open' \in [Clients -> BOOLEAN]
      BY <2>3, <1>open, Zenon DEF Read, Hangup
    <3>3. UNCHANGED <<mainVars, acceptVars, threads_locked, exec_mutex, copy, db, executed,
                      alive, outbox, sent, answered>>
      BY <2>3, Zenon DEF Read
    <3>4. /\ request' \in [Clients -> Statements \cup {Part}]
          /\ inbox' \in [Clients -> Seq(Statements \cup {Part})]
      <4>1. CASE Complete(c)
        <5>1. inbox[c] \in Seq(Statements \cup {Part}) /\ inbox[c] # <<>>
          BY <4>1, <1>0, Zenon DEF Complete
        <5>2. /\ Head(inbox[c]) \in Statements \cup {Part}
              /\ Tail(inbox[c]) \in Seq(Statements \cup {Part})
          BY <5>1, QueueParts, Zenon
        <5>3. /\ request' = [request EXCEPT ![c] = Head(inbox[c])]
              /\ inbox' = [inbox EXCEPT ![c] = Tail(inbox[c])]
          BY <2>3, <4>1, Zenon DEF Read
        <5>4. QED
          BY <1>0, <5>2, <5>3, Zenon
      <4>2. CASE ~Complete(c)
        BY <2>3, <4>2, <1>0, Zenon DEF Read
      <4>3. QED
        BY <4>1, <4>2, Zenon
    <3>5. QED
      BY <1>0, <3>1, <3>2, <3>3, <3>4, ConnectionTypes, Zenon
  <2>4. CASE Lock(c)
    <3>1. /\ pc' \in [Clients -> Labels] /\ copy' \in [Clients -> Nat]
          /\ exec_mutex' \in Clients \cup {Free}
      BY <2>4, <1>0, Zenon DEF Lock, Goto, Labels
    <3>2. UNCHANGED <<mainVars, acceptVars, threads_locked, request, db, executed, alive,
                      open, inbox, outbox, sent, answered>>
      BY <2>4, Zenon DEF Lock, clientVars
    <3>3. QED
      BY <1>0, <1>open, <3>1, <3>2, ConnectionTypes, Zenon
  <2>5. CASE Execute(c)
    <3>1. pc' \in [Clients -> Labels]
      BY <2>5, <1>0, ServerAssumption, Zenon DEF Execute, Goto, Labels
    <3>2. copy' \in [Clients -> Nat] /\ db' \in Nat /\ executed' \in Nat
      <4>1. /\ copy' = [copy EXCEPT ![c] = 0] /\ db' = copy[c] + 1
            /\ executed' = executed + 1
        BY <2>5, Zenon DEF Execute
      <4>2. copy[c] \in Nat
        BY <1>0, Zenon
      <4>3. QED
        BY <4>1, <4>2, <1>0, Counted, Zenon
    <3>3. exec_mutex' \in Clients \cup {Free}
      BY <2>5, <1>0, ServerAssumption, Zenon DEF Execute
    <3>4. UNCHANGED <<mainVars, acceptVars, threads_locked, request, alive,
                      open, inbox, outbox, sent, answered>>
      BY <2>5, Zenon DEF Execute, clientVars
    <3>5. QED
      BY <1>0, <1>open, <3>1, <3>2, <3>3, <3>4, ConnectionTypes, Zenon
  <2>6. CASE Reply(c)
    <3>1. pc' \in [Clients -> Labels]
      BY <2>6, <1>0, ServerAssumption, Zenon DEF Reply, Goto, Labels
    <3>2. \/ /\ outbox[c] < BufferSize
             /\ outbox' = [outbox EXCEPT ![c] = @ + 1]
             /\ answered' = [answered EXCEPT ![c] = @ + 1]
          \/ UNCHANGED <<outbox, answered>>
      BY <2>6, Zenon DEF Reply, HasRoom
    <3>3. /\ outbox' \in [Clients -> 0 .. BufferSize]
          /\ answered' \in [Clients -> Nat]
      <4>1. outbox[c] \in 0 .. BufferSize /\ answered[c] + 1 \in Nat
        BY <1>0, Counted, Zenon
      <4>2. outbox[c] < BufferSize => outbox[c] + 1 \in 0 .. BufferSize
        BY <4>1, BufferCounts, Zenon
      <4>3. QED
        BY <3>2, <4>1, <4>2, <1>0, Zenon
    <3>4. /\ exec_mutex' \in Clients \cup {Free}
          /\ request' \in [Clients -> Statements \cup {Part}]
      BY <2>6, <1>0, ServerAssumption, Zenon DEF Reply, MutexAfter
    <3>5. UNCHANGED <<mainVars, acceptVars, threads_locked, copy, db, executed, alive,
                      open, inbox, sent>>
      BY <2>6, Zenon DEF Reply
    <3>6. QED
      BY <1>0, <1>open, <3>1, <3>3, <3>4, <3>5, ConnectionTypes, Zenon
  <2>7. QED
    BY <1>5, <2>1, <2>2, <2>3, <2>4, <2>5, <2>6, Zenon DEF ThreadStep
<1>6. ASSUME NEW c \in Clients, BrokenPipe(c) PROVE TypeInv'
  BY <1>6, Zenon DEF BrokenPipe, TypeInv, ServerTypeOK, mainVars, acceptVars, threadVars, clientVars
<1>7. ASSUME NEW c \in Clients, Connect(c) PROVE TypeInv'
  BY <1>7, Zenon
     DEF Connect, Labels, TypeInv, ServerTypeOK, mainVars, acceptVars, threadVars, clientVars
<1>8. ASSUME NEW c \in Clients, BeginFrame(c) PROVE TypeInv'
  <2>1. inbox' \in [Clients -> Seq(Statements \cup {Part})]
    <3>1. inbox' = [inbox EXCEPT ![c] = Append(inbox[c], Part)]
      BY <1>8, Zenon DEF BeginFrame
    <3>2. Append(inbox[c], Part) \in Seq(Statements \cup {Part})
      BY <1>0, QueueParts, Zenon
    <3>3. QED
      BY <3>1, <3>2, <1>0, Zenon
  <2>2. UNCHANGED <<mainVars, acceptVars, threads_locked, pc, exec_mutex, request, copy, db,
                    executed, alive, open, outbox, sent, answered>>
    BY <1>8, Zenon DEF BeginFrame, threadVars
  <2>3. QED
    BY <1>0, <1>open, <2>1, <2>2, ConnectionTypes, Zenon
<1>9. ASSUME NEW c \in Clients, ClientGoesOn(c) PROVE TypeInv'
  <2>1. CASE ReadAnswer(c)
    <3>1. outbox' \in [Clients -> 0 .. BufferSize]
      <4>1. outbox' = [outbox EXCEPT ![c] = @ - 1] /\ outbox[c] > 0
        BY <2>1, Zenon DEF ReadAnswer
      <4>2. outbox[c] \in 0 .. BufferSize
        BY <1>0, Zenon
      <4>3. outbox[c] - 1 \in 0 .. BufferSize
        BY <4>1, <4>2, BufferCounts, Zenon
      <4>4. QED
        BY <4>1, <4>3, <1>0, Zenon
    <3>2. UNCHANGED <<mainVars, acceptVars, threads_locked, pc, exec_mutex, request, copy, db,
                      executed, alive, open, inbox, sent, answered>>
      BY <2>1, Zenon DEF ReadAnswer, threadVars
    <3>3. QED
      BY <1>0, <1>open, <3>1, <3>2, ConnectionTypes, Zenon
  <2>2. ASSUME NEW stmt \in Statements, EndFrame(c, stmt) PROVE TypeInv'
    <3>1. inbox' \in [Clients -> Seq(Statements \cup {Part})]
      <4>1. /\ inbox' = [inbox EXCEPT ![c] = [@ EXCEPT ![Len(inbox[c])] = stmt]]
            /\ inbox[c] # <<>>
        BY <2>2, Zenon DEF EndFrame, HasBegun
      <4>2. inbox[c] \in Seq(Statements \cup {Part})
        BY <1>0, Zenon
      <4>3. [inbox[c] EXCEPT ![Len(inbox[c])] = stmt] \in Seq(Statements \cup {Part})
        BY <4>2, LastReplaced, Zenon
      <4>4. QED
        BY <4>1, <4>3, <1>0, Zenon
    <3>2. sent' \in [Clients -> Nat]
      <4>1. sent[c] + 1 \in Nat /\ sent' = [sent EXCEPT ![c] = sent[c] + 1]
        BY <2>2, <1>0, Counted, Zenon DEF EndFrame
      <4>2. QED
        BY <4>1, <1>0, Zenon
    <3>3. UNCHANGED <<mainVars, acceptVars, threads_locked, pc, exec_mutex, request, copy, db,
                      executed, alive, open, outbox, answered>>
      BY <2>2, Zenon DEF EndFrame, threadVars
    <3>4. QED
      BY <1>0, <1>open, <3>1, <3>2, <3>3, ConnectionTypes, Zenon
  <2>3. QED
    BY <1>9, <2>1, <2>2, Zenon DEF ClientGoesOn
<1>10. ASSUME NEW c \in Clients, Disconnect(c) PROVE TypeInv'
  <2>1. outbox' \in [Clients -> 0 .. BufferSize]
    <3>1. 0 \in 0 .. BufferSize /\ outbox' = [outbox EXCEPT ![c] = 0]
      BY <1>10, <1>0, BufferCounts, Zenon DEF Disconnect
    <3>2. QED
      BY <3>1, <1>0, Zenon
  <2>2. open' \in [Clients -> BOOLEAN]
    BY <1>10, <1>open, Zenon DEF Disconnect
  <2>3. UNCHANGED <<mainVars, acceptVars, threads_locked, pc, exec_mutex, request, copy, db,
                    executed, alive, inbox, sent, answered>>
    BY <1>10, Zenon DEF Disconnect, threadVars
  <2>4. QED
    BY <1>0, <2>1, <2>2, <2>3, ConnectionTypes, Zenon
<1>11. CASE UNCHANGED serverVars
  <2>1. UNCHANGED <<mainVars, acceptVars, threads_locked, pc, exec_mutex, request, copy, db,
                    executed, alive, open, inbox, outbox, sent, answered>>
    BY <1>11, Zenon DEF serverVars, threadVars, clientVars
  <2>2. QED
    BY <1>0, <1>open, <2>1, ConnectionTypes, Zenon
<1>12. QED
  BY <1>1, <1>2, <1>3, <1>4, <1>5, <1>6, <1>7, <1>8, <1>9, <1>10, <1>11, Zenon DEF ServerNext

-----------------------------------------------------------------------------
\* No thread runs at first, and the mutex is free.
LEMMA MutexInvInit == ServerInit => MutexInv
BY Zenon DEF ServerInit, MutexInv

\* Only Lock, Execute and Reply touch the mutex or the database; every other
\* step of a thread leads from outside the critical section to outside it.
LEMMA MutexInvStep == TypeInv /\ MutexInv /\ [ServerNext]_serverVars => MutexInv'
<1> SUFFICES ASSUME TypeInv, MutexInv, [ServerNext]_serverVars PROVE MutexInv'
  BY Zenon
<1>0. /\ pc \in [Clients -> Labels] /\ copy \in [Clients -> Nat]
      /\ db \in Nat /\ executed \in Nat
  BY Zenon DEF TypeInv, ServerTypeOK
<1>1. ASSUME UNCHANGED <<pc, exec_mutex, copy, db, executed>> PROVE MutexInv'
  BY <1>1, Zenon DEF MutexInv
<1>2. ASSUME UNCHANGED <<exec_mutex, copy, db, executed>>,
             NEW c \in Clients, NEW l \in Labels \ {"execute", "reply locked"},
             pc' = [pc EXCEPT ![c] = l]
      PROVE  MutexInv'
  BY <1>0, <1>2, Zenon DEF MutexInv
<1>3. CASE Start \/ Stop \/ MainStep \/ AcceptCheck
  BY <1>1, <1>3, Zenon DEF Start, Stop, MainStep, JoinAccept, JoinThreads, FlushAll, AcceptCheck,
                    threadVars
<1>4. CASE Accept
  BY <1>1, <1>2, <1>4, Zenon DEF Accept, Waiting, Labels
<1>5. CASE Spawn
  <2>1. incoming \in Clients
    BY <1>5, Zenon DEF Spawn, TypeInv
  <2>2. QED
    BY <1>2, <1>5, <2>1, Zenon DEF Spawn, Labels
<1>6. ASSUME NEW c \in Clients, Check(c) \/ Poll(c) \/ Read(c) \/ Connect(c) PROVE MutexInv'
  BY <1>2, <1>6, Zenon DEF Check, Poll, Read, Connect, Goto, Hangup, Labels
<1>7. ASSUME NEW c \in Clients, Lock(c) PROVE MutexInv'
  BY <1>0, <1>7, ServerAssumption, Zenon DEF Lock, MayEnter, Goto, MutexInv
<1>8. ASSUME NEW c \in Clients, Execute(c) PROVE MutexInv'
  <2>1. exec_mutex = c /\ copy[c] = db
    BY <1>8, Zenon DEF Execute, MutexInv
  <2>2. \A d \in Clients \ {c} : pc[d] \notin {"execute", "reply locked"} /\ pc'[d] = pc[d]
    BY <1>0, <1>8, <2>1, Zenon DEF Execute, Goto, MutexInv
  <2>3. /\ pc'[c] \in {"reply", "reply locked"}
        /\ pc'[c] = "reply locked" => exec_mutex' = c
    BY <1>0, <1>8, <2>1, Zenon DEF Execute, Goto
  <2>4. db' = executed'
    BY <1>8, <2>1, Zenon DEF Execute, MutexInv
  <2>5. QED
    BY <2>2, <2>3, <2>4, Zenon DEF MutexInv
<1>9. ASSUME NEW c \in Clients, Reply(c) PROVE MutexInv'
  <2>1. UNCHANGED <<copy, db, executed>> /\ pc' = [pc EXCEPT ![c] = "check"]
    BY <1>9, Zenon DEF Reply, Goto
  <2>2. exec_mutex' = IF exec_mutex = c THEN Free ELSE exec_mutex
    BY <1>9, Zenon DEF Reply, MutexAfter
  <2>3. QED
    BY <1>0, <2>1, <2>2, Zenon DEF MutexInv
<1>10. ASSUME NEW c \in Clients,
              BrokenPipe(c) \/ BeginFrame(c) \/ ClientGoesOn(c) \/ Disconnect(c)
       PROVE  MutexInv'
  BY <1>1, <1>10, Zenon DEF BrokenPipe, BeginFrame, ClientGoesOn, ReadAnswer, EndFrame, Disconnect,
                     threadVars
<1>11. CASE UNCHANGED serverVars
  BY <1>1, <1>11, Zenon DEF serverVars, threadVars
<1>12. QED
  BY <1>3, <1>4, <1>5, <1>6, <1>7, <1>8, <1>9, <1>10, <1>11, Zenon
     DEF ServerNext, AcceptStep, ThreadStep

-----------------------------------------------------------------------------
\* No connection has been accepted at first.
LEMMA StopInvInit == ServerInit => StopInv
BY Zenon DEF ServerInit, StopInv, Serving, Labels, Unstarted

\* Stop joins the accept thread before it looks at the connection threads, so
\* that none is added behind its back, and returns when all have ended.
LEMMA StopInvStep == TypeInv /\ StopInv /\ [ServerNext]_serverVars => StopInv'
<1> SUFFICES ASSUME TypeInv, StopInv, [ServerNext]_serverVars PROVE StopInv'
  BY Zenon
<1>0. /\ pc \in [Clients -> Labels]
      /\ accept_pc = "spawn" => incoming \in Clients
  BY Zenon DEF TypeInv, ServerTypeOK
<1>1. ASSUME UNCHANGED <<main_pc, flushed, accept_pc, incoming, threads, pc, db>> PROVE StopInv'
  BY <1>1, Zenon DEF StopInv
<1>2. ASSUME UNCHANGED <<main_pc, flushed, accept_pc, incoming, threads>>,
             NEW c \in Clients, pc[c] \in Serving,
             NEW l \in Serving \cup {"done"}, pc' = [pc EXCEPT ![c] = l]
      PROVE  StopInv'
  <2>1. c \in threads /\ main_pc \notin {"stopped", "exited"}
    BY <1>2, Zenon DEF StopInv, Serving, Unstarted, Idle
  <2>2. l # "accepted"
    BY <1>2, Zenon DEF Serving, Unstarted
  <2>3. QED
    BY <1>0, <1>2, <2>1, <2>2, Zenon DEF StopInv
<1>3. CASE Start
  BY <1>3, Zenon DEF Start, StopInv, threadVars
<1>4. CASE Stop
  BY <1>4, Zenon DEF Stop, StopInv, threadVars, acceptVars
<1>5. CASE JoinAccept
  BY <1>5, Zenon DEF JoinAccept, AcceptJoined, StopInv, threadVars, acceptVars
<1>6. CASE JoinThreads
  <2>1. \A c \in Clients : pc[c] \in Idle
    BY <1>0, <1>6, Zenon DEF JoinThreads, StopInv, Serving, Unstarted, Idle, Labels
  <2>2. QED
    BY <1>6, <2>1, Zenon DEF JoinThreads, StopInv, Serving, Unstarted, Idle, threadVars
<1>7. CASE FlushAll
  BY <1>7, Zenon DEF FlushAll, StopInv, threadVars, acceptVars
<1>8. CASE AcceptCheck
  BY <1>8, Zenon DEF AcceptCheck, StopInv, mainVars, threadVars
<1>9. CASE Accept
  BY <1>0, <1>9, Zenon DEF Accept, Waiting, StopInv, Serving, Unstarted, Idle, mainVars
<1>10. CASE Spawn
  BY <1>0, <1>10, Zenon DEF Spawn, StopInv, Serving, Unstarted, Idle, mainVars
<1>11. ASSUME NEW c \in Clients, Check(c) \/ Poll(c) \/ Read(c) \/ Lock(c) \/ Execute(c) \/ Reply(c)
       PROVE  StopInv'
  <2>1. /\ pc[c] \in Serving
        /\ \E l \in Serving \cup {"done"} : pc' = [pc EXCEPT ![c] = l]
    BY <1>11, Zenon
       DEF Check, Poll, Read, Lock, Execute, Reply, Goto, Hangup, Serving, Labels, Unstarted
  <2>2. UNCHANGED <<main_pc, flushed, accept_pc, incoming, threads>>
    BY <1>11, Zenon DEF Check, Poll, Read, Lock, Execute, Reply, mainVars, acceptVars
  <2>3. QED
    BY <1>2, <2>1, <2>2, Zenon
<1>12. ASSUME NEW c \in Clients, Connect(c) PROVE StopInv'
  BY <1>0, <1>12, Zenon DEF Connect, StopInv, Serving, Unstarted, mainVars, acceptVars
<1>13. ASSUME NEW c \in Clients,
              BrokenPipe(c) \/ BeginFrame(c) \/ ClientGoesOn(c) \/ Disconnect(c)
       PROVE  StopInv'
  BY <1>1, <1>13, Zenon DEF BrokenPipe, BeginFrame, ClientGoesOn, ReadAnswer, EndFrame, Disconnect,
                     mainVars, acceptVars, threadVars
<1>14. CASE UNCHANGED serverVars
  BY <1>1, <1>14, Zenon DEF serverVars, mainVars, acceptVars, threadVars
<1>15. QED
  BY <1>3, <1>4, <1>5, <1>6, <1>7, <1>8, <1>9, <1>10, <1>11, <1>12, <1>13, <1>14, Zenon
     DEF ServerNext, MainStep, AcceptStep, ThreadStep

-----------------------------------------------------------------------------
\* The state of the server keeps its type.
THEOREM ServerTypeCorrect == Safety => []ServerTypeOK
<1>1. TypeInv => ServerTypeOK
  BY Zenon DEF TypeInv
<1>2. QED
  BY <1>1, TypeInvInit, TypeInvStep, PTL DEF Safety

\* No statement works on a state of the database that another one has changed
\* since, for any number of connections (tcp_server.cpp:84-95).
THEOREM StatementsDoNotOverlap == Safety => []NoStatementLost
<1>1. MutexInv => NoStatementLost
  BY Zenon DEF MutexInv, NoStatementLost
<1>2. QED
  BY <1>1, TypeInvInit, TypeInvStep, MutexInvInit, MutexInvStep, PTL DEF Safety

\* Once Stop has returned no thread executes anything, and what is flushed is
\* the database after the last statement (tcp_server.cpp:100-116).
THEOREM StopIsFinal == Safety => []NothingAfterStop
<1>1. StopInv => NothingAfterStop
  BY Zenon DEF StopInv, NothingAfterStop, Idle
<1>2. QED
  BY <1>1, TypeInvInit, TypeInvStep, StopInvInit, StopInvStep, PTL DEF Safety
=============================================================================
