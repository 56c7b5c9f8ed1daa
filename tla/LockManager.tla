----------------------------- MODULE LockManager -----------------------------
(***************************************************************************)
(* The row lock table (src/transaction/lock_manager.cpp).                  *)
(*                                                                         *)
(* A lock is tried, never waited for: a conflicting request returns        *)
(* Conflict and changes nothing, so only granted requests are actions.     *)
(* Each call holds LockManager::mutex_ for its whole length, except        *)
(* ReleaseAll: it copies the rows of the transaction under the mutex,      *)
(* calls Unlock once per row, and takes the mutex again to drop its own    *)
(* entry, so other transactions run between those steps.                   *)
(*                                                                         *)
(* A transaction is driven by one thread, which is what the single         *)
(* Transaction* that Begin returns suggests; its calls do not overlap.     *)
(***************************************************************************)
EXTENDS Transaction

CONSTANT Rids  \* the rows (RecordId) that may be locked

VARIABLES
  lock_table,  \* lock_table_; an absent entry is one nobody holds
  txn_locks,   \* txn_locks_; an absent key is the empty set
  held         \* the copy ReleaseAll works through, NotReleasing outside it

lockVars == <<lock_table, txn_locks, held>>

NoLock == [shared |-> {}, exclusive |-> kInvalidTxnId]
NotReleasing == [running |-> FALSE, rids |-> {}]
Copy(S) == [running |-> TRUE, rids |-> S]

LockTypeOK ==
  /\ lock_table \in [Rids -> [shared : SUBSET Txns, exclusive : Txns \cup {kInvalidTxnId}]]
  /\ txn_locks \in [Txns -> SUBSET Rids]
  /\ held \in [Txns -> {NotReleasing} \cup {Copy(S) : S \in SUBSET Rids}]

LockInit ==
  /\ lock_table = [r \in Rids |-> NoLock]
  /\ txn_locks = [t \in Txns |-> {}]
  /\ held = [t \in Txns |-> NotReleasing]
-----------------------------------------------------------------------------
\* Another transaction has the row exclusively.
HeldByOther(t, r) == lock_table[r].exclusive \notin {kInvalidTxnId, t}

\* Mutant: a shared lock is granted whatever the row's state.
SharedAlways(t, r) == TRUE

MayLockShared(t, r) == ~HeldByOther(t, r)

MayLockExclusive(t, r) ==
  /\ ~HeldByOther(t, r)
  /\ lock_table[r].shared \subseteq {t}

LockShared(t, r) ==
  /\ ~held[t].running
  /\ MayLockShared(t, r)
  /\ lock_table' = [lock_table EXCEPT ![r].shared = @ \cup {t}]
  /\ txn_locks' = [txn_locks EXCEPT ![t] = @ \cup {r}]
  /\ UNCHANGED held

\* An upgrade drops the transaction's own shared lock.
LockExclusive(t, r) ==
  /\ ~held[t].running
  /\ MayLockExclusive(t, r)
  /\ lock_table' = [lock_table EXCEPT ![r] = [shared |-> {}, exclusive |-> t]]
  /\ txn_locks' = [txn_locks EXCEPT ![t] = @ \cup {r}]
  /\ UNCHANGED held

\* Mutant: only one of the two kinds of lock is given back.
UnlockedSharedOnly(e, t) ==
  IF t \in e.shared THEN [e EXCEPT !.shared = @ \ {t}]
                    ELSE [e EXCEPT !.exclusive = IF @ = t THEN kInvalidTxnId ELSE @]

\* The row's entry after Unlock: both kinds of lock of t are given back.
Unlocked(e, t) ==
  [shared |-> e.shared \ {t},
   exclusive |-> IF e.exclusive = t THEN kInvalidTxnId ELSE e.exclusive]

\* What Unlock does to the two tables; a row t does not hold is left alone.
GiveBack(t, r) ==
  /\ lock_table' = [lock_table EXCEPT ![r] = Unlocked(@, t)]
  /\ txn_locks' = [txn_locks EXCEPT ![t] = @ \ {r}]

Unlock(t, r) ==
  /\ ~held[t].running
  /\ GiveBack(t, r)
  /\ UNCHANGED held

\* ReleaseAll, its three kinds of step.
ReleaseCopy(t) ==
  /\ ~held[t].running
  /\ held' = [held EXCEPT ![t] = Copy(txn_locks[t])]
  /\ UNCHANGED <<lock_table, txn_locks>>

ReleaseRow(t, r) ==
  /\ held[t].running /\ r \in held[t].rids
  /\ GiveBack(t, r)
  /\ held' = [held EXCEPT ![t] = Copy(@.rids \ {r})]

ReleaseErase(t) ==
  /\ held[t].running /\ held[t].rids = {}
  /\ txn_locks' = [txn_locks EXCEPT ![t] = {}]
  /\ held' = [held EXCEPT ![t] = NotReleasing]
  /\ UNCHANGED lock_table

LockStep(t, r) ==
  \/ LockShared(t, r)
  \/ LockExclusive(t, r)
  \/ Unlock(t, r)
  \/ ReleaseRow(t, r)

LockNext ==
  \E t \in Txns :
    \/ \E r \in Rids : LockStep(t, r)
    \/ ReleaseCopy(t)
    \/ ReleaseErase(t)

LockSpec == LockInit /\ [][LockNext]_lockVars
-----------------------------------------------------------------------------
Holds(t, r) == t \in lock_table[r].shared \/ lock_table[r].exclusive = t

\* A row locked exclusively is locked by nobody else, in either mode, through
\* any sequence of grants, upgrades and releases.
ExclusiveExcludes ==
  \A r \in Rids :
    lock_table[r].exclusive # kInvalidTxnId =>
      lock_table[r].shared \subseteq {lock_table[r].exclusive}

\* txn_locks_ names exactly the rows a transaction holds, and the copy that
\* ReleaseAll works through stays equal to it while other transactions lock
\* and unlock.  So ReleaseAll leaves no lock of the transaction behind.
TablesAgree ==
  \A t \in Txns :
    /\ \A r \in Rids : r \in txn_locks[t] <=> Holds(t, r)
    /\ held[t].running => held[t].rids = txn_locks[t]
=============================================================================
