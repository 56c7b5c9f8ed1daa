-------------------------- MODULE TransactionManager --------------------------
(***************************************************************************)
(* TransactionManager (src/transaction/transaction_manager.cpp): ids in    *)
(* order, the set of active ids, and every transaction there ever was in   *)
(* this run of the process.  Every call holds TransactionManager::mutex_.  *)
(***************************************************************************)
EXTENDS Transaction, Integers

CONSTANTS
  MaxTxn,  \* bound on the ids handed out
  Levels   \* isolation levels in use, of the two there are

ASSUME TransactionManagerAssumption ==
  /\ MaxTxn \in Nat
  /\ Txns = 1..MaxTxn /\ kInvalidTxnId = 0
  /\ Levels \subseteq {"ReadCommitted", "SnapshotIsolation"}

VARIABLES
  next_txn_id,     \* next_txn_id_
  active_txn_ids,  \* active_txn_ids_
  transactions     \* transactions_; NoTransaction for an id not handed out yet

txnVars == <<next_txn_id, active_txn_ids, transactions>>

NoTransaction == [state |-> "none", level |-> "none", active_at_start |-> {}]

TxnTypeOK ==
  /\ next_txn_id \in 1..MaxTxn + 1
  /\ active_txn_ids = {t \in Txns : transactions[t].state = "active"}
  /\ transactions \in
       [Txns -> [state : {"none", "active", "committed", "aborted"},
                 level : Levels \cup {"none"},
                 active_at_start : SUBSET Txns]]

TxnInit ==
  /\ next_txn_id = 1
  /\ active_txn_ids = {}
  /\ transactions = [t \in Txns |-> NoTransaction]

IsActive(t) == transactions[t].state = "active"
IsCommitted(t) == transactions[t].state = "committed"

\* Mutant: the snapshot of the active set is not taken.
SnapshotForgotten == {}

SnapshotOfActive == active_txn_ids

Begin(t, level) ==
  /\ t = next_txn_id
  /\ next_txn_id' = next_txn_id + 1
  /\ transactions' = [transactions EXCEPT ![t] =
       [state |-> "active", level |-> level, active_at_start |-> SnapshotOfActive]]
  /\ active_txn_ids' = active_txn_ids \cup {t}

\* Commit and Abort; on a transaction that is not active they return
\* InvalidArgument and change nothing.
End(t, outcome) ==
  /\ IsActive(t)
  /\ transactions' = [transactions EXCEPT ![t].state = outcome]
  /\ active_txn_ids' = active_txn_ids \ {t}
  /\ UNCHANGED next_txn_id

Commit(t) == End(t, "committed")
Abort(t) == End(t, "aborted")
=============================================================================
