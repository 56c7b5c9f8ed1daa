--------------------------- MODULE TwoPhaseLocking ---------------------------
(***************************************************************************)
(* Transactions that follow strict two-phase locking over the lock table:  *)
(* DESIGN.md, "Transaction Architecture", and docs/modules/transactions.md.*)
(* No caller of LockManager exists in the sources yet, so the client is    *)
(* the documents': a lock before every read or write, Commit or Abort,     *)
(* then ReleaseAll.                                                        *)
(*                                                                         *)
(* The history variables record which transaction's access to a row came   *)
(* before a conflicting one, and the order in which transactions ended.    *)
(***************************************************************************)
EXTENDS LockManager

VARIABLES
  phase,    \* phase[t]: the transaction's life: "new", "active", "ended"
  readers,  \* readers[r]: transactions that have read row r
  writers,  \* writers[r]: transactions that have written row r
  before,   \* <<t, u>>: an access of t came before a conflicting one of u
  earlier   \* earlier[t]: the transactions that had ended when t ended

historyVars == <<readers, writers, before, earlier>>
vars == <<lockVars, phase, historyVars>>

TypeOK ==
  /\ LockTypeOK
  /\ phase \in [Txns -> {"new", "active", "ended"}]
  /\ readers \in [Rids -> SUBSET Txns]
  /\ writers \in [Rids -> SUBSET Txns]
  /\ before \subseteq Txns \X Txns
  /\ earlier \in [Txns -> SUBSET Txns]

Init ==
  /\ LockInit
  /\ phase = [t \in Txns |-> "new"]
  /\ readers = [r \in Rids |-> {}]
  /\ writers = [r \in Rids |-> {}]
  /\ before = {}
  /\ earlier = [t \in Txns |-> {}]

IsActive(t) == phase[t] = "active"
HasEnded(t) == phase[t] = "ended"

ClientBegin(t) ==
  /\ phase[t] = "new"
  /\ phase' = [phase EXCEPT ![t] = "active"]
  /\ UNCHANGED <<lockVars, historyVars>>

\* The growing phase: locks are asked for while the transaction is active.
ClientLock(t, r) ==
  /\ IsActive(t)
  /\ LockShared(t, r) \/ LockExclusive(t, r)
  /\ UNCHANGED <<phase, historyVars>>

ClientRead(t, r) ==
  /\ IsActive(t)
  /\ Holds(t, r)
  /\ readers' = [readers EXCEPT ![r] = @ \cup {t}]
  /\ before' = before \cup ((writers[r] \ {t}) \X {t})
  /\ UNCHANGED <<lockVars, phase, writers, earlier>>

ClientWrite(t, r) ==
  /\ IsActive(t)
  /\ lock_table[r].exclusive = t
  /\ writers' = [writers EXCEPT ![r] = @ \cup {t}]
  /\ before' = before \cup (((readers[r] \cup writers[r]) \ {t}) \X {t})
  /\ UNCHANGED <<lockVars, phase, readers, earlier>>

\* Commit or Abort.
ClientEnd(t) ==
  /\ IsActive(t)
  /\ phase' = [phase EXCEPT ![t] = "ended"]
  /\ earlier' = [earlier EXCEPT ![t] = {u \in Txns : HasEnded(u)}]
  /\ UNCHANGED <<lockVars, readers, writers, before>>

\* The shrinking phase: ReleaseAll, or Unlock row by row, once the transaction
\* has ended.
ClientRelease(t) ==
  /\ HasEnded(t)
  /\ txn_locks[t] # {} \/ held[t].running
  /\ \/ ReleaseCopy(t)
     \/ \E r \in Rids : ReleaseRow(t, r)
     \/ \E r \in txn_locks[t] : Unlock(t, r)
     \/ ReleaseErase(t)
  /\ UNCHANGED <<phase, historyVars>>

Next ==
  \E t \in Txns :
    \/ ClientBegin(t)
    \/ \E r \in Rids : ClientLock(t, r) \/ ClientRead(t, r) \/ ClientWrite(t, r)
    \/ ClientEnd(t)
    \/ ClientRelease(t)

Spec == Init /\ [][Next]_vars
-----------------------------------------------------------------------------
\* Whenever an access of t comes before a conflicting access of u, t has ended
\* and, if u has ended too, t ended first.  So the order in which transactions
\* end is a serial order that agrees with every conflict: the serializability
\* that docs/modules/transactions.md claims for two-phase locking.
SerializableInEndOrder ==
  \A t, u \in Txns : <<t, u>> \in before =>
    /\ HasEnded(t)
    /\ HasEnded(u) => t \in earlier[u]

\* What a transaction has read or written it has locked, in the right mode,
\* until ReleaseAll runs: nobody sees what a running transaction has written.
AccessesStayLocked ==
  \A t \in Txns, r \in Rids : IsActive(t) =>
    /\ t \in readers[r] => Holds(t, r)
    /\ t \in writers[r] => lock_table[r].exclusive = t
=============================================================================
