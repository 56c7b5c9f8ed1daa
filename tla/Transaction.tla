----------------------------- MODULE Transaction -----------------------------
(***************************************************************************)
(* Transaction ids (src/transaction/transaction.hpp): uint64 values, never *)
(* reused within a run of the process, one of which stands for "none".     *)
(***************************************************************************)
CONSTANTS
  Txns,          \* the ids handed out in this run
  kInvalidTxnId  \* 0 in the code

ASSUME TransactionAssumption == kInvalidTxnId \notin Txns
=============================================================================
