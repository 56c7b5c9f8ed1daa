------------------------------ MODULE MCDatabase -----------------------------
(* Database for TLC: a row that can grow, one without a key, and an INSERT   *)
(* whose second row fails.                                                   *)
EXTENDS Database

CONSTANTS k1, k2

MCKeys == {k1, k2}
MCInserts ==
  {<<[key |-> k1, len |-> 1]>>, <<[key |-> Null, len |-> 1]>>,
   <<[key |-> k1, len |-> 1], [key |-> k2, len |-> TooLong]>>,
   <<[key |-> k1, len |-> 1], [key |-> k2, len |-> 2]>>}
=============================================================================
