-------------------------- MODULE MCTwoPhaseLocking --------------------------
(* TwoPhaseLocking.tla with three transactions, so that a cycle of          *)
(* conflicts need not be between two of them, over two rows.                *)
EXTENDS TwoPhaseLocking, TLC

\* Rows are interchangeable, and so are transactions.
Symmetry == Permutations(Rids) \cup Permutations(Txns)
=============================================================================
