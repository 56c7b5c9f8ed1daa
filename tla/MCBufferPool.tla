---------------------------- MODULE MCBufferPool ----------------------------
(* BufferPool.tla on two frames and three page ids, so that pages must be   *)
(* evicted and every frame can be pinned while an id is still to be had.    *)
EXTENDS BufferPool, TLC

\* Clients are interchangeable.
ClientSymmetry == Permutations(Clients)
=============================================================================
