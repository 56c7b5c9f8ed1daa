-------------------------------- MODULE Lists --------------------------------
(***************************************************************************)
(* std::list and std::vector as sequences: what the lists of the buffer    *)
(* pool and the stack of the deadlock detector are used for.  The elements *)
(* of a list are its Range.  (SequencesExt is not used in a module that    *)
(* proofs are about: the theorems that come with its Bags would be in the  *)
(* context of every obligation.)                                           *)
(***************************************************************************)
EXTENDS Sequences, Functions

\* back() and pop_back().
Last(s) == s[Len(s)]
Front(s) == SubSeq(s, 1, Len(s) - 1)

\* std::find, of an element that is in the list.
IndexOf(s, e) == CHOOSE i \in 1..Len(s) : s[i] = e /\ \A j \in 1..i - 1 : s[j] # e

\* erase of the first place at which e is.
RemoveFirst(s, e) ==
  IF e \in Range(s)
  THEN SubSeq(s, 1, IndexOf(s, e) - 1) \o SubSeq(s, IndexOf(s, e) + 1, Len(s))
  ELSE s
=============================================================================
