------------------------------ MODULE PageStore ------------------------------
(***************************************************************************)
(* What the buffer pool and the data file together promise the layers      *)
(* above: a store of pages in which caching cannot be seen.                *)
(*                                                                         *)
(* cur[p] is what a client that gets hold of page p reads, dur[p] what a   *)
(* restart would find.  A read always returns what was last written, or is *)
(* refused; only a failure of the device makes pages unreadable, and only  *)
(* a restart forgets what was never made durable.                          *)
(***************************************************************************)
CONSTANTS PageIds, Values, Blank, Torn, Unreadable

VARIABLES cur, dur

storeVars == <<cur, dur>>

AllUnreadable == [p \in PageIds |-> Unreadable]

Init ==
  /\ cur = AllUnreadable
  /\ dur = AllUnreadable

\* A page keeps its content and may become durable as it stands.
Kept(p) ==
  /\ cur'[p] = cur[p]
  /\ dur'[p] = dur[p] \/ (dur'[p] = cur[p] /\ cur[p] # Unreadable)

\* While the device fails a page may become unreadable ...
Spared(p) ==
  /\ cur'[p] \in {cur[p], Unreadable}
  /\ dur'[p] = dur[p] \/ (dur'[p] = cur[p] /\ cur[p] # Unreadable)

\* ... and the write that fails may leave a torn image behind.
Struck(p) ==
  /\ cur'[p] \in {cur[p], Unreadable}
  /\ dur'[p] \in {dur[p], Torn} \/ (dur'[p] = cur[p] /\ cur[p] # Unreadable)

Total ==
  /\ cur' = [p \in PageIds |-> cur'[p]]
  /\ dur' = [p \in PageIds |-> dur'[p]]

Write(p, v) ==
  /\ cur[p] # Unreadable
  /\ cur' = [cur EXCEPT ![p] = v]
  /\ UNCHANGED dur

Persist ==
  /\ Total
  /\ \A p \in PageIds : Kept(p)

Allocate(q) ==
  /\ Total
  /\ cur[q] = Unreadable /\ dur[q] = Unreadable
  /\ cur'[q] = Blank /\ dur'[q] = Blank
  /\ \A p \in PageIds \ {q} : Kept(p)

Fail(q) ==
  /\ Total
  /\ Struck(q)
  /\ \A p \in PageIds \ {q} : Spared(p)

FailInAllocate(q) ==
  /\ Total
  /\ cur[q] = Unreadable /\ dur[q] = Unreadable
  /\ cur'[q] \in {Blank, Unreadable}
  /\ dur'[q] \in {Blank, Unreadable}
  /\ \E r \in PageIds : /\ r # q => Struck(r)
                        /\ \A p \in PageIds \ {q, r} : Spared(p)

Stop ==
  /\ cur' = AllUnreadable
  /\ UNCHANGED dur

Restart ==
  /\ cur = AllUnreadable
  /\ cur' = dur
  /\ UNCHANGED dur

Next ==
  \/ \E p \in PageIds, v \in Values : Write(p, v)
  \/ Persist
  \/ \E q \in PageIds : Allocate(q)
  \/ \E q \in PageIds : Fail(q) \/ FailInAllocate(q)
  \/ Stop
  \/ Restart

Spec == Init /\ [][Next]_storeVars
=============================================================================
