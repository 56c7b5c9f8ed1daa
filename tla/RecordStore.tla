----------------------------- MODULE RecordStore -----------------------------
(***************************************************************************)
(* What heap files promise: each is a map from record ids to records.      *)
(* rows is what a reader finds, safe the part of it that a restart must    *)
(* keep.  call is the record that is being put into a file, <<>> when      *)
(* there is none: only then may it get an id, and an id that is free.      *)
(***************************************************************************)
EXTENDS FiniteSets

CONSTANTS Files, RecordIds, Records

VARIABLES rows, safe, call

Without(m, rid) == [r \in DOMAIN m \ {rid} |-> m[r]]
With(m, rid, rec) == [r \in DOMAIN m \cup {rid} |-> IF r = rid THEN rec ELSE m[r]]

Idle == call = <<>>

Init ==
  /\ rows = [f \in Files |-> <<>>]
  /\ safe = [f \in Files |-> <<>>]
  /\ Idle

Begin(f, rec) ==
  /\ Idle /\ call' = <<f, rec>>
  /\ UNCHANGED <<rows, safe>>

Insert(rid) ==
  /\ ~Idle /\ Idle'
  /\ \A g \in Files : rid \notin DOMAIN rows[g]
  /\ rows' = [rows EXCEPT ![call[1]] = With(@, rid, call[2])]
  /\ UNCHANGED safe

Fail ==
  /\ ~Idle /\ Idle'
  /\ UNCHANGED <<rows, safe>>

Replace(f, rid, rec) ==
  /\ Idle /\ Idle'
  /\ rid \in DOMAIN rows[f]
  /\ rows' = [rows EXCEPT ![f] = With(@, rid, rec)]
  /\ safe' = [safe EXCEPT ![f] = Without(@, rid)]

\* Deleted for good, or to be inserted again under another id.
Remove(f, rid) ==
  /\ Idle /\ (Idle' \/ \E rec \in Records : call' = <<f, rec>>)
  /\ rid \in DOMAIN rows[f]
  /\ rows' = [rows EXCEPT ![f] = Without(@, rid)]
  /\ safe' = [safe EXCEPT ![f] = Without(@, rid)]

Persist ==
  /\ Idle /\ Idle'
  /\ safe' = rows
  /\ UNCHANGED rows

Restart ==
  /\ \A f \in Files : \A rid \in DOMAIN safe[f] :
        rid \in DOMAIN rows'[f] /\ rows'[f][rid] = safe[f][rid]
  /\ rows' = [f \in Files |-> rows'[f]]
  /\ Idle'
  /\ UNCHANGED safe

Next ==
  \/ \E f \in Files, rec \in Records : Begin(f, rec)
  \/ \E rid \in RecordIds : Insert(rid)
  \/ Fail
  \/ \E f \in Files, rid \in RecordIds, rec \in Records : Replace(f, rid, rec)
  \/ \E f \in Files, rid \in RecordIds : Remove(f, rid)
  \/ Persist
  \/ Restart

Spec == Init /\ [][Next]_<<rows, safe, call>>
=============================================================================
