--------------------------------- MODULE WAL ---------------------------------
(***************************************************************************)
(* The write-ahead log (src/recovery/wal_manager.cpp): records behind a    *)
(* length prefix, appended and flushed one at a time under mutex_.         *)
(*                                                                         *)
(* A record of which only a part was written is noticed by ReadAll if its  *)
(* length prefix is complete, and otherwise taken for the end of the file. *)
(* Nothing ever removes such a part.  Whatever is appended behind it is    *)
(* read out of step with the prefixes, for good, and what ReadAll makes of *)
(* it is up to the bytes: Corruption ("mixed"), or records that nobody     *)
(* appended in the place of those that somebody did ("garbled").           *)
(***************************************************************************)
EXTENDS Integers, Sequences

CONSTANTS
  MaxLog,  \* bound on the records appended
  Faults   \* of "cut": a crash may cut an append short; "stream": a write to
           \* the log may fail; "power": a power failure may undo writes that
           \* were flushed to the system but not synced to the disk

ASSUME WALAssumption ==
  /\ MaxLog \in Nat
  /\ Faults \subseteq {"cut", "stream", "power"}

VARIABLES
  open,         \* the process that has the log open runs
  log,          \* the complete records at the front of the file
  tail,         \* what follows them: "none", "prefix", "body", "mixed" or "garbled"
  next_lsn,     \* next_lsn_
  stream_good,  \* file_.good()
  lsns,         \* history: the LSNs returned to callers, in order
  lost          \* history: a write to the log, or the power, has failed

walVars == <<open, log, tail, next_lsn, stream_good, lsns, lost>>

kInvalidLsn == 0

WALInit ==
  /\ open = FALSE
  /\ log = <<>>
  /\ tail = "none"
  /\ next_lsn = 1
  /\ stream_good = TRUE
  /\ lsns = <<>>
  /\ lost = FALSE

\* ReadAll returns the complete records and nothing else.
InStep == tail \in {"none", "prefix"}

\* ReadAll returns OK; its value is `log' if InStep.
ReadAllOk == InStep \/ tail = "garbled"

\* Mutant: numbering goes on with the last LSN in the log.
LsnOfLast == IF InStep /\ log # <<>> THEN log[Len(log)].lsn ELSE 1

\* Numbering goes on behind the last record that ReadAll returns, and starts
\* again when ReadAll returns an error.
LsnAfterReopen == IF InStep /\ log # <<>> THEN log[Len(log)].lsn + 1 ELSE 1

\* Of the LSNs a misread record may have, one below and one above all others.
MisreadLsns == {1, MaxLog + 1}

\* Mutant: the log is created anew.
OpenTruncates ==
  /\ ~open
  /\ open' = TRUE
  /\ next_lsn' = 1
  /\ stream_good' = TRUE
  /\ log' = <<>>
  /\ UNCHANGED <<tail, lsns, lost>>

\* The constructor.
OpenLog ==
  /\ ~open
  /\ open' = TRUE
  /\ next_lsn' \in IF tail = "garbled" THEN MisreadLsns ELSE {LsnAfterReopen}
  /\ stream_good' = TRUE
  /\ UNCHANGED <<log, tail, lsns, lost>>

\* What lies behind the complete records once `part' is written at the end.
TailsWith(part) == IF tail = "none" THEN {part} ELSE {"mixed", "garbled"}

\* A record that is written whole.
WriteRecord(r) ==
  /\ log' = IF tail = "none" THEN Append(log, [r EXCEPT !.lsn = next_lsn]) ELSE log
  /\ tail' \in TailsWith("none")

\* A record of which nothing or a part is written.
WritePart ==
  /\ tail' \in {tail} \cup TailsWith("prefix") \cup TailsWith("body")
  /\ UNCHANGED log

\* AppendRecord(r).  The state of the stream is not looked at: the LSN is
\* returned, and counted, whether or not the record is in the file.
AppendRecord(r) ==
  /\ open
  /\ Len(lsns) < MaxLog
  /\ lsns' = Append(lsns, next_lsn)
  /\ next_lsn' = next_lsn + 1
  /\ \/ /\ stream_good
        /\ WriteRecord(r)
        /\ UNCHANGED <<stream_good, lost>>
     \/ /\ stream_good /\ "stream" \in Faults
        /\ WritePart
        /\ stream_good' = FALSE
        /\ lost' = TRUE
     \/ /\ ~stream_good
        /\ UNCHANGED <<log, tail, stream_good, lost>>
  /\ UNCHANGED open

\* The process exits, or dies between two appends.
CloseLog ==
  /\ open
  /\ open' = FALSE
  /\ UNCHANGED <<log, tail, next_lsn, stream_good, lsns, lost>>

\* The process dies inside AppendRecord before the record is complete.  (If it
\* dies later, that is AppendRecord and then CloseLog.)
CutAppend ==
  /\ open /\ stream_good
  /\ "cut" \in Faults
  /\ open' = FALSE
  /\ WritePart
  /\ UNCHANGED <<next_lsn, stream_good, lsns, lost>>

\* The machine loses power.  file_.flush() has handed the records to the
\* operating system and no more, so the end of the file may be gone.
PowerFailure ==
  /\ open
  /\ "power" \in Faults
  /\ open' = FALSE
  /\ \E n \in 0..Len(log) :
       /\ log' = SubSeq(log, 1, n)
       /\ tail' \in IF n = Len(log) THEN {tail} ELSE {"none", "prefix", "body"}
  /\ lost' = TRUE
  /\ UNCHANGED <<next_lsn, stream_good, lsns>>

\* The log by itself, whatever its records say.
AnyRecord == [lsn |-> kInvalidLsn]

WALNext ==
  \/ OpenLog
  \/ AppendRecord(AnyRecord)
  \/ CloseLog
  \/ CutAppend
  \/ PowerFailure

WALSpec == WALInit /\ [][WALNext]_walVars
-----------------------------------------------------------------------------
WALTypeOK ==
  /\ open \in BOOLEAN
  /\ \A i \in 1..Len(log) : log[i].lsn \in 1..MaxLog
  /\ tail \in {"none", "prefix", "body", "mixed", "garbled"}
  /\ next_lsn \in 1..2 * MaxLog + 1
  /\ stream_good \in BOOLEAN
  /\ lsns \in Seq(1..2 * MaxLog)
  /\ lost \in BOOLEAN

\* The records at the front of the log are numbered upwards and, as long as
\* ReadAll returns them alone, the next number is above them all, whatever
\* failed before: numbers may be skipped or, once their records are lost,
\* used again, but never for two records in the log.
LogInOrder ==
  /\ \A i, j \in 1..Len(log) : i < j => log[i].lsn < log[j].lsn
  /\ open /\ InStep => \A i \in 1..Len(log) : log[i].lsn < next_lsn

LsnsRead == [i \in 1..Len(log) |-> log[i].lsn]

\* As long as no write and no power failed and nothing was appended behind a
\* record that a crash cut short, the log has every record whose LSN was
\* returned, in order, and no other: through any number of restarts, a crash
\* in the middle of an append leaves a log that is refused or has all of them
\* (wal_manager.cpp:12-61, 98-136).
CompleteUntilMisread ==
  InStep /\ ~lost => LsnsRead = lsns
=============================================================================
