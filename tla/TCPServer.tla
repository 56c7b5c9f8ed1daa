------------------------------ MODULE TCPServer ------------------------------
(***************************************************************************)
(* The TCP server (network/tcp_server.cpp, network/protocol.cpp,           *)
(* network/server_main.cpp): an accept thread, one thread per connection,  *)
(* one mutex around the executor, and the main thread, which stops the     *)
(* server and then flushes the database.                                   *)
(*                                                                         *)
(* A request frame arrives in two parts, a response fills one place of the *)
(* socket's buffer.  Execute reads the database and writes it back, in two *)
(* steps, so that statements that overlap show; executed is history.       *)
(***************************************************************************)
EXTENDS Integers, Sequences

CONSTANTS Clients,
          Free,         \* nobody holds the mutex
          BufferSize,   \* responses the socket's buffer takes
          MaxRequests   \* bound: MaxRequests[c] requests of client c

ASSUME ServerAssumption ==
  /\ Free \notin Clients
  /\ BufferSize \in Nat \ {0}
  /\ MaxRequests \in [Clients -> Nat]

VARIABLES running, main_pc, accept_pc, incoming, threads, threads_locked,
          pc, exec_mutex, request, copy, db, executed, flushed, alive,
          open, inbox, outbox, sent, answered

mainVars == <<running, main_pc, flushed>>
acceptVars == <<accept_pc, incoming, threads>>
threadVars == <<pc, exec_mutex, request, copy, db, executed>>
clientVars == <<open, inbox, outbox, sent, answered>>
serverVars == <<mainVars, acceptVars, threads_locked, threadVars, alive, clientVars>>

Statements == {"syntax error", "fails", "succeeds"}
Part == "part"

ServerInit ==
  /\ running = FALSE /\ main_pc = "start" /\ flushed = 0
  /\ accept_pc = "off" /\ incoming = Free /\ threads = {} /\ threads_locked = FALSE
  /\ pc = [c \in Clients |-> "none"]
  /\ exec_mutex = Free
  /\ request = [c \in Clients |-> Part]
  /\ copy = [c \in Clients |-> 0]
  /\ db = 0 /\ executed = 0
  /\ alive = TRUE
  /\ open = [c \in Clients |-> FALSE]
  /\ inbox = [c \in Clients |-> <<>>]
  /\ outbox = [c \in Clients |-> 0]
  /\ sent = [c \in Clients |-> 0]
  /\ answered = [c \in Clients |-> 0]
-----------------------------------------------------------------------------
(* The main thread. *)

\* Start: socket, bind or listen may fail, and the process ends.
Start ==
  /\ main_pc = "start"
  /\ \/ running' = TRUE /\ main_pc' = "serving" /\ accept_pc' = "check"
     \/ main_pc' = "failed" /\ UNCHANGED <<running, accept_pc>>
  /\ UNCHANGED <<incoming, threads, threads_locked, flushed, threadVars, alive, clientVars>>

\* A signal; Stop.
Stop ==
  /\ main_pc = "serving"
  /\ running' = FALSE
  /\ main_pc' = "join accept"
  /\ UNCHANGED <<flushed, acceptVars, threads_locked, threadVars, alive, clientVars>>

\* Mutant: Stop does not wait for the accept thread.
AcceptAbandoned == TRUE

AcceptJoined == accept_pc = "exited"

\* Closing the listening socket resets the connections nobody accepted.
JoinAccept ==
  /\ main_pc = "join accept"
  /\ AcceptJoined
  /\ open' = [c \in Clients |-> open[c] /\ pc[c] # "backlog"]
  /\ threads_locked' = TRUE
  /\ main_pc' = "join threads"
  /\ UNCHANGED <<running, flushed, acceptVars, threadVars, alive, inbox, outbox, sent, answered>>

JoinThreads ==
  /\ main_pc = "join threads"
  /\ \A c \in threads : pc[c] = "done"
  /\ threads' = {}
  /\ threads_locked' = FALSE
  /\ main_pc' = "stopped"
  /\ UNCHANGED <<running, flushed, accept_pc, incoming, threadVars, alive, clientVars>>

FlushAll ==
  /\ main_pc = "stopped"
  /\ flushed' = db
  /\ main_pc' = "exited"
  /\ UNCHANGED <<running, acceptVars, threads_locked, threadVars, alive, clientVars>>
-----------------------------------------------------------------------------
(* The accept thread. *)

AcceptCheck ==
  /\ accept_pc = "check"
  /\ accept_pc' = IF running THEN "poll" ELSE "exited"
  /\ UNCHANGED <<mainVars, incoming, threads, threads_locked, threadVars, alive, clientVars>>

Waiting == {c \in Clients : pc[c] = "backlog"}

\* WaitReadable on the listening socket, and accept.
Accept ==
  /\ accept_pc = "poll"
  /\ \/ \E c \in Waiting :
           /\ incoming' = c
           /\ accept_pc' = "spawn"
           /\ pc' = [pc EXCEPT ![c] = "accepted"]
     \/ /\ Waiting = {}
        /\ accept_pc' = "check"
        /\ UNCHANGED <<incoming, pc>>
  /\ UNCHANGED <<mainVars, threads, threads_locked, exec_mutex, request, copy, db, executed,
                 alive, clientVars>>

Spawn ==
  /\ accept_pc = "spawn"
  /\ ~threads_locked
  /\ threads' = threads \cup {incoming}
  /\ pc' = [pc EXCEPT ![incoming] = "check"]
  /\ incoming' = Free
  /\ accept_pc' = "check"
  /\ UNCHANGED <<mainVars, threads_locked, exec_mutex, request, copy, db, executed,
                 alive, clientVars>>
-----------------------------------------------------------------------------
(* HandleConnection. *)

Goto(c, l) == pc' = [pc EXCEPT ![c] = l]

\* Mutant: the loop of a connection ends with its client only.
ServesOn == TRUE

StillRunning == running

\* The thread leaves its loop and closes the socket.
Hangup(c) == Goto(c, "done") /\ open' = [open EXCEPT ![c] = FALSE]

Check(c) ==
  /\ pc[c] = "check"
  /\ IF StillRunning THEN Goto(c, "poll") /\ UNCHANGED open ELSE Hangup(c)
  /\ UNCHANGED <<mainVars, acceptVars, threads_locked, exec_mutex, request, copy, db, executed,
                 alive, inbox, outbox, sent, answered>>

\* The end of the stream makes a socket readable too.
Poll(c) ==
  /\ pc[c] = "poll"
  /\ Goto(c, IF inbox[c] # <<>> \/ ~open[c] THEN "read" ELSE "check")
  /\ UNCHANGED <<mainVars, acceptVars, threads_locked, exec_mutex, request, copy, db, executed,
                 alive, clientVars>>

Complete(c) == inbox[c] # <<>> /\ Head(inbox[c]) # Part

\* ReadFrame waits for the rest of a frame, and fails at the end of the stream.
Read(c) ==
  /\ pc[c] = "read"
  /\ \/ /\ Complete(c)
        /\ request' = [request EXCEPT ![c] = Head(inbox[c])]
        /\ inbox' = [inbox EXCEPT ![c] = Tail(@)]
        /\ Goto(c, IF Head(inbox[c]) = "syntax error" THEN "reply" ELSE "lock")
        /\ UNCHANGED open
     \/ /\ ~Complete(c) /\ ~open[c]
        /\ Hangup(c)
        /\ UNCHANGED <<request, inbox>>
  /\ UNCHANGED <<mainVars, acceptVars, threads_locked, exec_mutex, copy, db, executed, alive,
                 outbox, sent, answered>>

\* Mutant: the executor is entered without the mutex.
MayEnterAlways == TRUE

MayEnter == exec_mutex = Free

Lock(c) ==
  /\ pc[c] = "lock"
  /\ MayEnter
  /\ exec_mutex' = c
  /\ copy' = [copy EXCEPT ![c] = db]
  /\ Goto(c, "execute")
  /\ UNCHANGED <<mainVars, acceptVars, threads_locked, request, db, executed, alive, clientVars>>

\* A statement that fails is answered before the mutex is released.
Execute(c) ==
  /\ pc[c] = "execute"
  /\ db' = copy[c] + 1
  /\ executed' = executed + 1
  /\ copy' = [copy EXCEPT ![c] = 0]
  /\ IF request[c] = "fails"
     THEN Goto(c, "reply locked") /\ UNCHANGED exec_mutex
     ELSE Goto(c, "reply") /\ exec_mutex' = Free
  /\ UNCHANGED <<mainVars, acceptVars, threads_locked, request, alive, clientVars>>

\* Mutant: an early continue that keeps the mutex.
MutexKept(c) == exec_mutex

\* The lock_guard goes out of scope.
MutexAfter(c) == IF exec_mutex = c THEN Free ELSE exec_mutex

HasRoom(c) == outbox[c] < BufferSize

\* WriteResponse; its status is not looked at.
Reply(c) ==
  /\ pc[c] \in {"reply", "reply locked"}
  /\ \/ /\ open[c]
        /\ HasRoom(c)
        /\ outbox' = [outbox EXCEPT ![c] = @ + 1]
        /\ answered' = [answered EXCEPT ![c] = @ + 1]
     \/ /\ ~open[c]
        /\ UNCHANGED <<outbox, answered>>
  /\ exec_mutex' = MutexAfter(c)
  /\ request' = [request EXCEPT ![c] = Part]
  /\ Goto(c, "check")
  /\ UNCHANGED <<mainVars, acceptVars, threads_locked, copy, db, executed, alive,
                 open, inbox, sent>>

\* send without MSG_NOSIGNAL to a peer that is gone.
BrokenPipe(c) ==
  /\ pc[c] \in {"reply", "reply locked"}
  /\ ~open[c]
  /\ alive' = FALSE
  /\ UNCHANGED <<mainVars, acceptVars, threads_locked, threadVars, clientVars>>
-----------------------------------------------------------------------------
(* The clients. *)

Connect(c) ==
  /\ main_pc \in {"serving", "join accept"}
  /\ pc[c] = "none"
  /\ pc' = [pc EXCEPT ![c] = "backlog"]
  /\ open' = [open EXCEPT ![c] = TRUE]
  /\ UNCHANGED <<mainVars, acceptVars, threads_locked, exec_mutex, request, copy, db, executed,
                 alive, inbox, outbox, sent, answered>>

HasBegun(c) == inbox[c] # <<>> /\ inbox[c][Len(inbox[c])] = Part

BeginFrame(c) ==
  /\ open[c]
  /\ sent[c] < MaxRequests[c]
  /\ ~HasBegun(c)
  /\ inbox' = [inbox EXCEPT ![c] = Append(@, Part)]
  /\ UNCHANGED <<mainVars, acceptVars, threads_locked, threadVars, alive, open, outbox, sent, answered>>

EndFrame(c, stmt) ==
  /\ open[c]
  /\ HasBegun(c)
  /\ inbox' = [inbox EXCEPT ![c][Len(inbox[c])] = stmt]
  /\ sent' = [sent EXCEPT ![c] = @ + 1]
  /\ UNCHANGED <<mainVars, acceptVars, threads_locked, threadVars, alive, open, outbox, answered>>

ReadAnswer(c) ==
  /\ open[c]
  /\ outbox[c] > 0
  /\ outbox' = [outbox EXCEPT ![c] = @ - 1]
  /\ UNCHANGED <<mainVars, acceptVars, threads_locked, threadVars, alive, open, inbox, sent, answered>>

Disconnect(c) ==
  /\ open[c]
  /\ open' = [open EXCEPT ![c] = FALSE]
  /\ outbox' = [outbox EXCEPT ![c] = 0]
  /\ UNCHANGED <<mainVars, acceptVars, threads_locked, threadVars, alive, inbox, sent, answered>>
-----------------------------------------------------------------------------
MainStep == JoinAccept \/ JoinThreads \/ FlushAll
AcceptStep == AcceptCheck \/ Accept \/ Spawn
ThreadStep(c) == Check(c) \/ Poll(c) \/ Read(c) \/ Lock(c) \/ Execute(c) \/ Reply(c)
ClientGoesOn(c) == ReadAnswer(c) \/ \E stmt \in Statements : EndFrame(c, stmt)

ServerNext ==
  /\ alive
  /\ \/ Start \/ Stop \/ MainStep
     \/ AcceptStep
     \/ \E c \in Clients : \/ ThreadStep(c) \/ BrokenPipe(c)
                           \/ Connect(c) \/ BeginFrame(c) \/ ClientGoesOn(c) \/ Disconnect(c)

Safety == ServerInit /\ [][ServerNext]_serverVars

\* Threads that can run are scheduled.  A client that has begun a frame ends
\* it or closes, and one that has an answer reads it or closes; nothing makes
\* a client send, close, or the operator stop the server.
Fairness ==
  /\ WF_serverVars(alive /\ MainStep)
  /\ WF_serverVars(alive /\ AcceptStep)
  /\ \A c \in Clients : /\ WF_serverVars(alive /\ ThreadStep(c))
                        /\ WF_serverVars(alive /\ ClientGoesOn(c))

ServerSpec == Safety /\ Fairness
-----------------------------------------------------------------------------
Labels == {"none", "backlog", "accepted", "check", "poll", "read", "lock", "execute",
           "reply", "reply locked", "done"}

\* Type invariant.
ServerTypeOK ==
  /\ running \in BOOLEAN /\ alive \in BOOLEAN /\ threads_locked \in BOOLEAN
  /\ main_pc \in {"start", "failed", "serving", "join accept", "join threads", "stopped", "exited"}
  /\ accept_pc \in {"off", "check", "poll", "spawn", "exited"}
  /\ incoming \in Clients \cup {Free} /\ exec_mutex \in Clients \cup {Free}
  /\ threads \subseteq Clients
  /\ pc \in [Clients -> Labels]
  /\ request \in [Clients -> Statements \cup {Part}]
  /\ copy \in [Clients -> Nat] /\ db \in Nat /\ executed \in Nat /\ flushed \in Nat
  /\ open \in [Clients -> BOOLEAN]
  /\ inbox \in [Clients -> Seq(Statements \cup {Part})]
  /\ outbox \in [Clients -> 0 .. BufferSize]
  /\ sent \in [Clients -> Nat] /\ answered \in [Clients -> Nat]

\* Statements of different connections do not overlap: none works on a state
\* of the database that another one has changed since, whatever the order in
\* which threads take exec_mutex_ and answer, with it or without it
\* (tcp_server.cpp:84-95).
NoStatementLost == db = executed

\* What the main thread flushes after Stop (server_main.cpp:39-40) is the
\* database after the last statement: no connection thread, one accepted while
\* Stop ran included, executes anything after Stop has returned
\* (tcp_server.cpp:100-116).
NothingAfterStop ==
  /\ main_pc \in {"stopped", "exited"} => \A c \in Clients : pc[c] \in {"none", "backlog", "done"}
  /\ main_pc = "exited" => flushed = db

\* A request that was sent in full is answered while the server runs and the
\* client stays connected and reads: no thread waits for good for exec_mutex_
\* or in its poll loop, and an error response frees the mutex
\* (tcp_server.cpp:71-96).
RequestsAreAnswered ==
  \A c \in Clients :
     sent[c] > answered[c] ~> sent[c] = answered[c] \/ ~running \/ ~open[c] \/ ~alive

\* Stop returns, and the database is flushed, if the process is not killed by
\* a response to a client that is gone (tcp_server.cpp:100-116).
StopReturns == main_pc = "join accept" ~> main_pc = "exited" \/ ~alive
=============================================================================
