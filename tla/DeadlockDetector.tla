--------------------------- MODULE DeadlockDetector ---------------------------
(***************************************************************************)
(* LockManager::DetectDeadlock (src/transaction/lock_manager.cpp): a       *)
(* depth-first search of a wait-for graph in three colours.  The graph is  *)
(* the caller's; its keys and the neighbours of a node are walked in the   *)
(* order of a hash table, which is unspecified, so every order is allowed. *)
(*                                                                         *)
(* The recursion of `visit' is the sequence `stack', which the code also   *)
(* keeps, with the neighbours each call still has to look at.              *)
(***************************************************************************)
EXTENDS Integers, Lists

CONSTANT Nodes  \* transaction ids

VARIABLES
  edges,   \* wait_for_graph; a node that is not a key waits for nobody
  roots,   \* keys of the graph the outer loop has yet to look at
  color,   \* color; "white" for a node not in the map
  stack,   \* stack: the nodes of the calls of visit in progress
  todo,    \* todo[i]: neighbours of stack[i] its loop has yet to look at
  result,  \* "running", then "deadlock" or "none"
  cycle    \* *cycle_out

detectVars == <<edges, roots, color, stack, todo, result, cycle>>

DetectTypeOK ==
  /\ edges \in [Nodes -> SUBSET Nodes]
  /\ roots \subseteq Nodes
  /\ color \in [Nodes -> {"white", "gray", "black"}]
  /\ stack \in Seq(Nodes)
  /\ \A n \in Nodes : color[n] = "gray" <=> n \in Range(stack)
  /\ todo \in Seq(SUBSET Nodes) /\ Len(todo) = Len(stack)
  /\ result \in {"running", "deadlock", "none"}
  /\ cycle \in Seq(Nodes)

DetectInit ==
  /\ edges \in [Nodes -> SUBSET Nodes]
  /\ \E keys \in SUBSET Nodes :
       /\ \A n \in Nodes \ keys : edges[n] = {}
       /\ roots = keys
  /\ color = [n \in Nodes |-> "white"]
  /\ stack = <<>>
  /\ todo = <<>>
  /\ result = "running"
  /\ cycle = <<>>

\* A call of visit begins.
Enter(n) ==
  /\ color' = [color EXCEPT ![n] = "gray"]
  /\ stack' = Append(stack, n)

\* The outer loop looks at its next key.
NextRoot(n) ==
  /\ result = "running" /\ stack = <<>>
  /\ n \in roots
  /\ roots' = roots \ {n}
  /\ IF color[n] = "white"
     THEN Enter(n) /\ todo' = <<edges[n]>>
     ELSE UNCHANGED <<color, stack, todo>>
  /\ UNCHANGED <<edges, result, cycle>>

\* Mutant: only the node the search began with closes a cycle.
ClosesAtRoot(n) == n = Head(stack)

\* The neighbour is on the stack.
ClosesCycle(n) == color[n] = "gray"

\* The part of the stack from the neighbour on.
CycleFrom(n) == SubSeq(stack, IndexOf(stack, n), Len(stack))

\* Mutant: the loop does not move on.
SameNeighbor(n) == todo

OtherNeighbors(n) == [todo EXCEPT ![Len(todo)] = @ \ {n}]

\* visit looks at the next neighbour of the node on top of the stack.
NextNeighbor(n) ==
  /\ result = "running" /\ stack # <<>>
  /\ n \in Last(todo)
  /\ IF ClosesCycle(n)
     THEN /\ result' = "deadlock"
          /\ cycle' = CycleFrom(n)
          /\ UNCHANGED <<color, stack, todo>>
     ELSE /\ IF color[n] = "white"
             THEN Enter(n) /\ todo' = Append(OtherNeighbors(n), edges[n])
             ELSE todo' = OtherNeighbors(n) /\ UNCHANGED <<color, stack>>
          /\ UNCHANGED <<result, cycle>>
  /\ UNCHANGED <<edges, roots>>

\* visit has looked at every neighbour and returns false.
Leave ==
  /\ result = "running" /\ stack # <<>>
  /\ Last(todo) = {}
  /\ color' = [color EXCEPT ![Last(stack)] = "black"]
  /\ stack' = Front(stack)
  /\ todo' = Front(todo)
  /\ UNCHANGED <<edges, roots, result, cycle>>

Finish ==
  /\ result = "running" /\ stack = <<>> /\ roots = {}
  /\ result' = "none"
  /\ UNCHANGED <<edges, roots, color, stack, todo, cycle>>

DetectNext ==
  \/ \E n \in Nodes : NextRoot(n) \/ NextNeighbor(n)
  \/ Leave
  \/ Finish

DetectSpec == DetectInit /\ [][DetectNext]_detectVars

\* The call runs on its own thread's time: its loops go on.
DetectFairSpec == DetectSpec /\ WF_detectVars(DetectNext)
-----------------------------------------------------------------------------
\* Some transactions wait for each other: a set of them, each of which waits
\* for another of the set.  In a finite graph that is a cycle.
Deadlocked ==
  \E S \in (SUBSET Nodes) \ {{}} : \A n \in S : edges[n] \cap S # {}

\* The answer is right whatever the graph and the order of the walk, and the
\* cycle reported is one: each transaction in it waits for the next, the last
\* for the first, and none is named twice (lock_manager.cpp:77-115).
DetectsExactlyDeadlocks ==
  /\ result = "none" => ~Deadlocked
  /\ result = "deadlock" =>
       /\ cycle # <<>>
       /\ IsInjective(cycle)
       /\ \A i \in 1..Len(cycle) :
            cycle[IF i = Len(cycle) THEN 1 ELSE i + 1] \in edges[cycle[i]]

\* The search ends on every graph.
SearchEnds == <>(result # "running")
=============================================================================
