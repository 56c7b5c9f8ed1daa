------------------------------ MODULE BPlusTree ------------------------------
(***************************************************************************)
(* The B+ tree of an index (index/bplus_tree.cpp, index/bplus_node.hpp):   *)
(* insertion with splits on the way down, deletion without merging, search *)
(* and range scan over the chain of leaves.  root is what the meta page    *)
(* holds.  entries is history: what was inserted and not deleted.          *)
(***************************************************************************)
EXTENDS Integers, Sequences, SequencesExt

CONSTANTS Keys,
          Rids,           \* bound: at most one entry per key and record id
          kLeafMaxKeys, kInternalMaxKeys,
          MaxNodes        \* bound: pages of the tree

ASSUME TreeAssumption ==
  /\ Keys \subseteq Int
  /\ kLeafMaxKeys \in Nat \ {0, 1}
  /\ kInternalMaxKeys \in Nat \ {0, 1}

VARIABLES nodes, root, entries

treeVars == <<nodes, root, entries>>

kInvalidPageId == -1
\* std::optional<Key>.
None == <<>>
OptionalKeys == {None} \cup {<<k>> : k \in Keys}

\* Leaf entries are <<key, rid>>; an internal node has one child more than
\* keys, and is not linked.
Leaf(es, next) == [leaf |-> TRUE, keys |-> es, kids |-> <<>>, next |-> next]
Internal(ks, kids) == [leaf |-> FALSE, keys |-> ks, kids |-> kids, next |-> kInvalidPageId]

Tree(ns, r) == [nodes |-> ns, root |-> r]
NewId(t) == Len(t.nodes) + 1

Full(node) ==
  IF node.leaf THEN Len(node.keys) >= kLeafMaxKeys ELSE Len(node.keys) >= kInternalMaxKeys

CountWhere(s, Test(_)) == Len(SelectSeq(s, Test))

\* The keys are in order, so the loop stops where the count says.
FindChildIndex(node, key) == CountWhere(node.keys, LAMBDA k : k <= key) + 1

FindLeafForKey(t, key) ==
  LET Down[p \in DOMAIN t.nodes] ==
        IF t.nodes[p].leaf THEN p
        ELSE Down[t.nodes[p].kids[FindChildIndex(t.nodes[p], key)]]
  IN  Down[t.root]

\* Mutant: a full leaf is always cut in the middle.
CutInMiddle(es) == Len(es) \div 2

\* Where a full leaf is cut: the place nearest to the middle at which the key
\* changes, on the right first; the middle if all keys are equal.
SplitPoint(es) ==
  LET mid == Len(es) \div 2
      changes == {i \in 1 .. Len(es) - 1 : es[i][1] # es[i + 1][1]}
      Tried(i) == IF i >= mid THEN 2 * (i - mid) ELSE 2 * (mid - i) - 1
  IN  IF changes = {} THEN mid
      ELSE CHOOSE i \in changes : \A j \in changes : Tried(i) <= Tried(j)

\* Mutant: the chain of leaves leaves out the new leaf.
SplitLeafUnlinked(node, right_id) ==
  LET mid == SplitPoint(node.keys)
  IN  [left |-> Leaf(SubSeq(node.keys, 1, mid), node.next),
       right |-> Leaf(SubSeq(node.keys, mid + 1, Len(node.keys)), node.next),
       separator |-> node.keys[mid + 1][1]]

SplitLeaf(node, right_id) ==
  LET mid == SplitPoint(node.keys)
  IN  [left |-> Leaf(SubSeq(node.keys, 1, mid), right_id),
       right |-> Leaf(SubSeq(node.keys, mid + 1, Len(node.keys)), node.next),
       separator |-> node.keys[mid + 1][1]]

\* Mutant: the key that goes up stays on the right as well.
SplitInternalKeepsKey(node) ==
  LET mid == Len(node.keys) \div 2
  IN  [left |-> Internal(SubSeq(node.keys, 1, mid), SubSeq(node.kids, 1, mid + 1)),
       right |-> Internal(SubSeq(node.keys, mid + 1, Len(node.keys)),
                          SubSeq(node.kids, mid + 1, Len(node.kids))),
       separator |-> node.keys[mid + 1]]

SplitInternal(node) ==
  LET mid == Len(node.keys) \div 2
  IN  [left |-> Internal(SubSeq(node.keys, 1, mid), SubSeq(node.kids, 1, mid + 1)),
       right |-> Internal(SubSeq(node.keys, mid + 2, Len(node.keys)),
                          SubSeq(node.kids, mid + 2, Len(node.kids))),
       separator |-> node.keys[mid + 1]]

InsertInternalKeyChildAt(node, i, key, child) ==
  [node EXCEPT !.keys = InsertAt(@, i, key), !.kids = InsertAt(@, i + 1, child)]

SplitChild(t, parent, i) ==
  LET child == t.nodes[parent].kids[i]
      cut == IF t.nodes[child].leaf
             THEN SplitLeaf(t.nodes[child], NewId(t))
             ELSE SplitInternal(t.nodes[child])
  IN  [t EXCEPT !.nodes = Append(
         [@ EXCEPT ![child] = cut.left,
                   ![parent] = InsertInternalKeyChildAt(@, i, cut.separator, NewId(t))],
         cut.right)]

InsertLeafEntry(node, key, rid) ==
  [node EXCEPT !.keys = InsertAt(@, CountWhere(@, LAMBDA e : e[1] < key) + 1, <<key, rid>>)]

RECURSIVE InsertNonFull(_, _, _, _)
InsertNonFull(t, p, key, rid) ==
  IF t.nodes[p].leaf
  THEN [t EXCEPT !.nodes[p] = InsertLeafEntry(@, key, rid)]
  ELSE LET i == FindChildIndex(t.nodes[p], key)
           split == IF Full(t.nodes[t.nodes[p].kids[i]]) THEN SplitChild(t, p, i) ELSE t
           node == split.nodes[p]
       IN  InsertNonFull(split, node.kids[FindChildIndex(node, key)], key, rid)

TreeInsert(t, key, rid) ==
  LET grown == SplitChild(Tree(Append(t.nodes, Internal(<<>>, <<t.root>>)), NewId(t)), NewId(t), 1)
      ready == IF Full(t.nodes[t.root]) THEN grown ELSE t
  IN  InsertNonFull(ready, ready.root, key, rid)

\* The leaves from p on, in the order of the chain.
ChainFrom(t, p) ==
  LET Walk[q \in DOMAIN t.nodes] ==
        IF t.nodes[q].next = kInvalidPageId THEN <<q>> ELSE <<q>> \o Walk[t.nodes[q].next]
  IN  Walk[p]

\* What a walk along the chain sees before Stops ends it.
SeenUntil(t, p, Stops(_)) ==
  LET es == FlattenSeq([i \in DOMAIN ChainFrom(t, p) |-> t.nodes[ChainFrom(t, p)[i]].keys])
      stops == {i \in DOMAIN es : Stops(es[i])}
  IN  IF stops = {} THEN es ELSE SubSeq(es, 1, (CHOOSE i \in stops : \A j \in stops : i <= j) - 1)

SearchEqual(t, key) ==
  SelectSeq(SeenUntil(t, FindLeafForKey(t, key), LAMBDA e : e[1] > key), LAMBDA e : e[1] = key)

FirstLeaf(t) ==
  LET Down[p \in DOMAIN t.nodes] == IF t.nodes[p].leaf THEN p ELSE Down[t.nodes[p].kids[1]]
  IN  Down[t.root]

BelowLow(k, low, inclusive) == low # None /\ (k < low[1] \/ (~inclusive /\ k = low[1]))
AboveHigh(k, high, inclusive) == high # None /\ (k > high[1] \/ (~inclusive /\ k = high[1]))

RangeScan(t, low, low_inclusive, high, high_inclusive) ==
  LET from == IF low = None THEN FirstLeaf(t) ELSE FindLeafForKey(t, low[1])
  IN  SelectSeq(
        SeenUntil(t, from, LAMBDA e : /\ ~BelowLow(e[1], low, low_inclusive)
                                      /\ AboveHigh(e[1], high, high_inclusive)),
        LAMBDA e : ~BelowLow(e[1], low, low_inclusive))

\* Delete looks for the entry from the leaf of its key to the first larger key.
TreeDelete(t, key, rid) ==
  LET chain == ChainFrom(t, FindLeafForKey(t, key))
      seen == SeenUntil(t, chain[1], LAMBDA e : e[1] > key)
      Holds(p) == Contains(t.nodes[p].keys, <<key, rid>>)
      at == SelectSeq(chain, Holds)[1]
  IN  IF Contains(seen, <<key, rid>>)
      THEN [t EXCEPT !.nodes[at].keys = RemoveFirst(@, <<key, rid>>)]
      ELSE t
-----------------------------------------------------------------------------
tree == Tree(nodes, root)

Init ==
  /\ nodes = <<Leaf(<<>>, kInvalidPageId)>>
  /\ root = 1
  /\ entries = {}

Insert(key, rid) ==
  /\ <<key, rid>> \notin entries
  /\ LET t == TreeInsert(tree, key, rid)
     IN  /\ Len(t.nodes) <= MaxNodes
         /\ nodes' = t.nodes
         /\ root' = t.root
  /\ entries' = entries \cup {<<key, rid>>}

Delete(key, rid) ==
  /\ <<key, rid>> \in entries
  /\ nodes' = TreeDelete(tree, key, rid).nodes
  /\ UNCHANGED root
  /\ entries' = entries \ {<<key, rid>>}

Next ==
  \E key \in Keys, rid \in Rids : Insert(key, rid) \/ Delete(key, rid)

Spec == Init /\ [][Next]_treeVars
-----------------------------------------------------------------------------
\* Type invariant.
TypeOK ==
  /\ root \in DOMAIN nodes
  /\ entries \subseteq Keys \X Rids
  /\ \A p \in DOMAIN nodes :
        LET node == nodes[p]
        IN  IF node.leaf
            THEN /\ node.keys \in Seq(Keys \X Rids)
                 /\ node.next \in {kInvalidPageId} \cup DOMAIN nodes
            ELSE /\ node.keys \in Seq(Keys) /\ node.kids \in Seq(DOMAIN nodes)

LeavesUnder(p) ==
  LET Under[q \in DOMAIN nodes] ==
        IF nodes[q].leaf THEN <<q>>
        ELSE FlattenSeq([i \in DOMAIN nodes[q].kids |-> Under[nodes[q].kids[i]]])
  IN  Under[p]

Depths(p) ==
  LET D[q \in DOMAIN nodes] ==
        IF nodes[q].leaf THEN {0} ELSE {d + 1 : d \in UNION {D[nodes[q].kids[i]] : i \in DOMAIN nodes[q].kids}}
  IN  D[p]

InOrder(s) == \A i, j \in DOMAIN s : i < j => s[i][1] <= s[j][1]

\* No node outgrows its page, the tree is balanced, the chain of leaves is the
\* leaves of the tree from left to right, and every entry lies between the
\* separators above it: so do splits of leaves and internal nodes on the way
\* down, up to a new root, and deletions that leave leaves empty leave it
\* (bplus_tree.cpp:67-214).
TreeShape ==
  /\ \A p \in DOMAIN nodes :
        LET node == nodes[p]
        IN  IF node.leaf THEN Len(node.keys) <= kLeafMaxKeys
            ELSE Len(node.keys) <= kInternalMaxKeys /\ Len(node.kids) = Len(node.keys) + 1
  /\ \E d \in 0 .. MaxNodes : Depths(root) = {d}
  /\ ChainFrom(tree, FirstLeaf(tree)) = LeavesUnder(root)
  /\ \A p \in DOMAIN nodes : nodes[p].leaf => InOrder(nodes[p].keys)
  /\ \A p \in DOMAIN nodes : ~nodes[p].leaf =>
        \A i \in DOMAIN nodes[p].kids : \A q \in ToSet(LeavesUnder(nodes[p].kids[i])) :
           \A e \in ToSet(nodes[q].keys) :
              /\ i > 1 => nodes[p].keys[i - 1] <= e[1]
              /\ i <= Len(nodes[p].keys) => e[1] < nodes[p].keys[i]

\* SearchEqual returns each record id entered under the key and not deleted,
\* once, whatever splits and deletions came before (bplus_tree.cpp:216-245);
\* so Delete finds every entry it is asked for (186-214).
SearchExact ==
  \A key \in Keys :
     LET found == SearchEqual(tree, key)
     IN  /\ ToSet(found) = {e \in entries : e[1] = key}
         /\ IsInjective(found)

Found(found, low, li, high, hi) ==
  /\ ToSet(found) = {e \in entries : ~BelowLow(e[1], low, li) /\ ~AboveHigh(e[1], high, hi)}
  /\ IsInjective(found)
  /\ InOrder(found)

\* RangeScan returns exactly the entries on one side of a bound, which is all
\* the executor asks for, each once and in the order of their keys
\* (bplus_tree.cpp:247-293).
RangeExact ==
  \A bound \in OptionalKeys, inclusive \in BOOLEAN :
     /\ Found(RangeScan(tree, bound, inclusive, None, TRUE), bound, inclusive, None, TRUE)
     /\ Found(RangeScan(tree, None, TRUE, bound, inclusive), None, TRUE, bound, inclusive)
=============================================================================
