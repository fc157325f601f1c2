------------------------------ MODULE BPlusTree ------------------------------
(***************************************************************************)
(* The B+ tree of BPlusTreeHybrid with its reader-writer locks: threads    *)
(* descend hand over hand, an insert splits full nodes and a delete fills  *)
(* meagre ones on the way down, so that nobody has to go up again.         *)
(*                                                                         *)
(* A step begins where a thread gets a lock and ends before the next one   *)
(* it waits for: what it reads and writes in between is locked, and locks  *)
(* are released early only after the last use.  Data items are their keys, *)
(* the short lock of the index header is part of the step around it, and a *)
(* pointer is the id of a node.  A scenario says how a tree is built, how  *)
(* much memory and how many keys it may have, and what threads then do.    *)
(***************************************************************************)
EXTENDS Integers, Sequences, SequencesExt, FiniteSets, FiniteSetsExt, TLC

CONSTANTS Threads,     \* threads that use the tree
          Keys,        \* keys, positive numbers
          Order,       \* llOrder: children a key node has at most
          MaxRetries,  \* MAX_RETRIES
          Scenarios    \* [load, first, calls, nodes, items]: the calls of one thread alone, then
                       \* of each thread at once, nodes that fit the memory, stMaxDataCnt

MinKeys == (Order - 1) \div 2

\* BPCreateTree makes the order even; below 4 a node could lose its last key.
ASSUME TreeAssumption ==
  /\ Keys \subseteq Nat \ {0}
  /\ Order \in Nat /\ Order >= 4 /\ Order % 2 = 0
  /\ MaxRetries \in Nat \ {0}
  /\ \A s \in Scenarios : s.items \in Nat /\ s.nodes \in Nat \ {0} /\ \A c \in Range(s.load) \cup UNION {s.calls[t] : t \in Threads} :
       c.key \in Keys \cup {0}

VARIABLES node,      \* the nodes in memory, a function on their ids
          root,      \* pRootNode
          depth,     \* stIdxDepth
          count,     \* stDataCnt
          shared,    \* per thread the locks it holds for reading
          excl,      \* per thread the locks it holds for writing
          pc,        \* per thread what it does next
          my,        \* per thread its local variables
          call,      \* per thread its call; the key of a scan is the last one delivered
          out,       \* per thread the answer
          owed,      \* history: the keys a scan has to deliver
          scene,     \* the scenario
          loaded     \* how many calls of its load have returned

vars == <<node, root, depth, count, shared, excl, pc, my, call, out, owed, scene, loaded>>
tree == <<node, root, depth, count>>

Nil == 0                                  \* NULL
TreeLock == -1                            \* rwTreeLock
Live == DOMAIN node
Contents == UNION {Range(node[n].keys) : n \in {m \in Live : node[m].leaf}}

Set == INSTANCE OrderedSet WITH set <- Contents

-----------------------------------------------------------------------------
(* Nodes. *)

Node(leaf, keys, kids, left, right, up) ==
  [leaf |-> leaf, keys |-> keys, kids |-> kids, left |-> left, right |-> right, up |-> up]

\* BPFindNodeDataBinary: the keys of a node are sorted, so a search finds how many
\* are below k and whether k is there.
KeysBelow(n, k) == Cardinality({i \in DOMAIN node[n].keys : node[n].keys[i] < k})
HasKey(n, k) == k \in Range(node[n].keys)

\* The child to go on with, from 1: the separator k itself is in the child to its right.
KidIdx(n, k) == 1 + KeysBelow(n, k) + (IF HasKey(n, k) THEN 1 ELSE 0)
Kid(n, i) == IF i \in DOMAIN node[n].kids THEN node[n].kids[i] ELSE Nil

Full(n) == Len(node[n].keys) = Order - 1
Spare(n) == n # Nil /\ Len(node[n].keys) > MinKeys

\* BPAllocateNode: the least free id is handed out.
FreeIds == (1..scene.nodes) \ Live
NextFree(S) == Min(FreeIds \ S)

\* BPSplitNode of n into n and the new node m: the key that goes up, the nodes,
\* and the pointers of other nodes that are to be set under their own locks.
SplitKey(n) == node[n].keys[MinKeys + 1]

SplitNodes(n, m) ==
  LET o == node[n]
      from == IF o.leaf THEN MinKeys + 1 ELSE MinKeys + 2
      low == SubSeq(o.kids, 1, Min({MinKeys + 1, Len(o.kids)}))
      new == Node(o.leaf, SubSeq(o.keys, from, Len(o.keys)),
                  SubSeq(o.kids, from, Len(o.kids)), n, o.right, o.up)
  IN  (m :> new) @@ [node EXCEPT ![n].keys = SubSeq(o.keys, 1, MinKeys),
                                 ![n].kids = low, ![n].right = m]

Fixes(kids, p) == [i \in DOMAIN kids |-> [node |-> kids[i], field |-> "up", to |-> p]]

SplitFixes(n, m) ==
  Fixes(SubSeq(node[n].kids, MinKeys + 2, Len(node[n].kids)), m)
    \o (IF node[n].right = Nil THEN <<>>
        ELSE <<[node |-> node[n].right, field |-> "left", to |-> m]>>)

-----------------------------------------------------------------------------
(* Locks: std::shared_mutex, taken and released by RWLock. *)

\* A call writes when it inserts or deletes; an update writes its leaf only.
Writes(t, n) ==
  \/ call[t].op \in {"insert", "delete"}
  \/ call[t].op = "update" /\ n # TreeLock /\ node[n].leaf

\* Mutant: a reader does not wait for a writer.
ReadersPass(t, n, writing) ==
  \A u \in Threads : writing => n \notin excl[u] \cup shared[u]

\* RWLockReadLock, RWLockWriteLock: wait until n can be locked.  The five attempts of
\* RWLockReadTryLock and RWLockWriteTryLock fail when it cannot.
CanLock(t, n, writing) ==
  \A u \in Threads : n \notin excl[u] /\ (writing => n \notin shared[u])

Acquire(t, n, drop) ==
  /\ CanLock(t, n, Writes(t, n))
  /\ excl' = [excl EXCEPT ![t] = (@ \ drop) \cup (IF Writes(t, n) THEN {n} ELSE {})]
  /\ shared' = [shared EXCEPT ![t] = (@ \ drop) \cup (IF Writes(t, n) THEN {} ELSE {n})]

Release(t, drop) ==
  /\ excl' = [excl EXCEPT ![t] = @ \ drop]
  /\ shared' = [shared EXCEPT ![t] = @ \ drop]

-----------------------------------------------------------------------------
(* Calls. *)

Blank == [at |-> Nil, kid |-> Nil, left |-> Nil, right |-> Nil, new |-> Nil, gone |-> Nil,
          found |-> Nil, slot |-> 0, sep |-> 0, idx |-> 0, tries |-> 0,
          todo |-> <<>>, after |-> "idle"]

Goto(t, label) == pc' = [pc EXCEPT ![t] = label]
Note(t, locals) == my' = [my EXCEPT ![t] = locals @@ @]

\* The call returns with answer a.
Finish(t) ==
  /\ Goto(t, "idle")
  /\ my' = [my EXCEPT ![t] = Blank]
  /\ loaded' = Min({loaded + 1, Len(scene.load)})

Return(t, a) == Finish(t) /\ out' = [out EXCEPT ![t] = a]

Loading == loaded < Len(scene.load)

\* Alone, the first thread of a scenario makes the calls of its load; then each
\* thread makes one call.
Call(t) ==
  /\ pc[t] = "idle"
  /\ \E c \in (IF Loading THEN {scene.load[loaded + 1]} ELSE scene.calls[t]) :
       /\ Loading => t = scene.first /\ \A u \in Threads : pc[u] = "idle"
       /\ call' = [call EXCEPT ![t] = c]
       /\ owed' = [owed EXCEPT ![t] = IF c.op = "scan" THEN Set!Above(c, Contents) ELSE {}]
  /\ scene' = IF Loading THEN scene ELSE [scene EXCEPT !.calls[t] = {}]
  /\ out' = [out EXCEPT ![t] = Set!Pending]
  /\ Goto(t, "tree")
  /\ UNCHANGED <<tree, shared, excl, my, loaded>>

\* Lock the tree and read the root.
LockTree(t) ==
  /\ pc[t] = "tree"
  /\ Acquire(t, TreeLock, {})
  /\ Note(t, [at |-> root])
  /\ Goto(t, "root")
  /\ UNCHANGED <<tree, call, out, owed, scene, loaded>>

\* Lock the root. A reader, and an insert that does not have to split it, needs the
\* lock of the tree no more; a delete keeps it as long as the root may change.
LockRoot(t) ==
  /\ pc[t] = "root"
  /\ ~(call[t].op = "insert" /\ Full(my[t].at))
  /\ Acquire(t, my[t].at, IF call[t].op = "delete" THEN {} ELSE {TreeLock})
  /\ Goto(t, IF call[t].op # "delete" THEN "walk"
             ELSE IF node[my[t].at].leaf THEN "remove" ELSE "kids")
  /\ UNCHANGED <<tree, my, call, out, owed, scene, loaded>>

\* Begin to set pointers, and go on with "after" when all are set.
Fixing(t, todo, after, locals) ==
  /\ Note(t, [todo |-> todo, after |-> after] @@ locals)
  /\ Goto(t, IF todo = <<>> THEN after ELSE "fix")

\* The root is full: a new root, still empty, and a new sibling.
SplitRoot(t) ==
  /\ pc[t] = "root" /\ call[t].op = "insert" /\ Full(my[t].at)
  /\ Cardinality(FreeIds) >= 2
  /\ Acquire(t, my[t].at, {})
  /\ LET n == my[t].at
         new == NextFree({})
         sib == NextFree({new})
     IN  /\ node' = (new :> Node(FALSE, <<SplitKey(n)>>, <<n, sib>>, Nil, Nil, Nil)) @@ SplitNodes(n, sib)
         /\ Fixing(t, SplitFixes(n, sib), "grow", [kid |-> new, new |-> sib])
  /\ UNCHANGED <<root, depth, count, call, out, owed, scene, loaded>>

\* Publish the new root.
Grow(t) ==
  /\ pc[t] = "grow"
  /\ LET new == my[t].kid
     IN  /\ node' = [node EXCEPT ![my[t].at].up = new, ![my[t].new].up = new]
         /\ root' = new
         /\ Acquire(t, new, {my[t].at, TreeLock})
         /\ Note(t, [at |-> new])
  /\ depth' = depth + 1
  /\ Goto(t, "walk")
  /\ UNCHANGED <<count, call, out, owed, scene, loaded>>

\* There is no memory for the nodes of a split.
RootOutOfMemory(t) ==
  /\ pc[t] = "root" /\ call[t].op = "insert" /\ Full(my[t].at)
  /\ Cardinality(FreeIds) < 2
  /\ CanLock(t, my[t].at, TRUE)
  /\ Release(t, {TreeLock})
  /\ Return(t, Set!Answer("no_memory", 0))
  /\ UNCHANGED <<tree, call, owed, scene>>

-----------------------------------------------------------------------------
(* The descent of readers and inserts. *)

\* The child a call goes to from key node n; BPIterateStart is a scan above key 0.
NextKid(t, n) ==
  node[n].kids[CASE call[t].op = "first" -> 1
                 [] call[t].op = "last" -> Len(node[n].kids)
                 [] OTHER -> KidIdx(n, call[t].key)]

Walking(t) == pc[t] = "walk" /\ ~node[my[t].at].leaf
SplitsKid(t) == call[t].op = "insert" /\ Full(NextKid(t, my[t].at))

\* Lock the child, then release the parent.
Descend(t) ==
  /\ Walking(t) /\ ~SplitsKid(t)
  /\ LET c == NextKid(t, my[t].at)
     IN  Acquire(t, c, {my[t].at}) /\ Note(t, [at |-> c])
  /\ UNCHANGED <<tree, pc, call, out, owed, scene, loaded>>

SplitChild(t) ==
  /\ Walking(t) /\ SplitsKid(t) /\ FreeIds # {}
  /\ LET c == NextKid(t, my[t].at)
         sib == NextFree({})
     IN  /\ Acquire(t, c, {})
         /\ node' = SplitNodes(c, sib)
         /\ Fixing(t, SplitFixes(c, sib), "hang", [kid |-> c, new |-> sib, sep |-> SplitKey(c)])
  /\ UNCHANGED <<root, depth, count, call, out, owed, scene, loaded>>

ChildOutOfMemory(t) ==
  /\ Walking(t) /\ SplitsKid(t) /\ FreeIds = {}
  /\ CanLock(t, NextKid(t, my[t].at), TRUE)
  /\ Release(t, {my[t].at})
  /\ Return(t, Set!Answer("no_memory", 0))
  /\ UNCHANGED <<tree, call, owed, scene>>

\* Set one pointer of another node, under the lock of that node.
Fix(t) ==
  /\ pc[t] = "fix"
  /\ LET f == Head(my[t].todo)
     IN  /\ CanLock(t, f.node, TRUE)
         /\ node' = [node EXCEPT ![f.node][f.field] = f.to]
         /\ Fixing(t, Tail(my[t].todo), my[t].after, <<>>)
  /\ UNCHANGED <<root, depth, count, shared, excl, call, out, owed, scene, loaded>>

\* Enter the new node in the parent, and go on with the half the key belongs to.
Hang(t) ==
  /\ pc[t] = "hang"
  /\ LET p == my[t].at
         i == KeysBelow(p, my[t].sep) + 1
         right == call[t].key >= my[t].sep
     IN  /\ node' = [node EXCEPT ![p].keys = InsertAt(@, i, my[t].sep),
                                 ![p].kids = InsertAt(@, i + 1, my[t].new)]
         /\ IF right THEN Acquire(t, my[t].new, {my[t].kid, p}) ELSE Release(t, {p})
         /\ Note(t, [at |-> IF right THEN my[t].new ELSE my[t].kid])
  /\ Goto(t, "walk")
  /\ UNCHANGED <<root, depth, count, call, out, owed, scene, loaded>>

\* BPInsertIntoNotFullNode at the leaf.
Store(t) ==
  /\ pc[t] = "walk" /\ call[t].op = "insert" /\ node[my[t].at].leaf
  /\ LET n == my[t].at
         k == call[t].key
     IN  \/ /\ HasKey(n, k)
            /\ Return(t, Set!Duplicate_Found)
            /\ UNCHANGED tree
         \/ /\ ~HasKey(n, k) /\ count >= scene.items
            /\ Return(t, Set!Answer("tree_full", 0))
            /\ UNCHANGED tree
         \/ /\ ~HasKey(n, k) /\ count < scene.items
            /\ node' = [node EXCEPT ![n].keys = InsertAt(@, KeysBelow(n, k) + 1, k)]
            /\ count' = count + 1
            /\ Return(t, Set!Success)
            /\ UNCHANGED <<root, depth>>
  /\ Release(t, {my[t].at})
  /\ UNCHANGED <<call, owed, scene>>

-----------------------------------------------------------------------------
(* Readers at the leaf. *)

AtLeaf(t, ops) == pc[t] = "walk" /\ call[t].op \in ops /\ node[my[t].at].leaf

\* The keys of the leaf that may answer the call.
Candidates(t) ==
  LET ks == Range(node[my[t].at].keys) IN
  CASE call[t].op \in {"find", "update"} -> ks \cap {call[t].key}
    [] call[t].op \in {"greater", "scan"} -> Set!Above(call[t], ks)
    [] call[t].op = "less" -> Set!Below(call[t], ks)
    [] OTHER -> ks

Respond(t) ==
  /\ AtLeaf(t, {"find", "update", "first", "last", "greater", "less"})
  /\ \/ Candidates(t) # {}
     \/ call[t].op = "greater" /\ node[my[t].at].right = Nil
     \/ call[t].op = "less" /\ node[my[t].at].left = Nil
     \/ call[t].op \notin {"greater", "less"}
  /\ Return(t, IF call[t].op \in {"last", "less"} THEN Set!GreatestOf(Candidates(t))
                ELSE Set!LeastOf(Candidates(t)))
  /\ Release(t, {my[t].at})
  /\ UNCHANGED <<tree, call, owed, scene>>

\* BPFindGreaterThanKey: the answer is in the right sibling.
GoRight(t) ==
  /\ AtLeaf(t, {"greater"}) /\ Candidates(t) = {}
  /\ LET r == node[my[t].at].right
     IN  /\ r # Nil /\ CanLock(t, r, FALSE)
         /\ Return(t, Set!Answer("success", Head(node[r].keys)))
  /\ Release(t, {my[t].at})
  /\ UNCHANGED <<tree, call, owed, scene>>

\* BPFindLessThanKeyOnce: the left sibling is against the order of locks, so the
\* thread tries, and gives the query up when the lock stays taken.
GoLeft(t) ==
  /\ AtLeaf(t, {"less"}) /\ Candidates(t) = {}
  /\ LET l == node[my[t].at].left
     IN  /\ l # Nil /\ CanLock(t, l, FALSE)
         /\ Return(t, Set!Answer("success", Last(node[l].keys)))
  /\ Release(t, {my[t].at})
  /\ UNCHANGED <<tree, call, owed, scene>>

\* The retries of BPFindLessThanKey and BPDeleteDataItem, from the root.
Retry(t) ==
  \/ /\ my[t].tries + 1 < MaxRetries
     /\ my' = [my EXCEPT ![t] = [Blank EXCEPT !.tries = my[t].tries + 1]]
     /\ Goto(t, "tree")
     /\ UNCHANGED <<out, loaded>>
  \/ /\ my[t].tries + 1 = MaxRetries
     /\ Return(t, Set!Answer("deadlock_prevention", 0))

LeftTaken(t) ==
  /\ AtLeaf(t, {"less"}) /\ Candidates(t) = {}
  /\ node[my[t].at].left # Nil /\ ~CanLock(t, node[my[t].at].left, FALSE)
  /\ Retry(t)
  /\ Release(t, {my[t].at})
  /\ UNCHANGED <<tree, call, owed, scene>>

\* BPIterateStart, BPIterateStartFrom: find where to start; the lock of the leaf is kept.
StartScan(t) ==
  /\ AtLeaf(t, {"scan"})
  /\ LET n == my[t].at
         hits == {i \in DOMAIN node[n].keys : node[n].keys[i] \in Candidates(t)}
     IN  \/ /\ hits # {}
            /\ Note(t, [idx |-> Min(hits)])
            /\ Goto(t, "scan")
            /\ UNCHANGED <<shared, excl, out, owed, loaded>>
         \/ /\ hits = {} /\ node[n].right # Nil
            /\ Acquire(t, node[n].right, {n})
            /\ Note(t, [at |-> node[n].right, idx |-> 1])
            /\ Goto(t, "scan")
            /\ UNCHANGED <<out, owed, loaded>>
         \/ /\ hits = {} /\ node[n].right = Nil
            /\ Release(t, {n})
            /\ Return(t, Set!Not_Found)
            /\ owed' = [owed EXCEPT ![t] = {}]
  /\ UNCHANGED <<tree, call, scene>>

\* BPIterate: the next key, of this leaf or of the one to the right.
Yield(t, n, i) ==
  LET k == node[n].keys[i] IN
  /\ Note(t, [at |-> n, idx |-> i + 1])
  /\ call' = [call EXCEPT ![t] = [op |-> "scan", key |-> k, equal |-> FALSE]]
  /\ owed' = [owed EXCEPT ![t] = @ \ {k}]

Iterate(t) ==
  /\ pc[t] = "scan"
  /\ LET n == my[t].at
         here == my[t].idx <= Len(node[n].keys)
         r == node[n].right
     IN  \/ /\ here
            /\ Yield(t, n, my[t].idx)
            /\ UNCHANGED <<shared, excl, pc, out, loaded>>
         \/ /\ ~here /\ r # Nil
            /\ Acquire(t, r, {n})
            /\ Yield(t, r, 1)
            /\ UNCHANGED <<pc, out, loaded>>
         \/ /\ ~here /\ r = Nil
            /\ Release(t, {n})
            /\ Return(t, Set!Not_Found)
            /\ owed' = [owed EXCEPT ![t] = {}]
            /\ UNCHANGED call
  /\ UNCHANGED <<tree, scene>>

\* BPIterateStop
StopScan(t) ==
  /\ pc[t] = "scan"
  /\ Release(t, {my[t].at})
  /\ Return(t, Set!Success)
  /\ owed' = [owed EXCEPT ![t] = {}]
  /\ UNCHANGED <<tree, call, scene>>

-----------------------------------------------------------------------------
(* Deletion: BPDeleteProactiveRebalance and what it calls. *)

\* The child of the descent and its siblings, Nil where there is none.
Slot(t) == KidIdx(my[t].at, call[t].key)
Trio(t) == LET i == Slot(t) IN <<Kid(my[t].at, i - 1), Kid(my[t].at, i), Kid(my[t].at, i + 1)>>
Unlocked(t) == SelectSeq(Trio(t), LAMBDA n : n # Nil /\ n \notin excl[t])

\* Lock left sibling, child, right sibling, in this order.
LockKid(t) ==
  /\ pc[t] = "kids" /\ Unlocked(t) # <<>>
  /\ Acquire(t, Head(Unlocked(t)), {})
  /\ UNCHANGED <<tree, pc, my, call, out, owed, scene, loaded>>

\* Mutant: the separator is not remembered.
FindsNoSeparator(t) == [found |-> my[t].found, slot |-> my[t].slot]

\* A separator equal to the key is remembered, and its node stays locked until the
\* leaf has a new first key.
Found(t) ==
  IF HasKey(my[t].at, call[t].key) THEN [found |-> my[t].at, slot |-> Slot(t) - 1]
  ELSE [found |-> my[t].found, slot |-> my[t].slot]

ToChild(t, c) == Goto(t, IF node[c].leaf THEN "remove" ELSE "kids")

\* The child can lose a key.
NoUnderflow(t) ==
  /\ pc[t] = "kids" /\ Unlocked(t) = <<>> /\ Spare(Trio(t)[2])
  /\ Release(t, {Trio(t)[1], Trio(t)[3], TreeLock}
                  \cup (IF Found(t).found = my[t].at THEN {} ELSE {my[t].at}))
  /\ Note(t, Found(t) @@ [at |-> Trio(t)[2]])
  /\ ToChild(t, Trio(t)[2])
  /\ UNCHANGED <<tree, call, out, owed, scene, loaded>>

Underflow(t) == pc[t] = "kids" /\ Unlocked(t) = <<>> /\ ~Spare(Trio(t)[2])

\* Child c has changed with its siblings l and r, and gone is to be freed.
Rebalance(t, nodes, fixes, l, c, r, gone) ==
  /\ node' = nodes
  /\ Fixing(t, fixes, "settle", Found(t) @@ [left |-> l, kid |-> c, right |-> r, gone |-> gone])
  /\ UNCHANGED <<root, depth, count, call, owed, scene>>

\* The nearest key of a sibling moves over to child c; i is the separator between them
\* in their parent p.  In a key node the key goes through the parent, and a child with it.
LeafTakesRight(p, i, c, r) ==
  [node EXCEPT ![c].keys = Append(@, Head(node[r].keys)),
               ![p].keys[i] = node[r].keys[2],
               ![r].keys = Tail(@)]

KeyTakesRight(p, i, c, r) ==
  [node EXCEPT ![c].keys = Append(@, node[p].keys[i]),
               ![c].kids = Append(@, Head(node[r].kids)),
               ![p].keys[i] = Head(node[r].keys),
               ![r].keys = Tail(@), ![r].kids = Tail(@)]

LeafTakesLeft(p, i, c, l) ==
  [node EXCEPT ![c].keys = <<Last(node[l].keys)>> \o @,
               ![p].keys[i] = Last(node[l].keys),
               ![l].keys = Front(@)]

KeyTakesLeft(p, i, c, l) ==
  [node EXCEPT ![c].keys = <<node[p].keys[i]>> \o @,
               ![c].kids = <<Last(node[l].kids)>> \o @,
               ![p].keys[i] = Last(node[l].keys),
               ![l].keys = Front(@), ![l].kids = Front(@)]

StealRight(t) ==
  /\ Underflow(t) /\ Spare(Trio(t)[3])
  /\ LET p == my[t].at
         c == Trio(t)[2]
         r == Trio(t)[3]
     IN  IF node[c].leaf
         THEN Rebalance(t, LeafTakesRight(p, Slot(t), c, r), <<>>, Trio(t)[1], c, r, Nil)
         ELSE Rebalance(t, KeyTakesRight(p, Slot(t), c, r),
                        Fixes(<<Head(node[r].kids)>>, c), Trio(t)[1], c, r, Nil)
  /\ UNCHANGED <<shared, excl, out, loaded>>

StealLeft(t) ==
  /\ Underflow(t) /\ ~Spare(Trio(t)[3]) /\ Spare(Trio(t)[1])
  /\ LET p == my[t].at
         l == Trio(t)[1]
         c == Trio(t)[2]
     IN  IF node[c].leaf
         THEN Rebalance(t, LeafTakesLeft(p, Slot(t) - 1, c, l), <<>>, l, c, Trio(t)[3], Nil)
         ELSE Rebalance(t, KeyTakesLeft(p, Slot(t) - 1, c, l),
                        Fixes(<<Last(node[l].kids)>>, c), l, c, Trio(t)[3], Nil)
  /\ UNCHANGED <<shared, excl, out, loaded>>

\* Mutant: the right neighbour keeps its pointer to the node that goes.
LinksOneWay(nodes, a, b) ==
  [n \in DOMAIN nodes |-> IF n = a THEN [nodes[n] EXCEPT !.right = b] ELSE nodes[n]]

\* Make a and b neighbours.
Link(nodes, a, b) ==
  [n \in DOMAIN nodes |-> IF n = a THEN [nodes[n] EXCEPT !.right = b]
                         ELSE IF n = b THEN [nodes[n] EXCEPT !.left = a] ELSE nodes[n]]

\* Nodes a and b become one, in s; child c = Trio(t)[2] is the one that goes.
Joined(t, a, b, s) ==
  LET p == my[t].at
      c == Trio(t)[2]
      i == IF s = a THEN Slot(t) - 1 ELSE Slot(t)
      middle == IF node[c].leaf THEN <<>> ELSE <<node[p].keys[i]>>
  IN  [node EXCEPT ![s].keys = node[a].keys \o middle \o node[b].keys,
                   ![s].kids = node[a].kids \o node[b].kids,
                   ![c].keys = <<>>,
                   ![p].keys = RemoveAt(@, i),
                   ![p].kids = RemoveAt(@, Slot(t))]

\* A merge relinks the neighbour on the other side; under another parent its lock is
\* only tried for, and a thread that does not get it gives up.
MustMerge(t) == Underflow(t) /\ ~Spare(Trio(t)[3]) /\ ~Spare(Trio(t)[1])
Beyond(t) ==
  IF Trio(t)[1] # Nil
  THEN IF Trio(t)[3] = Nil THEN node[Trio(t)[2]].right ELSE Nil
  ELSE node[Trio(t)[2]].left

LockBeyond(t) ==
  IF Beyond(t) # Nil THEN Acquire(t, Beyond(t), {}) ELSE UNCHANGED <<shared, excl>>

MergeLeft(t) ==
  /\ MustMerge(t) /\ Trio(t)[1] # Nil
  /\ LockBeyond(t)
  /\ LET l == Trio(t)[1]
         c == Trio(t)[2]
         r == IF Trio(t)[3] # Nil THEN Trio(t)[3] ELSE Beyond(t)
     IN  Rebalance(t, Link(Joined(t, l, c, l), l, r), Fixes(node[c].kids, l), Nil, l, r, c)
  /\ UNCHANGED <<out, loaded>>

MergeRight(t) ==
  /\ MustMerge(t) /\ Trio(t)[1] = Nil
  /\ LockBeyond(t)
  /\ LET c == Trio(t)[2]
         r == Trio(t)[3]
     IN  Rebalance(t, Link(Joined(t, c, r, r), Beyond(t), r), Fixes(node[c].kids, r),
                   Beyond(t), r, Nil, c)
  /\ UNCHANGED <<out, loaded>>

\* Mutant: the child stays locked.
KeepsChild(t) == Release(t, {Trio(t)[1], Trio(t)[3], my[t].at, TreeLock})

\* What a thread that gives up releases: not the node of a separator it has found higher up.
ReleaseOnFailure(t) == Release(t, Range(Trio(t)) \cup {my[t].at, TreeLock})

GiveUpMerge(t) ==
  /\ MustMerge(t) /\ Beyond(t) # Nil /\ ~CanLock(t, Beyond(t), TRUE)
  /\ ReleaseOnFailure(t)
  /\ Retry(t)
  /\ UNCHANGED <<tree, call, owed, scene>>

Without(nodes, S) == [n \in DOMAIN nodes \ S |-> nodes[n]]

\* Is the separator still where it was found?
StillFound(t) ==
  LET ks == node[my[t].at].keys
      kept == \/ my[t].found # my[t].at
              \/ my[t].slot <= Len(ks) /\ ks[my[t].slot] = call[t].key
  IN  IF kept THEN [found |-> my[t].found, slot |-> my[t].slot] ELSE [found |-> Nil, slot |-> 0]

\* Free what was merged, also a root without keys, and go on with the child.  Only the
\* root can have lost its last key: a thread that finds another node without keys, where
\* the code is Fatal, has no step here and its call does not return.
Settle(t) ==
  /\ pc[t] = "settle"
  /\ LET p == my[t].at
         c == my[t].kid
         drop == {my[t].left, my[t].right, my[t].gone, TreeLock}
     IN  /\ \/ /\ node[p].keys # <<>>
               /\ node' = Without(node, {my[t].gone})
               /\ Release(t, drop \cup (IF StillFound(t).found = p THEN {} ELSE {p}))
               /\ ToChild(t, c)
               /\ UNCHANGED <<root, depth>>
            \/ /\ node[p].keys = <<>> /\ TreeLock \in excl[t]
               /\ node' = Without([node EXCEPT ![c].up = Nil], {my[t].gone, p})
               /\ root' = c
               /\ depth' = depth - 1
               /\ Release(t, drop \cup {p})
               /\ ToChild(t, c)
         /\ my' = [my EXCEPT ![t] = StillFound(t) @@ [at |-> c, tries |-> @.tries] @@ Blank]
  /\ UNCHANGED <<count, call, out, owed, scene, loaded>>

\* BPRemoveFromNonUnderflowLeaf: a new first key replaces the separator.
RemoveItem(t) ==
  /\ pc[t] = "remove"
  /\ LET n == my[t].at
         k == call[t].key
         f == IF KeysBelow(n, k) = 0 THEN my[t].found ELSE Nil
         rest == RemoveAt(node[n].keys, KeysBelow(n, k) + 1)
     IN  \/ /\ ~HasKey(n, k)
            /\ Release(t, {n, TreeLock})
            /\ Return(t, Set!Not_Found)
            /\ UNCHANGED <<tree, owed>>
         \/ /\ HasKey(n, k)
            /\ node' = IF f = Nil THEN [node EXCEPT ![n].keys = rest]
                       ELSE [node EXCEPT ![n].keys = rest, ![f].keys[my[t].slot] = rest[1]]
            /\ Release(t, {n, f})
            /\ out' = [out EXCEPT ![t] = Set!Success]
            /\ owed' = [u \in Threads |-> owed[u] \ {k}]
            /\ Note(t, [at |-> Nil, found |-> Nil])
            /\ Goto(t, "uncount")
            /\ UNCHANGED <<root, depth, count, loaded>>
  /\ UNCHANGED <<call, scene>>

\* The count follows when the leaf is already unlocked; below zero the code is Fatal,
\* which TypeOK excludes.
Uncount(t) ==
  /\ pc[t] = "uncount"
  /\ count' = count - 1
  /\ Release(t, {TreeLock})
  /\ Finish(t)
  /\ UNCHANGED <<node, root, depth, call, out, owed, scene>>

-----------------------------------------------------------------------------
Init ==
  /\ node = (1 :> Node(TRUE, <<>>, <<>>, Nil, Nil, Nil))
  /\ root = 1 /\ depth = 1 /\ count = 0
  /\ shared = [t \in Threads |-> {}]
  /\ excl = [t \in Threads |-> {}]
  /\ pc = [t \in Threads |-> "idle"]
  /\ my = [t \in Threads |-> Blank]
  /\ call = [t \in Threads |-> [op |-> "none", key |-> 0, equal |-> FALSE]]
  /\ out = [t \in Threads |-> Set!Success]
  /\ owed = [t \in Threads |-> {}]
  /\ scene \in Scenarios
  /\ loaded = 0

Insert(t) == SplitRoot(t) \/ Grow(t) \/ RootOutOfMemory(t) \/ SplitChild(t)
               \/ ChildOutOfMemory(t) \/ Hang(t) \/ Store(t)

Delete(t) == LockKid(t) \/ NoUnderflow(t) \/ StealRight(t) \/ StealLeft(t) \/ MergeLeft(t)
               \/ MergeRight(t) \/ GiveUpMerge(t) \/ Settle(t) \/ RemoveItem(t) \/ Uncount(t)

Query(t) == Respond(t) \/ GoRight(t) \/ GoLeft(t) \/ LeftTaken(t)

Scan(t) == StartScan(t) \/ Iterate(t) \/ StopScan(t)

Step(t) == LockTree(t) \/ LockRoot(t) \/ Descend(t) \/ Fix(t)
             \/ Insert(t) \/ Delete(t) \/ Query(t) \/ Scan(t)

Next == \E t \in Threads : Call(t) \/ Step(t)

\* While some call can go on, one does: the threads are scheduled, and a client asks on
\* until its scan is at an end.  As a scenario has finitely many calls, and each takes
\* finitely many steps, nobody has to be fair to a particular thread.
Fairness == WF_vars(\E t \in Threads : Step(t))

Spec == Init /\ [][Next]_vars /\ Fairness

-----------------------------------------------------------------------------
(* Properties. *)

Pointers(t) == {my[t].at, my[t].kid, my[t].left, my[t].right, my[t].new, my[t].gone, my[t].found}
                 \cup {my[t].todo[i].node : i \in DOMAIN my[t].todo}

\* Types, and: no node, and no thread in a call, points to a node that was freed, and
\* nobody holds the lock of one.
TypeOK ==
  /\ Live \subseteq 1..scene.nodes
  /\ \A n \in Live :
       /\ node[n].leaf \in BOOLEAN
       /\ node[n].keys \in Seq(Keys) /\ Len(node[n].keys) <= Order - 1
       /\ node[n].kids \in Seq(Live)
       /\ {node[n].left, node[n].right, node[n].up} \subseteq Live \cup {Nil}
  /\ root \in Live /\ depth \in Nat /\ count \in 0..scene.items
  /\ \A t \in Threads :
       /\ Pointers(t) \subseteq Live \cup {Nil}
       /\ shared[t] \cup excl[t] \subseteq Live \cup {TreeLock}
       /\ pc[t] \in {"idle", "tree", "root", "walk", "fix", "grow", "hang", "scan",
                    "kids", "settle", "remove", "uncount"}

\* The nodes of each level from the root down.
Level ==
  LET level[i \in 1..depth] ==
        IF i = 1 THEN {root} ELSE UNION {Range(node[n].kids) : n \in level[i - 1]}
  IN  level

\* The least key of the subtree of each node of a level.
LeastKey(level) ==
  LET least[i \in 1..depth] ==
        [n \in level[i] |-> IF i = depth THEN Head(node[n].keys) ELSE least[i + 1][Head(node[n].kids)]]
  IN  least

WellFormedNode(n) ==
  /\ node[n].up = Nil <=> n = root
  /\ n # root => Len(node[n].keys) >= MinKeys
  /\ \A i, j \in DOMAIN node[n].keys : i < j => node[n].keys[i] < node[n].keys[j]
  /\ ~node[n].leaf => /\ Len(node[n].kids) = Len(node[n].keys) + 1
                      /\ Len(node[n].keys) > 0
                      /\ \A c \in Range(node[n].kids) : node[c].up = n

\* When nobody writes, the tree is what BPIntegrityCheck checks and more: every node in
\* memory is in the tree, at a depth that is that of all leaves, with enough keys; each
\* level is chained in the order of its keys; a separator is the least key to its right;
\* and the count is that of the keys, but for those whose delete has not counted yet.
WellFormed ==
  (\A t \in Threads : excl[t] = {}) =>
    LET level == Level
        least == LeastKey(level)
        After(i, n) == {m \in level[i] : least[i][m] > least[i][n]}
    IN
    /\ Live = UNION Range(level)
    /\ \A i \in 1..depth : \A n \in level[i] : WellFormedNode(n) /\ (node[n].leaf <=> i = depth)
    /\ Contents # {} =>
         \A i \in 1..depth : \A n \in level[i] :
           LET r == node[n].right
           IN  /\ IF r = Nil THEN After(i, n) = {}
                  ELSE /\ r \in After(i, n) /\ node[r].left = n
                       /\ \A m \in After(i, n) : least[i][r] <= least[i][m]
               /\ \A j \in 2..Len(node[n].kids) :
                    node[n].keys[j - 1] = least[i + 1][node[n].kids[j]]
    /\ count = Cardinality(Contents) + Cardinality({t \in Threads : pc[t] = "uncount"})

\* Concurrent calls answer as if each had happened at one moment, and scans miss no key
\* that stays: hand-over-hand locks never let a call overtake a split or a merge.
IsOrderedSet == Set!Spec

\* Every call returns: the threads never wait for locks of each other in a cycle, and
\* retries end.  The calls of a scenario are finitely many, so all have returned in the end.
CallsReturn == []<>(\A t \in Threads : pc[t] = "idle")

\* BPDelete.cpp, BPDeleteDataItem: "When that happens all locks are already released,
\* so yield and retry."
AllLocksReleased ==
  \A t \in Threads : pc[t] = "tree" => excl[t] = {} /\ shared[t] = {}
=============================================================================
