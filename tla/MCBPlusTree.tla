----------------------------- MODULE MCBPlusTree -----------------------------
(* Small trees for TLC: how each is built, and what three threads then do with it at once. *)
EXTENDS BPlusTree

MCThreads == {"a", "b", "c"}

C(op, keys) == [op : {op}, key : keys, equal : {FALSE}]
CE(op, keys) == [op : {op}, key : keys, equal : {TRUE}]
Ins(s) == [i \in DOMAIN s |-> [op |-> "insert", key |-> s[i], equal |-> FALSE]]

Scene(load, nodes, items, a, b, c) ==
  [load |-> Ins(load), first |-> "a", nodes |-> nodes, items |-> items,
   calls |-> [t \in MCThreads |-> CASE t = "a" -> a [] t = "b" -> b [] t = "c" -> c]]

\* [6] over [4] and [8 10], over [2] [4] and [6] [8] [10 12 14].
Seven == <<2, 4, 6, 8, 10, 12, 14>>

\* [5] over [3] and [7], over [2] [4] and [6] [8 9 10], over ten leaves.
Twelve == <<1, 2, 3, 4, 5, 6, 7, 8, 9, 10, 11, 12>>

\* [8] over [2 3] and [11], over [1] [2] [3 4 6] and [8] [11 13 14].
Nine == <<11, 1, 8, 13, 3, 2, 6, 14, 4>>

\* Delete 6 merges leaf [6] while its key is the separator of the root.
LeakScenarios == {Scene(Seven, 10, 9, C("delete", {6}), C("scan", {0}), {})}

MCScenarios ==
  { \* steals and merges of leaves and of key nodes against each other and against scans
    Scene(Seven, 11, 9, C("delete", {4, 7, 8, 10}), C("delete", {8, 2}), C("scan", {0, 5})),
    Scene(Nine, 12, 10, C("delete", {8, 13}), C("insert", {5}) \cup C("delete", {2}), C("scan", {2})),
    \* splits and merges
    Scene(Seven, 11, 9, C("insert", {3, 11, 15}), C("delete", {4, 7, 10}), C("less", {6, 9}) \cup C("greater", {4})),
    \* no memory for a split, no room for another key, a key that is there
    Scene(Seven, 8, 8, C("insert", {3, 13}), C("insert", {5, 8, 11}), C("find", {10})),
    \* the root splits
    Scene(<<2, 4, 6>>, 4, 9, C("insert", {3, 5}), C("insert", {7}) \cup C("delete", {4}), C("last", {0})),
    Scene(<<2, 4, 6>>, 2, 9, C("insert", {3}), C("delete", {2}), C("first", {0}) \cup C("update", {4})),
    \* one leaf, or nothing
    Scene(<<2>>, 1, 9, C("insert", {1, 2}), C("delete", {2}),
          C("scan", {0, 2}) \cup CE("less", {1, 2}) \cup CE("greater", {2, 3}) \cup C("first", {0})),
    \* the root goes: depth four to three
    Scene(Twelve, 20, 13, C("delete", {1, 4}), C("delete", {9}), C("scan", {0}) \cup C("less", {7})) }
=============================================================================
