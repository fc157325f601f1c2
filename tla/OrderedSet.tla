------------------------------ MODULE OrderedSet ------------------------------
(***************************************************************************)
(* What a search tree promises to the threads that call it: every call     *)
(* answers from one set of keys, at one moment between its start and its   *)
(* return.  A scan is the exception, it takes time: it delivers keys in    *)
(* ascending order and misses none that is in the set all along.           *)
(***************************************************************************)
EXTENDS Integers, FiniteSets, FiniteSetsExt

CONSTANTS Threads,   \* threads that call
          Keys       \* the keys, positive numbers

VARIABLES set,       \* the keys in the tree
          call,      \* per thread the call in progress, or the last one
          out,       \* per thread its answer
          owed       \* per thread the keys its scan still has to deliver

vars == <<set, call, out, owed>>

\* The answers, each with a key where there is one.
Answer(rc, key) == [rc |-> rc, key |-> key]
Pending == Answer("pending", 0)
Success == Answer("success", 0)
Not_Found == Answer("not_found", 0)
Duplicate_Found == Answer("duplicate", 0)

\* The keys of S a call for the keys above or below its own may return.
Above(c, S) == {k \in S : k > c.key \/ (c.equal /\ k = c.key)}
Below(c, S) == {k \in S : k < c.key \/ (c.equal /\ k = c.key)}

LeastOf(S) == IF S = {} THEN Not_Found ELSE Answer("success", Min(S))
GreatestOf(S) == IF S = {} THEN Not_Found ELSE Answer("success", Max(S))

Init ==
  /\ set = {}
  /\ call = [t \in Threads |-> [op |-> "none", key |-> 0, equal |-> FALSE]]
  /\ out = [t \in Threads |-> Success]
  /\ owed = [t \in Threads |-> {}]

Calls == [op : {"insert", "delete", "find", "update", "first", "last", "greater", "less", "scan"},
          key : Keys \cup {0}, equal : BOOLEAN]

Begin(t) ==
  /\ out[t] # Pending
  /\ call'[t] \in Calls
  /\ call' = [call EXCEPT ![t] = call'[t]]
  /\ owed' = [owed EXCEPT ![t] = IF call'[t].op = "scan" THEN Above(call'[t], set) ELSE {}]
  /\ out' = [out EXCEPT ![t] = Pending]
  /\ UNCHANGED set

Insert(t) ==
  /\ call[t].op = "insert"
  /\ IF call[t].key \in set
     THEN out' = [out EXCEPT ![t] = Duplicate_Found] /\ UNCHANGED set
     ELSE out' = [out EXCEPT ![t] = Success] /\ set' = set \cup {call[t].key}
  /\ UNCHANGED owed

Delete(t) ==
  /\ call[t].op = "delete"
  /\ out' = [out EXCEPT ![t] = IF call[t].key \in set THEN Success ELSE Not_Found]
  /\ set' = set \ {call[t].key}
  /\ owed' = [u \in Threads |-> owed[u] \ {call[t].key}]

Query(t) ==
  /\ out' = [out EXCEPT ![t] =
       CASE call[t].op \in {"find", "update"} -> LeastOf({call[t].key} \cap set)
         [] call[t].op = "first" -> LeastOf(set)
         [] call[t].op = "last" -> GreatestOf(set)
         [] call[t].op = "greater" -> LeastOf(Above(call[t], set))
         [] call[t].op = "less" -> GreatestOf(Below(call[t], set))]
  /\ UNCHANGED <<set, owed>>

\* A scan at key "last" delivers the next one, and the caller asks again.
Deliver(t) ==
  /\ call[t].op = "scan"
  /\ \E k \in Above(call[t], set) :
       /\ \A j \in owed[t] : k <= j
       /\ out' = [out EXCEPT ![t] = Pending]
       /\ owed' = [owed EXCEPT ![t] = @ \ {k}]
       /\ call' = [call EXCEPT ![t] = [op |-> "scan", key |-> k, equal |-> FALSE]]
  /\ UNCHANGED set

EndScan(t) ==
  /\ call[t].op = "scan"
  /\ \/ out' = [out EXCEPT ![t] = Not_Found] /\ owed[t] = {}
     \/ out' = [out EXCEPT ![t] = Success]        \* the caller stopped it
  /\ owed' = [owed EXCEPT ![t] = {}]
  /\ UNCHANGED set

\* No room and no memory are answers to an insert, a lock not granted one to a delete and
\* to a query that goes left.
GiveUp(t) ==
  /\ \/ call[t].op = "insert" /\ out'[t] \in {Answer("tree_full", 0), Answer("no_memory", 0)}
     \/ call[t].op \in {"delete", "less"} /\ out'[t] = Answer("deadlock_prevention", 0)
  /\ out' = [out EXCEPT ![t] = out'[t]]
  /\ UNCHANGED <<set, owed>>

Answers(t) ==
  /\ out[t] = Pending
  /\ \/ /\ call[t].op \notin {"scan", "insert", "delete"}
        /\ Query(t)
        /\ UNCHANGED call
     \/ Deliver(t)
     \/ /\ Insert(t) \/ Delete(t) \/ EndScan(t) \/ GiveUp(t)
        /\ UNCHANGED call

Next == \E t \in Threads : Begin(t) \/ Answers(t)

Spec == Init /\ [][Next]_vars
=============================================================================
