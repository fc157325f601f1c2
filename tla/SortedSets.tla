----------------------------- MODULE SortedSets -----------------------------
(***************************************************************************)
(* What a level needs of the GPU accumulator: the children of every batch  *)
(* handed to it come back, for each player, once each and in ascending     *)
(* order, and then it is empty again.                                      *)
(***************************************************************************)
EXTENDS Integers, Sequences, FiniteSets

CONSTANTS Players, Keys, Batches   \* Batches: what one batch adds, per player

VARIABLES wanted,  \* children added since the last reset, per player
          result   \* what a flush delivered, per player; NoResult before

NoResult == [p \in Players |-> <<>>]

\* Records are ordered by the occupied cells, then by the colors.
KeyLess(a, b) == a[1] < b[1] \/ (a[1] = b[1] /\ a[2] < b[2])

Ascending(s) == \A i \in 1..Len(s) - 1 : KeyLess(s[i], s[i + 1])

Sorted(S) ==
  CHOOSE s \in [1..Cardinality(S) -> S] : Ascending(s)

Init ==
  /\ wanted = [p \in Players |-> {}]
  /\ result = NoResult

Add(kids) ==
  /\ wanted' = [p \in Players |-> wanted[p] \cup kids[p]]
  /\ UNCHANGED result

Deliver(p) ==
  /\ result[p] = <<>>
  /\ result' = [result EXCEPT ![p] = Sorted(wanted[p])]
  /\ UNCHANGED wanted

Reset ==
  /\ \A p \in Players : result[p] = Sorted(wanted[p])
  /\ wanted' = [p \in Players |-> {}]
  /\ result' = NoResult

Next ==
  \/ \E kids \in Batches : Add(kids)
  \/ \E p \in Players : Deliver(p)
  \/ Reset

Spec == Init /\ [][Next]_<<wanted, result>>
=============================================================================
