----------------------------- MODULE MCThreadPool -----------------------------
(* Small pools for TLC. *)
EXTENDS ThreadPool, TLC

CONSTANTS w1, w2, p1, p2, p3

TwoWorkers == {w1, w2}
ThreeProducers == {p1, p2, p3}
TwoProducers == {p1, p2}
Threads == Permutations(TwoWorkers) \cup Permutations(ThreeProducers)
=============================================================================
