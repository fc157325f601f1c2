----------------------------- MODULE LevelSpec -----------------------------
(***************************************************************************)
(* What solving one BFS level promises, whatever the threads, the buffers  *)
(* and the intermediate files do: the store receives, for each player to   *)
(* move, exactly the set of distinct boards the GPU generated, and only    *)
(* when the level is declared complete; a level that is given up leaves    *)
(* the store without a claim of completeness.                              *)
(***************************************************************************)
CONSTANTS
  Players,   (* the players to move: one file stream each             *)
  Boards,    (* canonical boards of the next level                    *)
  Batches    (* what one GPU batch may generate, per player           *)

VARIABLES
  generated, (* boards generated so far, per player                   *)
  stored,    (* boards of the level's output in the store, per player *)
  status     (* "solving", "complete" or "stopped"                    *)

vars == <<generated, stored, status>>

None == [p \in Players |-> {}]

Init ==
  /\ generated = None
  /\ stored = None
  /\ status = "solving"

(* One batch of parent boards is expanded. *)
Expand(kids) ==
  /\ status = "solving"
  /\ generated' = [p \in Players |-> generated[p] \cup kids[p]]
  /\ UNCHANGED <<stored, status>>

(* The level is published: duplicates are gone, nothing is missing. *)
Complete ==
  /\ status = "solving"
  /\ status' = "complete"
  /\ stored' = generated
  /\ UNCHANGED generated

(* The user interrupts the run: no claim is made. *)
Stop ==
  /\ status = "solving"
  /\ status' = "stopped"
  /\ UNCHANGED <<generated, stored>>

Next == (\E kids \in Batches : Expand(kids)) \/ Complete \/ Stop

Spec == Init /\ [][Next]_vars /\ WF_vars(Complete \/ Stop)
=============================================================================
