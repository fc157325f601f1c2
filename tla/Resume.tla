------------------------------- MODULE Resume -------------------------------
(***************************************************************************)
(* The level archive in the store directory across runs of the program:    *)
(* seed, resume scan, one solving iteration per level, end-of-level merge  *)
(* with its two player threads, sentinels, Ctrl+C and the death of the     *)
(* process between any two file operations (InitSolver.cpp,                *)
(* CreateSeedFile.cpp, OthelloLevelBlaster.cpp, MergeFiles.cpp).           *)
(*                                                                         *)
(* Iteration n reads the files of level n and writes those of level n + 1. *)
(* A level file is abstracted to how much of its content it holds; what    *)
(* one iteration does with its working files is module LevelPipeline.      *)
(***************************************************************************)
EXTENDS Naturals

CONSTANTS
  MaxLevel,     (* iterations 0 .. MaxLevel-1 write levels 1 .. MaxLevel       *)
  Movers,       (* players who have boards at each level                       *)
  MaxStops,     (* bound: crashes and interrupts together                      *)
  CrashAt,      (* program points where the process may die                    *)
  InterruptAt   (* program points where Ctrl+C may arrive                      *)

White == "white"
Black == "black"
Players == {White, Black}
Levels == 0..MaxLevel

Points == {"scan", "purge", "probe", "decide", "seed", "seal", "loop", "solve",
           "merge", "unmark", "publish"}

ASSUME ResumeAssumption ==
  /\ MaxLevel \in Nat \ {0}
  /\ Movers \in [Levels -> SUBSET Players] /\ Movers[0] = {Black}
  /\ MaxStops \in Nat
  /\ CrashAt \subseteq Points /\ InterruptAt \subseteq Points

(* A file without trailer is "open": BLFOpen rejects it. "short" has its *)
(* trailer and lacks boards, "whole" has them all.                       *)
FileStates == {"absent", "open", "short", "whole"}

VARIABLES
  store,     (* store[l][p]: file of level l and player p                     *)
  complete,  (* levels with a _complete sentinel                              *)
  merging,   (* levels with a _merging sentinel                               *)
  pc,        (* where the main thread is: a point, "down" or "finished"       *)
  level,     (* level scanned, then playLevel                                 *)
  seen,      (* checkLevelFile's answers for the level scanned                *)
  eol,       (* player threads of the end-of-level merge                      *)
  terminate, (* terminateThreads                                              *)
  stops      (* crashes and interrupts so far                                 *)

archive == <<store, complete, merging>>
run == <<pc, level, seen, eol, terminate>>
vars == <<archive, run, stops>>

Unseen == [p \in Players |-> "unseen"]
Idle == [p \in Players |-> "idle"]
NoFiles == [p \in Players |-> "absent"]

Init ==
  /\ store = [l \in Levels |-> NoFiles]
  /\ complete = {} /\ merging = {}
  /\ pc = "down" /\ level = 0 /\ seen = Unseen /\ eol = Idle
  /\ terminate = FALSE /\ stops = 0

Goto(point) == pc' = point
StoreFile(l, p, state) == store' = [store EXCEPT ![l][p] = state]

----------------------------------------------------------------------------
(* Resume scan *)

Start ==
  /\ pc = "down"
  /\ Goto("scan") /\ level' = 0
  /\ seen' = Unseen /\ eol' = Idle /\ terminate' = FALSE
  /\ UNCHANGED <<archive, stops>>

(* The first level that is missing is rebuilt by the iteration before it. *)
FoundMissingItself(l) == Goto("seed") /\ level' = l /\ seen' = Unseen
FoundMissingBelow(l) == Goto("seed") /\ level' = l - 1 /\ seen' = Unseen
FoundMissing(l) ==
  /\ Goto("seed")
  /\ level' = IF l > 0 THEN l - 1 ELSE 0
  /\ seen' = Unseen

ScanComplete ==
  /\ pc = "scan" /\ level \in complete
  /\ level' = level + 1
  /\ UNCHANGED <<archive, pc, seen, eol, terminate, stops>>

(* An interrupted merge: the sentinel goes first, then black, then white. *)
ScanMerging ==
  /\ pc = "scan" /\ level \notin complete /\ level \in merging
  /\ merging' = merging \ {level}
  /\ Goto("purge")
  /\ UNCHANGED <<store, complete, level, seen, eol, terminate, stops>>

(* deletePlayerOutputFile, black before white; then the level is missing. *)
Purge(p) ==
  /\ pc = "purge" /\ seen[p] = "unseen"
  /\ p = White => seen[Black] # "unseen"
  /\ StoreFile(level, p, "absent")
  /\ IF p = White THEN FoundMissing(level)
                  ELSE seen' = [seen EXCEPT ![p] = "absent"] /\ UNCHANGED <<pc, level>>
  /\ UNCHANGED <<complete, merging, eol, terminate, stops>>

(* No sentinel: look at the files. Levels beyond the last never have any. *)
ScanFiles ==
  /\ pc = "scan" /\ level \notin complete \cup merging
  /\ IF level \in Levels THEN Goto("probe") /\ UNCHANGED <<level, seen>>
                         ELSE FoundMissing(level)
  /\ UNCHANGED <<archive, eol, terminate, stops>>

(* checkLevelFile deletes a file that BLFOpen rejects. *)
Probe(p) ==
  /\ pc = "probe" /\ seen[p] = "unseen"
  /\ p = White => seen[Black] # "unseen"
  /\ IF store[level][p] = "open"
     THEN seen' = [seen EXCEPT ![p] = "corrupt"] /\ StoreFile(level, p, "absent")
     ELSE seen' = [seen EXCEPT ![p] = store[level][p]] /\ UNCHANGED store
  /\ IF p = White THEN Goto("decide") ELSE UNCHANGED pc
  /\ UNCHANGED <<complete, merging, level, eol, terminate, stops>>

AnyAbsent == \E p \in Players : seen[p] = "absent"
AllAbsent == seen = NoFiles
SomeCorrupt == \E p \in Players : seen[p] = "corrupt"

DecideMissing ==
  /\ pc = "decide" /\ AllAbsent
  /\ FoundMissing(level)
  /\ UNCHANGED <<archive, eol, terminate, stops>>

(* A valid file next to a corrupt one is deleted too. *)
DecideCorrupt ==
  /\ pc = "decide" /\ SomeCorrupt
  /\ store' = [store EXCEPT ![level] = NoFiles]
  /\ FoundMissing(level)
  /\ UNCHANGED <<complete, merging, eol, terminate, stops>>

(* Valid files without sentinel: data of an older version, or a run that *)
(* died between the deletion of _merging and the creation of _complete.  *)
DecideValid ==
  /\ pc = "decide" /\ ~AllAbsent /\ ~SomeCorrupt
  /\ Goto("scan") /\ level' = level + 1 /\ seen' = Unseen
  /\ UNCHANGED <<archive, eol, terminate, stops>>

----------------------------------------------------------------------------
(* CreateSeedFile *)

(* The seed is written unless it opens; one step creates it, one closes it. *)
WriteSeed ==
  /\ pc = "seed"
  /\ CASE store[0][Black] = "absent" -> StoreFile(0, Black, "open") /\ UNCHANGED pc
       [] store[0][Black] = "open"   -> StoreFile(0, Black, "whole") /\ Goto("seal")
       [] OTHER                      -> Goto("seal") /\ UNCHANGED store
  /\ UNCHANGED <<complete, merging, level, seen, eol, terminate, stops>>

SealSeed ==
  /\ pc = "seal"
  /\ complete' = complete \cup {0}
  /\ Goto("loop")
  /\ UNCHANGED <<store, merging, level, seen, eol, terminate, stops>>

----------------------------------------------------------------------------
(* Main loop *)

BeginLevelButLast ==
  /\ pc = "loop"
  /\ IF terminate THEN Goto("down")
     ELSE IF level + 1 < MaxLevel THEN Goto("solve") ELSE Goto("finished")
  /\ UNCHANGED <<archive, level, seen, eol, terminate, stops>>
BeginLevel ==
  /\ pc = "loop"
  /\ IF terminate THEN Goto("down")
     ELSE IF level < MaxLevel THEN Goto("solve") ELSE Goto("finished")
  /\ UNCHANGED <<archive, level, seen, eol, terminate, stops>>

(* Feeder, merge writers and buffer flush: the store is only read. With the *)
(* flag up nothing is merged and the run ends.                              *)
Solve ==
  /\ pc = "solve"
  /\ IF terminate THEN Goto("down") /\ UNCHANGED merging
     ELSE Goto("merge") /\ merging' = merging \cup {level + 1}
  /\ UNCHANGED <<store, complete, level, seen, eol, terminate, stops>>

InputsWhole == \A p \in Movers[level] : store[level][p] = "whole"

(* Which players' working files the iteration left behind: all of the next *)
(* level's movers, unless its own input lacked boards.                     *)
Outputs == IF InputsWhole THEN {Movers[level + 1]} ELSE SUBSET Movers[level + 1]

(* mergePlayer opens its output, or has no input file and returns. *)
OpenOutput(p) ==
  /\ pc = "merge" /\ eol[p] = "idle"
  /\ \E movers \in Outputs :
       IF p \in movers
       THEN StoreFile(level + 1, p, "open") /\ eol' = [eol EXCEPT ![p] = "writing"]
       ELSE eol' = [eol EXCEPT ![p] = "done"] /\ UNCHANGED store
  /\ UNCHANGED <<complete, merging, pc, level, seen, terminate, stops>>

(* The merge loop stops at the flag; the trailer is written all the same. *)
CloseOutput(p) ==
  /\ pc = "merge" /\ eol[p] = "writing"
  /\ \E state \in IF InputsWhole /\ ~terminate THEN {"whole"} ELSE {"short", "whole"} :
       StoreFile(level + 1, p, state)
  /\ eol' = [eol EXCEPT ![p] = "done"]
  /\ UNCHANGED <<complete, merging, pc, level, seen, terminate, stops>>

(* Both player threads are joined. *)
JoinOne ==
  /\ pc = "merge" /\ \E p \in Players : eol[p] = "done"
  /\ Goto("unmark")
  /\ UNCHANGED <<archive, level, seen, eol, terminate, stops>>
Join ==
  /\ pc = "merge" /\ \A p \in Players : eol[p] = "done"
  /\ Goto("unmark")
  /\ UNCHANGED <<archive, level, seen, eol, terminate, stops>>

(* The _merging sentinel is deleted on a clean finish only. *)
Unmark ==
  /\ pc = "unmark"
  /\ merging' = IF terminate THEN merging ELSE merging \ {level + 1}
  /\ Goto("publish")
  /\ UNCHANGED <<store, complete, level, seen, eol, terminate, stops>>

(* The _complete sentinel is written whatever the flag says. *)
Publish ==
  /\ pc = "publish"
  /\ complete' = complete \cup {level + 1}
  /\ level' = level + 1
  /\ eol' = Idle
  /\ Goto("loop")
  /\ UNCHANGED <<store, merging, seen, terminate, stops>>

----------------------------------------------------------------------------
(* The outside world *)

(* The process dies: killed, out of disk space, or a Fatal exit. *)
Crash ==
  /\ pc \in CrashAt /\ stops < MaxStops
  /\ Goto("down") /\ stops' = stops + 1
  /\ UNCHANGED <<archive, level, seen, eol, terminate>>

Interrupt ==
  /\ pc \in InterruptAt /\ ~terminate /\ stops < MaxStops
  /\ terminate' = TRUE /\ stops' = stops + 1
  /\ UNCHANGED <<archive, pc, level, seen, eol>>

Over == pc = "finished" /\ UNCHANGED vars

----------------------------------------------------------------------------
Scan ==
  \/ ScanComplete \/ ScanMerging \/ ScanFiles
  \/ DecideMissing \/ DecideCorrupt \/ DecideValid
  \/ \E p \in Players : Purge(p) \/ Probe(p)
MainLoop == WriteSeed \/ SealSeed \/ BeginLevel \/ Solve \/ Join \/ Unmark \/ Publish
PlayerThread(p) == OpenOutput(p) \/ CloseOutput(p)

Next ==
  \/ Start \/ Scan \/ MainLoop
  \/ \E p \in Players : PlayerThread(p)
  \/ Crash \/ Interrupt \/ Over

(* The user restarts a run that ended early; the threads are scheduled. *)
Fairness ==
  /\ WF_vars(Start) /\ WF_vars(Scan) /\ WF_vars(MainLoop)
  /\ \A p \in Players : WF_vars(PlayerThread(p))

Spec == Init /\ [][Next]_vars /\ Fairness

----------------------------------------------------------------------------
(* Properties *)

(* Every variable keeps to the values the code can give it. *)
TypeOK ==
  /\ store \in [Levels -> [Players -> FileStates]]
  /\ complete \subseteq Levels /\ merging \subseteq Levels
  /\ pc \in Points \cup {"down", "finished"}
  /\ level \in 0..MaxLevel + 1
  /\ seen \in [Players -> {"unseen", "corrupt", "absent", "short", "whole"}]
  /\ eol \in [Players -> {"idle", "writing", "done"}]
  /\ terminate \in BOOLEAN /\ stops \in 0..MaxStops

WholeLevel(l) == \A p \in Players :
  store[l][p] = IF p \in Movers[l] THEN "whole" ELSE "absent"

(* A level is expanded only from the whole archive below it, however many *)
(* runs died before and wherever they died.                               *)
SolvesFromWholeArchive ==
  pc \in {"solve", "merge", "unmark", "publish"} => \A l \in 0..level : WholeLevel(l)

(* A _complete sentinel, which the scan trusts without opening a file, stands *)
(* for files that hold every board of the level.                              *)
CompleteMeansWhole == \A l \in complete : WholeLevel(l)

(* Files of a level whose merge is over: no sentinel says otherwise, and no *)
(* scan is purging them.                                                    *)
Finished(l) ==
  /\ l \notin merging /\ ~(pc = "purge" /\ level = l)
  /\ WholeLevel(l) /\ store[l] # NoFiles

(* Once both player threads have finished a level cleanly, no later run      *)
(* starts its merge again, deletes its files or rewrites them, even when the *)
(* process died before the _complete sentinel was written.                   *)
FinishedLevelKept == [][\A l \in Levels : Finished(l) => Finished(l)']_vars

(* The end-of-level merge never meets a file under the name it creates: a    *)
(* single uncompressed input is moved there by a call that would fail.       *)
OutputNameFree ==
  pc = "merge" => \A p \in Players : eol[p] = "idle" => store[level + 1][p] = "absent"

(* Restarted after each of finitely many crashes and interrupts, the program *)
(* goes through all levels.                                                  *)
AllLevelsSolved == <>(pc = "finished" /\ level = MaxLevel)
=============================================================================
