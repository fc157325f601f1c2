----------------------------- MODULE ResumeProofs -----------------------------
(***************************************************************************)
(* The level archive survives every death of the process: for any number   *)
(* of levels, any movers and any number of stops, a _complete sentinel     *)
(* stands for whole files, and a level is expanded from whole levels only. *)
(* The stops may come anywhere but where the runs show that they do harm.  *)
(***************************************************************************)
EXTENDS Resume, TLAPS

(* The two findings: a death between the deletion of _merging and that of   *)
(* the outputs, and Ctrl+C while the player threads merge.                  *)
HarmlessStops == "purge" \notin CrashAt /\ "merge" \notin InterruptAt

(* Where the main thread is bounds the level it works on.                   *)
LevelBounds ==
  /\ pc \in {"purge", "probe", "decide", "seed", "seal", "loop"} => level \in Levels
  /\ pc \in {"solve", "merge", "unmark", "publish"} => level < MaxLevel

TypeInv == TypeOK /\ LevelBounds

(* A level no run has begun to write, and one the scan will pass over.      *)
Clean(l) == store[l] = NoFiles /\ l \notin complete /\ l \notin merging
Established(l) ==
  WholeLevel(l) /\ (l \in complete \/ (store[l] # NoFiles /\ l \notin merging))

CleanFrom(l) == \A k \in Levels : l <= k => Clean(k)
EstablishedBelow(l) == \A k \in Levels : k < l => Established(k)

(* The seed is black's, and it is written in one go.                        *)
SeedFile ==
  /\ 0 \notin merging
  /\ store[0][White] = "absent" /\ store[0][Black] # "short"

(* Levels are begun in order.                                               *)
LevelsInOrder == \A l \in Levels : Clean(l) \/ EstablishedBelow(l)

(* Files that neither sentinel vouches for or doubts are whole, or unfit    *)
(* for BLFOpen, unless the scan is deleting them.                           *)
UnmarkedFile(l) ==
  \/ l \in complete \/ l \in merging
  \/ pc = "purge" /\ level = l
  \/ WholeLevel(l)
  \/ \A p \in Players : store[l][p] \in {"absent", "open"}
UnmarkedFiles == \A l \in Levels : UnmarkedFile(l)

(* The scan passes over established levels and knows what it has seen.      *)
ScanInv ==
  /\ pc \in {"scan", "purge", "probe", "decide"} => EstablishedBelow(level)
  /\ pc = "scan" => seen = Unseen
  /\ pc = "purge" =>
       /\ level \notin complete /\ level \notin merging /\ CleanFrom(level + 1)
       /\ seen[Black] # "unseen" => store[level][Black] = "absent"
  /\ pc \in {"probe", "decide"} =>
       /\ level \notin complete /\ level \notin merging
       /\ \A p \in Players : seen[p] = "corrupt" =>
            /\ store[level][p] = "absent"
            /\ \A q \in Players : store[level][q] \in {"absent", "open"}
       /\ \A p \in Players :
            seen[p] \notin {"unseen", "corrupt"} => store[level][p] = seen[p]
  /\ pc = "decide" => \A p \in Players : seen[p] # "unseen"

(* From the seed on, everything up to the level is established and nothing  *)
(* above it has been begun.                                                 *)
LoopInv ==
  /\ pc \in {"seed", "seal", "loop", "solve"} => CleanFrom(level + 1)
  /\ pc \in {"seed", "seal"} => level = 0 \/ EstablishedBelow(level + 1)
  /\ pc = "seal" => WholeLevel(0)
  /\ pc \in {"loop", "solve", "merge", "unmark", "publish"} => EstablishedBelow(level + 1)
  /\ pc \notin {"merge", "unmark", "publish", "down", "finished"} => eol = Idle

(* The end-of-level merge, thread by thread.                                *)
PlayerFile(p) ==
  /\ store[level + 1][p] =
       CASE eol[p] = "idle"    -> "absent"
         [] eol[p] = "writing" -> "open"
         [] eol[p] = "done"    -> IF p \in Movers[level + 1] THEN "whole" ELSE "absent"
  /\ eol[p] = "writing" => p \in Movers[level + 1]

MergeInv ==
  /\ pc \in {"merge", "unmark", "publish"} =>
       level + 1 \notin complete /\ CleanFrom(level + 2)
  /\ pc = "merge" => ~terminate /\ level + 1 \in merging
  /\ pc = "merge" => \A p \in Players : PlayerFile(p)
  /\ pc \in {"unmark", "publish"} => WholeLevel(level + 1)

ArchiveInv ==
  /\ TypeInv /\ SeedFile /\ CompleteMeansWhole /\ LevelsInOrder /\ UnmarkedFiles
  /\ ScanInv /\ LoopInv /\ MergeInv

-----------------------------------------------------------------------------
(* Types. *)

USE DEF White, Black, Players

(* The constants.                                                          *)
LEMMA Basics ==
  /\ MaxLevel \in Nat \ {0} /\ Levels = 0..MaxLevel
  /\ Movers \in [Levels -> SUBSET Players] /\ Movers[0] = {Black}
  /\ MaxStops \in Nat
BY ResumeAssumption DEF Levels

(* The values per player the scan and the merge begin with.                *)
LEMMA PerPlayerTypes ==
  /\ Unseen \in [Players -> {"unseen", "corrupt", "absent", "short", "whole"}]
  /\ Idle \in [Players -> {"idle", "writing", "done"}]
  /\ NoFiles \in [Players -> FileStates]
BY DEF Unseen, Idle, NoFiles, FileStates

(* Writing one file keeps the type of the store. *)
LEMMA StoreType ==
  ASSUME TypeOK, NEW l \in Levels, NEW p \in Players, NEW state \in FileStates,
         StoreFile(l, p, state)
  PROVE  store' \in [Levels -> [Players -> FileStates]]
BY DEF TypeOK, StoreFile

(* Nothing is in the archive before the first run. *)
LEMMA TypeInit == Init => TypeInv
<1> SUFFICES ASSUME Init PROVE TypeInv
  OBVIOUS
<1> USE DEF Init
<1>1. store \in [Levels -> [Players -> FileStates]]
  BY PerPlayerTypes
<1>2. pc \in Points \cup {"down", "finished"} /\ level \in 0..MaxLevel + 1 /\ stops \in 0..MaxStops
  BY Basics
<1>3. terminate \in BOOLEAN
  OBVIOUS
<1>4. LevelBounds
  BY DEF LevelBounds
<1> QED BY <1>1, <1>2, <1>3, <1>4, PerPlayerTypes DEF TypeInv, TypeOK

(* The scan leaves the levels only to come back one below. *)
LEMMA MissingType ==
  ASSUME TypeInv, FoundMissing(level)
  PROVE  pc' = "seed" /\ level' \in Levels /\ seen' = Unseen
BY Basics DEF TypeInv, TypeOK, FoundMissing, Goto

(* Each step keeps the types, wherever the process may die. *)
LEMMA TypeStep == TypeInv /\ [Next]_vars => TypeInv'
<1> SUFFICES ASSUME TypeInv, [Next]_vars PROVE TypeInv'
  OBVIOUS
<1> USE Basics DEF TypeInv, TypeOK, LevelBounds, Goto, StoreFile, archive, Points, FileStates
<1>1. CASE Start
  <2>1. terminate' \in BOOLEAN
    BY <1>1 DEF Start
  <2>2. level' \in 0..MaxLevel + 1 /\ pc' = "scan"
    BY <1>1 DEF Start
  <2> QED BY <1>1, <2>1, <2>2, PerPlayerTypes DEF Start
<1>2. CASE ScanComplete
  BY <1>2 DEF ScanComplete
<1>3. CASE ScanMerging
  BY <1>3 DEF ScanMerging
<1>4. CASE ScanFiles
  BY <1>4, MissingType DEF ScanFiles, Unseen
<1>5. CASE DecideMissing
  BY <1>5, MissingType DEF DecideMissing, Unseen
<1>6. CASE DecideCorrupt
  BY <1>6, MissingType DEF DecideCorrupt, NoFiles, Unseen
<1>7. CASE DecideValid
  BY <1>7 DEF DecideValid, Unseen
<1>8. ASSUME NEW p \in Players, Purge(p) PROVE TypeInv'
  BY <1>8, MissingType DEF Purge, Unseen
<1>9. ASSUME NEW p \in Players, Probe(p) PROVE TypeInv'
  <2>1. store' \in [Levels -> [Players -> FileStates]]
    BY <1>9, StoreType DEF Probe
  <2>2. seen' \in [Players -> {"unseen", "corrupt", "absent", "short", "whole"}]
    <3>1. CASE store[level][p] = "open"
      BY <1>9, <3>1 DEF Probe
    <3>2. CASE store[level][p] # "open"
      BY <1>9, <3>2 DEF Probe
    <3> QED BY <3>1, <3>2
  <2> QED BY <1>9, <2>1, <2>2 DEF Probe
<1>10. CASE WriteSeed
  <2>1. store' \in [Levels -> [Players -> FileStates]]
    <3>1. store' = store \/ \E state \in FileStates : StoreFile(0, Black, state)
      BY <1>10 DEF WriteSeed
    <3> QED BY <3>1, StoreType
  <2>2. pc' \in {"seed", "seal"} /\ UNCHANGED <<complete, merging, level, seen, eol, terminate, stops>>
    BY <1>10 DEF WriteSeed
  <2> QED BY <1>10, <2>1, <2>2 DEF WriteSeed
<1>11. CASE SealSeed
  BY <1>11 DEF SealSeed
<1>12. CASE BeginLevel
  BY <1>12 DEF BeginLevel
<1>13. CASE Solve
  <2>1. CASE terminate
    BY <1>13, <2>1 DEF Solve
  <2>2. CASE ~terminate
    <3>1. level + 1 \in Levels
      BY <1>13 DEF Solve
    <3>2. merging' \subseteq Levels
      BY <1>13, <2>2, <3>1 DEF Solve
    <3> QED BY <1>13, <2>2, <3>2 DEF Solve
  <2> QED BY <2>1, <2>2
<1>14. CASE Join
  BY <1>14 DEF Join
<1>15. CASE Unmark
  BY <1>15 DEF Unmark
<1>16. CASE Publish
  BY <1>16 DEF Publish, Idle
<1>17. ASSUME NEW p \in Players, OpenOutput(p) PROVE TypeInv'
  <2>1. store' \in [Levels -> [Players -> FileStates]]
    <3>1. level + 1 \in Levels
      BY <1>17 DEF OpenOutput
    <3>2. store' = store \/ StoreFile(level + 1, p, "open")
      BY <1>17 DEF OpenOutput
    <3> QED BY <3>1, <3>2, StoreType
  <2>2. eol' \in [Players -> {"idle", "writing", "done"}]
    BY <1>17 DEF OpenOutput
  <2> QED BY <1>17, <2>1, <2>2 DEF OpenOutput
<1>18. ASSUME NEW p \in Players, CloseOutput(p) PROVE TypeInv'
  BY <1>18 DEF CloseOutput
<1>19. CASE Crash
  BY <1>19 DEF Crash, run
<1>20. CASE Interrupt
  BY <1>20 DEF Interrupt
<1>21. CASE UNCHANGED vars
  BY <1>21 DEF vars, run
<1> QED
  BY <1>1, <1>2, <1>3, <1>4, <1>5, <1>6, <1>7, <1>8, <1>9, <1>10, <1>11, <1>12, <1>13, <1>14,
     <1>15, <1>16, <1>17, <1>18, <1>19, <1>20, <1>21 DEF Next, Scan, MainLoop, PlayerThread, Over

(* Every variable of the archive and of a run keeps its type, whatever stops *)
(* the process and wherever.                                                *)
THEOREM TypeCorrect == Spec => []TypeOK
<1>1. TypeInv => TypeOK
  BY DEF TypeInv
<1> QED BY <1>1, TypeInit, TypeStep, PTL DEF Spec

-----------------------------------------------------------------------------
(* The archive invariant, under harmless stops: one lemma per step of a run. *)


(* The archive starts in its invariant.                                    *)
LEMMA ArchiveInit == Init => ArchiveInv
<1> SUFFICES ASSUME Init PROVE ArchiveInv
  OBVIOUS
<1> USE Basics DEF Init, NoFiles, Clean, WholeLevel
<1>1. SeedFile /\ CompleteMeansWhole
  BY DEF SeedFile, CompleteMeansWhole
<1>2. LevelsInOrder /\ UnmarkedFiles
  BY DEF LevelsInOrder, UnmarkedFiles, UnmarkedFile
<1>3. ScanInv /\ LoopInv /\ MergeInv
  BY DEF ScanInv, LoopInv, MergeInv
<1> QED BY <1>1, <1>2, <1>3, TypeInit DEF ArchiveInv

(* A step that touches neither the files nor the sentinels of a level. *)
SameLevel(l) ==
  /\ store'[l] = store[l]
  /\ l \in complete' <=> l \in complete
  /\ l \in merging' <=> l \in merging

(* A level whose files stay as they are stays what it is.                  *)
LEMMA SameLevelKept ==
  ASSUME NEW l \in Levels, SameLevel(l)
  PROVE  /\ Clean(l)' <=> Clean(l)
         /\ Established(l)' <=> Established(l)
         /\ WholeLevel(l)' <=> WholeLevel(l)
BY DEF SameLevel, Clean, Established, WholeLevel

(* What the archive says of itself holds on when it is not touched. *)
LEMMA ArchiveKept ==
  ASSUME ArchiveInv, UNCHANGED archive, pc = "purge" => UNCHANGED <<pc, level>>
  PROVE  /\ SeedFile' /\ CompleteMeansWhole' /\ LevelsInOrder' /\ UnmarkedFiles'
         /\ \A l \in Levels : (Clean(l)' <=> Clean(l)) /\ (Established(l)' <=> Established(l))
<1> USE DEF ArchiveInv, archive
<1>1. \A l \in Levels : SameLevel(l)
  BY DEF SameLevel
<1>2. \A l \in Levels : (Clean(l)' <=> Clean(l)) /\ (Established(l)' <=> Established(l))
  BY <1>1, SameLevelKept
<1>3. LevelsInOrder'
  BY <1>2 DEF LevelsInOrder, EstablishedBelow
<1>4. SeedFile' /\ CompleteMeansWhole'
  BY DEF SeedFile, CompleteMeansWhole, WholeLevel
<1>5. UnmarkedFiles'
  BY DEF UnmarkedFiles, UnmarkedFile, WholeLevel
<1> QED BY <1>2, <1>3, <1>4, <1>5

(* A step touches one level, above which nothing has been begun. *)
LEMMA OneLevelInOrder ==
  ASSUME NEW l \in Levels, \A k \in Levels : k # l => SameLevel(k),
         \A k \in Levels : l < k => Clean(k),
         \A k \in Levels : k < l => Established(k)
  PROVE  /\ LevelsInOrder'
         /\ \A k \in Levels : l < k => Clean(k)'
         /\ \A k \in Levels : k < l => Established(k)'
<1>1. \A k \in Levels : l < k => Clean(k)'
  BY Basics, SameLevelKept
<1>2. \A k \in Levels : k < l => Established(k)'
  BY Basics, SameLevelKept
<1>3. LevelsInOrder'
  BY <1>1, <1>2, Basics DEF LevelsInOrder, EstablishedBelow
<1> QED BY <1>1, <1>2, <1>3

(* For the rest of the archive it is enough to look at that level. *)
LEMMA OneLevelKept ==
  ASSUME ArchiveInv, TypeInv', NEW l \in Levels, \A k \in Levels : k # l => SameLevel(k),
         pc = "purge" => level = l,
         l = 0 => SeedFile', l \in complete' => WholeLevel(l)', UnmarkedFile(l)'
  PROVE  SeedFile' /\ CompleteMeansWhole' /\ UnmarkedFiles'
<1> USE DEF ArchiveInv
<1>1. SeedFile'
  BY Basics DEF SeedFile, SameLevel
<1>2. CompleteMeansWhole'
  <2>1. complete' \subseteq Levels
    BY DEF TypeInv, TypeOK
  <2>2. ASSUME NEW k \in complete' PROVE WholeLevel(k)'
    BY <2>1, <2>2, SameLevelKept DEF SameLevel, CompleteMeansWhole
  <2> QED BY <2>2 DEF CompleteMeansWhole
<1>3. UnmarkedFiles'
  <2>1. ASSUME NEW k \in Levels, k # l PROVE UnmarkedFile(k)'
    BY <2>1, SameLevelKept DEF UnmarkedFiles, UnmarkedFile, SameLevel
  <2> QED BY <2>1 DEF UnmarkedFiles
<1> QED BY <1>1, <1>2, <1>3

-----------------------------------------------------------------------------
(* The scan. *)

(* At a level that is not established the archive ends. *)
LEMMA NothingAbove ==
  ASSUME ArchiveInv, NEW l \in Levels, ~Established(l)
  PROVE  \A k \in Levels : l < k => Clean(k)
BY Basics DEF ArchiveInv, LevelsInOrder, EstablishedBelow

(* A missing level turns the scan to the level before it. *)
LEMMA MissingKept ==
  ASSUME ArchiveInv, FoundMissing(level), pc \in {"scan", "purge", "decide"}, UNCHANGED eol,
         \A k \in Levels : level <= k => Clean(k)',
         \A k \in Levels : k < level => Established(k)'
  PROVE  ScanInv' /\ LoopInv' /\ MergeInv'
<1>1. level \in 0..MaxLevel + 1 /\ eol = Idle
  BY DEF ArchiveInv, TypeInv, TypeOK, LoopInv
<1>2. pc' = "seed"
  BY DEF FoundMissing, Goto
<1>3. ScanInv' /\ MergeInv'
  BY <1>2 DEF ScanInv, MergeInv
<1>4. \A k \in Levels : level' + 1 <= k => Clean(k)'
  BY <1>1, Basics DEF FoundMissing
<1>5. level' = 0 \/ \A k \in Levels : k < level' + 1 => Established(k)'
  BY <1>1, Basics DEF FoundMissing
<1>6. LoopInv'
  BY <1>1, <1>2, <1>4, <1>5 DEF LoopInv, CleanFrom, EstablishedBelow
<1> QED BY <1>3, <1>6

(* Starting the program keeps the invariant.                               *)
LEMMA StartKept == ASSUME ArchiveInv, Start PROVE ArchiveInv'
<1> USE DEF Start, Goto
<1>1. TypeInv'
  BY TypeStep DEF Next, ArchiveInv
<1>2. SeedFile' /\ CompleteMeansWhole' /\ LevelsInOrder' /\ UnmarkedFiles'
  BY ArchiveKept
<1>3. ScanInv' /\ LoopInv' /\ MergeInv'
  BY Basics DEF ScanInv, LoopInv, MergeInv, EstablishedBelow
<1> QED BY <1>1, <1>2, <1>3 DEF ArchiveInv

(* A level with a _complete sentinel is established. *)
LEMMA ScanCompleteKept == ASSUME ArchiveInv, ScanComplete PROVE ArchiveInv'
<1> USE DEF ScanComplete
<1>1. TypeInv'
  BY TypeStep DEF Next, Scan, ArchiveInv
<1>2. /\ SeedFile' /\ CompleteMeansWhole' /\ LevelsInOrder' /\ UnmarkedFiles'
      /\ \A k \in Levels : Established(k)' <=> Established(k)
  BY ArchiveKept
<1>3. level \in Levels /\ Established(level)
  BY DEF ArchiveInv, TypeInv, TypeOK, CompleteMeansWhole, Established
<1>4. \A k \in Levels : k < level' => Established(k)'
  BY <1>2, <1>3, Basics DEF ArchiveInv, ScanInv, EstablishedBelow
<1>5. ScanInv'
  BY <1>4 DEF ArchiveInv, ScanInv, EstablishedBelow
<1>6. LoopInv' /\ MergeInv'
  BY DEF ArchiveInv, LoopInv, MergeInv
<1> QED BY <1>1, <1>2, <1>5, <1>6 DEF ArchiveInv

(* A level whose merge did not end is not established, so it is the last. *)
LEMMA ScanMergingKept == ASSUME ArchiveInv, ScanMerging PROVE ArchiveInv'
<1> USE DEF ScanMerging, Goto
<1>1. TypeInv'
  BY TypeStep DEF Next, Scan, ArchiveInv
<1>2. PICK l \in Levels : l = level
  BY DEF ArchiveInv, TypeInv, TypeOK
<1>3. ~Established(l)
  BY <1>2 DEF Established
<1>4. \A k \in Levels : k # l => SameLevel(k)
  BY <1>2 DEF SameLevel
<1>5. \A k \in Levels : l < k => Clean(k)
  BY <1>3, NothingAbove
<1>6. \A k \in Levels : k < l => Established(k)
  BY <1>2 DEF ArchiveInv, ScanInv, EstablishedBelow
<1>7. /\ LevelsInOrder'
      /\ \A k \in Levels : l < k => Clean(k)'
      /\ \A k \in Levels : k < l => Established(k)'
  BY <1>4, <1>5, <1>6, OneLevelInOrder
<1>8. SeedFile' /\ CompleteMeansWhole' /\ UnmarkedFiles'
  <2>1. l = 0 => SeedFile'
    BY <1>2 DEF ArchiveInv, SeedFile
  <2> QED BY <1>1, <1>2, <1>4, <2>1, OneLevelKept DEF UnmarkedFile
<1>9. ScanInv'
  BY <1>2, <1>7, Basics DEF ArchiveInv, ScanInv, EstablishedBelow, CleanFrom, Unseen
<1>10. LoopInv' /\ MergeInv'
  BY DEF ArchiveInv, LoopInv, MergeInv
<1> QED BY <1>1, <1>7, <1>8, <1>9, <1>10 DEF ArchiveInv

(* After the second deletion nothing is left of the level. *)
LEMMA PurgeKept ==
  ASSUME ArchiveInv, NEW p \in Players, Purge(p)
  PROVE  ArchiveInv'
<1>1. TypeInv'
  BY TypeStep DEF Next, Scan, ArchiveInv
<1>2. PICK l \in Levels : l = level
  BY DEF Purge, ArchiveInv, TypeInv, LevelBounds
<1>3. /\ store \in [Levels -> [Players -> FileStates]]
      /\ l \notin complete /\ l \notin merging
  BY <1>2 DEF Purge, ArchiveInv, TypeInv, TypeOK, ScanInv
<1>4. \A k \in Levels : k # l => SameLevel(k)
  BY <1>2, <1>3 DEF Purge, SameLevel, StoreFile
<1>5. \A k \in Levels : l < k => Clean(k)
  BY <1>2, Basics DEF Purge, ArchiveInv, ScanInv, CleanFrom
<1>6. \A k \in Levels : k < l => Established(k)
  BY <1>2 DEF Purge, ArchiveInv, ScanInv, EstablishedBelow
<1>7. /\ LevelsInOrder'
      /\ \A k \in Levels : l < k => Clean(k)'
      /\ \A k \in Levels : k < l => Established(k)'
  BY <1>4, <1>5, <1>6, OneLevelInOrder
<1>8. store'[l][p] = "absent" /\ \A q \in Players : q # p => store'[l][q] = store[l][q]
  BY <1>2, <1>3 DEF Purge, StoreFile
<1>9. l = 0 => SeedFile'
  BY <1>2, <1>3, <1>8, Basics DEF ArchiveInv, SeedFile, Purge
<1>10. CASE p = Black
  <2>1. pc' = pc /\ level' = level /\ pc = "purge"
    BY <1>10 DEF Purge
  <2>2. SeedFile' /\ CompleteMeansWhole' /\ UnmarkedFiles'
    BY <1>1, <1>2, <1>3, <1>4, <1>9, <2>1, OneLevelKept DEF UnmarkedFile, Purge
  <2>3. ScanInv'
    <3>1. complete' = complete /\ merging' = merging /\ store'[level'][Black] = "absent"
      BY <1>2, <1>8, <1>10 DEF Purge
    <3>2. CleanFrom(level + 1)'
      BY <1>2, <1>7, <2>1, Basics DEF CleanFrom
    <3>3. EstablishedBelow(level)'
      BY <1>2, <1>7, <2>1 DEF EstablishedBelow
    <3> QED BY <1>2, <1>3, <2>1, <3>1, <3>2, <3>3 DEF ScanInv
  <2>4. LoopInv' /\ MergeInv'
    BY <2>1 DEF LoopInv, MergeInv, ArchiveInv, Purge
  <2> QED BY <1>1, <1>7, <2>2, <2>3, <2>4 DEF ArchiveInv
<1>11. CASE p = White
  <2>1. store'[l][White] = "absent" /\ store'[l][Black] = "absent"
    BY <1>2, <1>8, <1>11 DEF Purge, ArchiveInv, ScanInv
  <2>2. store'[l] \in [Players -> FileStates]
    BY <1>1 DEF TypeInv, TypeOK
  <2>3. Clean(l)'
    BY <1>3, <2>1, <2>2 DEF Clean, NoFiles, Purge
  <2>4. SeedFile' /\ CompleteMeansWhole' /\ UnmarkedFiles'
    BY <1>1, <1>2, <1>3, <1>4, <1>9, <2>1, OneLevelKept DEF UnmarkedFile, Purge
  <2>5. ScanInv' /\ LoopInv' /\ MergeInv'
    <3>1. FoundMissing(level) /\ pc = "purge" /\ UNCHANGED eol
      BY <1>11 DEF Purge
    <3>2. \A k \in Levels : level <= k => Clean(k)'
      BY <1>2, <1>7, <2>3, Basics
    <3>3. \A k \in Levels : k < level => Established(k)'
      BY <1>2, <1>7
    <3> QED BY <3>1, <3>2, <3>3, MissingKept
  <2> QED BY <1>1, <1>7, <2>4, <2>5 DEF ArchiveInv
<1> QED BY <1>10, <1>11

(* Looking at a level's files keeps it.                                    *)
LEMMA ScanFilesKept == ASSUME ArchiveInv, ScanFiles PROVE ArchiveInv'
<1> USE DEF ScanFiles, Goto
<1>1. TypeInv'
  BY TypeStep DEF Next, Scan, ArchiveInv
<1>2. /\ SeedFile' /\ CompleteMeansWhole' /\ LevelsInOrder' /\ UnmarkedFiles'
      /\ \A k \in Levels : Established(k)' <=> Established(k)
  BY ArchiveKept
<1>3. \A k \in Levels : k < level => Established(k)'
  BY <1>2 DEF ArchiveInv, ScanInv, EstablishedBelow
<1>4. CASE level \in Levels
  <2>1. ScanInv'
    BY <1>3, <1>4 DEF ArchiveInv, ScanInv, EstablishedBelow, archive, Unseen
  <2>2. LoopInv' /\ MergeInv'
    BY <1>4 DEF ArchiveInv, LoopInv, MergeInv
  <2> QED BY <1>1, <1>2, <2>1, <2>2 DEF ArchiveInv
<1>5. CASE level \notin Levels
  <2>1. \A k \in Levels : ~(level <= k)
    BY <1>5, Basics DEF ArchiveInv, TypeInv, TypeOK
  <2>2. ScanInv' /\ LoopInv' /\ MergeInv'
    BY <1>3, <1>5, <2>1, MissingKept
  <2> QED BY <1>1, <1>2, <2>2 DEF ArchiveInv
<1> QED BY <1>4, <1>5

(* A deleted file was one that nothing vouched for. *)
LEMMA ProbeKept ==
  ASSUME ArchiveInv, NEW p \in Players, Probe(p)
  PROVE  ArchiveInv'
<1>1. TypeInv'
  BY TypeStep DEF Next, Scan, ArchiveInv
<1>2. PICK l \in Levels : l = level
  BY DEF Probe, ArchiveInv, TypeInv, LevelBounds
<1>3. store \in [Levels -> [Players -> FileStates]]
  BY DEF ArchiveInv, TypeInv, TypeOK
<1>4. /\ seen \in [Players -> {"unseen", "corrupt", "absent", "short", "whole"}]
      /\ pc = "probe" /\ level' = level /\ complete' = complete /\ merging' = merging
      /\ eol' = eol /\ pc' \in {"probe", "decide"}
      /\ l \notin complete /\ l \notin merging
      /\ \A k \in Levels : k < l => Established(k)
  BY <1>2 DEF Probe, ArchiveInv, TypeInv, TypeOK, ScanInv, Goto, EstablishedBelow
<1>5. pc' = "decide" => \A q \in Players : seen'[q] # "unseen"
  <2>1. pc' = "decide" => p = White /\ seen[Black] # "unseen" /\ seen'[Black] = seen[Black]
    BY <1>4 DEF Probe, Goto
  <2>2. seen'[p] # "unseen"
    BY <1>2, <1>3, <1>4 DEF Probe, FileStates
  <2> QED BY <2>1, <2>2
<1>6. LoopInv' /\ MergeInv'
  BY <1>4 DEF ArchiveInv, LoopInv, MergeInv
<1>7. CASE store[l][p] = "open"
  <2>1. ~WholeLevel(l) /\ ~Established(l)
    BY <1>7 DEF WholeLevel, Established
  <2>2. \A q \in Players : store[l][q] \in {"absent", "open"}
    BY <1>2, <1>4, <2>1 DEF ArchiveInv, UnmarkedFiles, UnmarkedFile
  <2>3. /\ store'[l][p] = "absent" /\ seen'[p] = "corrupt"
        /\ \A q \in Players : q # p => store'[l][q] = store[l][q] /\ seen'[q] = seen[q]
    BY <1>2, <1>3, <1>4, <1>7 DEF Probe, StoreFile
  <2>4. \A k \in Levels : k # l => SameLevel(k)
    BY <1>2, <1>3, <1>7 DEF Probe, SameLevel, StoreFile
  <2>5. /\ LevelsInOrder'
        /\ \A k \in Levels : k < l => Established(k)'
    BY <1>4, <2>1, <2>4, NothingAbove, OneLevelInOrder
  <2>6. l = 0 => SeedFile'
    BY <1>4, <2>2, <2>3, Basics DEF ArchiveInv, SeedFile
  <2>7. UnmarkedFile(l)'
    BY <2>2, <2>3 DEF UnmarkedFile
  <2>8. SeedFile' /\ CompleteMeansWhole' /\ UnmarkedFiles'
    BY <1>1, <1>4, <2>4, <2>6, <2>7, OneLevelKept
  <2>9. \A q \in Players : seen'[q] = "corrupt" =>
          /\ store'[l][q] = "absent"
          /\ \A r \in Players : store'[l][r] \in {"absent", "open"}
    BY <1>2, <1>4, <2>2, <2>3 DEF ArchiveInv, ScanInv
  <2>10. \A q \in Players : seen'[q] \notin {"unseen", "corrupt"} => store'[l][q] = seen'[q]
    BY <1>2, <1>4, <2>3 DEF ArchiveInv, ScanInv
  <2>11. ScanInv'
    BY <1>2, <1>4, <1>5, <2>5, <2>9, <2>10 DEF ScanInv, EstablishedBelow
  <2> QED BY <1>1, <1>6, <2>5, <2>8, <2>11 DEF ArchiveInv
<1>8. CASE store[l][p] # "open"
  <2>1. UNCHANGED archive
    BY <1>2, <1>8 DEF Probe, archive
  <2>2. /\ SeedFile' /\ CompleteMeansWhole' /\ LevelsInOrder' /\ UnmarkedFiles'
        /\ \A k \in Levels : Established(k)' <=> Established(k)
    BY <1>4, <2>1, ArchiveKept
  <2>3. /\ seen'[p] = store[l][p] /\ store[l][p] # "corrupt"
        /\ \A q \in Players : q # p => seen'[q] = seen[q]
    BY <1>2, <1>3, <1>4, <1>8 DEF Probe, FileStates
  <2>4. \A q \in Players : seen'[q] = "corrupt" =>
          /\ store'[l][q] = "absent"
          /\ \A r \in Players : store'[l][r] \in {"absent", "open"}
    BY <1>2, <1>4, <2>1, <2>3 DEF ArchiveInv, ScanInv, archive
  <2>5. \A q \in Players : seen'[q] \notin {"unseen", "corrupt"} => store'[l][q] = seen'[q]
    BY <1>2, <1>4, <2>1, <2>3 DEF ArchiveInv, ScanInv, archive
  <2>6. ScanInv'
    BY <1>2, <1>4, <1>5, <2>2, <2>4, <2>5 DEF ScanInv, EstablishedBelow
  <2> QED BY <1>1, <1>6, <2>2, <2>6 DEF ArchiveInv
<1> QED BY <1>7, <1>8

(* Both files absent: nothing of the level is left. *)
LEMMA DecideMissingKept == ASSUME ArchiveInv, DecideMissing PROVE ArchiveInv'
<1>1. TypeInv'
  BY TypeStep DEF Next, Scan, ArchiveInv
<1>2. PICK l \in Levels : l = level
  BY DEF DecideMissing, ArchiveInv, TypeInv, LevelBounds
<1>3. /\ l \notin complete /\ l \notin merging
      /\ \A q \in Players : store[l][q] = "absent"
      /\ \A k \in Levels : k < l => Established(k)
  BY <1>2 DEF DecideMissing, AllAbsent, NoFiles, ArchiveInv, ScanInv, EstablishedBelow
<1>4. store[l] = NoFiles
  BY <1>3 DEF ArchiveInv, TypeInv, TypeOK, NoFiles
<1>5. Clean(l) /\ ~Established(l)
  BY <1>3, <1>4 DEF Clean, Established
<1>6. /\ SeedFile' /\ CompleteMeansWhole' /\ LevelsInOrder' /\ UnmarkedFiles'
      /\ \A k \in Levels : (Clean(k)' <=> Clean(k)) /\ (Established(k)' <=> Established(k))
  BY ArchiveKept DEF DecideMissing
<1>7. \A k \in Levels : level <= k => Clean(k)'
  BY <1>2, <1>5, <1>6, NothingAbove, Basics
<1>8. \A k \in Levels : k < level => Established(k)'
  BY <1>2, <1>3, <1>6
<1>9. ScanInv' /\ LoopInv' /\ MergeInv'
  BY <1>7, <1>8, MissingKept DEF DecideMissing
<1> QED BY <1>1, <1>6, <1>9 DEF ArchiveInv

(* A valid file next to a corrupt one goes with it. *)
LEMMA DecideCorruptKept == ASSUME ArchiveInv, DecideCorrupt PROVE ArchiveInv'
<1>1. TypeInv'
  BY TypeStep DEF Next, Scan, ArchiveInv
<1>2. PICK l \in Levels : l = level
  BY DEF DecideCorrupt, ArchiveInv, TypeInv, LevelBounds
<1>3. /\ l \notin complete /\ l \notin merging
      /\ \A k \in Levels : k < l => Established(k)
      /\ complete' = complete /\ merging' = merging
      /\ store' = [store EXCEPT ![l] = NoFiles]
  BY <1>2 DEF DecideCorrupt, ArchiveInv, ScanInv, EstablishedBelow
<1>4. store'[l] = NoFiles /\ \A k \in Levels : k # l => SameLevel(k)
  BY <1>3 DEF SameLevel, ArchiveInv, TypeInv, TypeOK
<1>5. Clean(l)'
  BY <1>3, <1>4 DEF Clean
<1>6. ~Established(l)
  <2>1. PICK p \in Players : seen[p] = "corrupt"
    BY DEF DecideCorrupt, SomeCorrupt
  <2>2. \A q \in Players : store[l][q] \in {"absent", "open"}
    BY <1>2, <2>1 DEF DecideCorrupt, ArchiveInv, ScanInv
  <2>3. store[l] \in [Players -> FileStates]
    BY DEF ArchiveInv, TypeInv, TypeOK
  <2>4. WholeLevel(l) => \A q \in Players : store[l][q] = "absent"
    BY <2>2 DEF WholeLevel
  <2> QED BY <1>3, <2>3, <2>4 DEF Established, NoFiles
<1>7. /\ LevelsInOrder'
      /\ \A k \in Levels : l < k => Clean(k)'
      /\ \A k \in Levels : k < l => Established(k)'
  BY <1>3, <1>4, <1>6, NothingAbove, OneLevelInOrder
<1>8. SeedFile' /\ CompleteMeansWhole' /\ UnmarkedFiles'
  <2>1. l = 0 => SeedFile'
    BY <1>3, <1>4 DEF ArchiveInv, SeedFile, NoFiles
  <2>2. UnmarkedFile(l)'
    BY <1>4 DEF UnmarkedFile, NoFiles
  <2>3. pc # "purge"
    BY DEF DecideCorrupt
  <2> QED BY <1>1, <1>3, <1>4, <2>1, <2>2, <2>3, OneLevelKept
<1>9. ScanInv' /\ LoopInv' /\ MergeInv'
  <2>1. \A k \in Levels : level <= k => Clean(k)'
    BY <1>2, <1>5, <1>7, Basics
  <2>2. \A k \in Levels : k < level => Established(k)'
    BY <1>2, <1>7
  <2> QED BY <2>1, <2>2, MissingKept DEF DecideCorrupt
<1> QED BY <1>1, <1>7, <1>8, <1>9 DEF ArchiveInv

(* Files that open are whole, for nothing doubts them: the scan may go on. *)
LEMMA DecideValidKept == ASSUME ArchiveInv, DecideValid PROVE ArchiveInv'
<1>1. TypeInv'
  BY TypeStep DEF Next, Scan, ArchiveInv
<1>2. PICK l \in Levels : l = level
  BY DEF DecideValid, ArchiveInv, TypeInv, LevelBounds
<1>3. /\ pc = "decide" /\ seen # NoFiles /\ l \notin complete /\ l \notin merging
      /\ \A q \in Players : seen[q] \notin {"unseen", "corrupt"} /\ store[l][q] = seen[q]
      /\ \A k \in Levels : k < l => Established(k)
  BY <1>2 DEF DecideValid, AllAbsent, SomeCorrupt, ArchiveInv, ScanInv, EstablishedBelow
<1>4. seen \in [Players -> {"unseen", "corrupt", "absent", "short", "whole"}]
  BY DEF ArchiveInv, TypeInv, TypeOK
<1>5. ~\A q \in Players : store[l][q] = "absent"
  BY <1>3, <1>4 DEF NoFiles
<1>6. WholeLevel(l)
  BY <1>2, <1>3, <1>4, <1>5 DEF ArchiveInv, UnmarkedFiles, UnmarkedFile
<1>7. Established(l)
  BY <1>3, <1>5, <1>6 DEF Established, NoFiles
<1>8. /\ SeedFile' /\ CompleteMeansWhole' /\ LevelsInOrder' /\ UnmarkedFiles'
      /\ \A k \in Levels : (Clean(k)' <=> Clean(k)) /\ (Established(k)' <=> Established(k))
  BY <1>3, ArchiveKept DEF DecideValid
<1>9. pc' = "scan" /\ level' = level + 1 /\ seen' = Unseen /\ eol' = eol
  BY DEF DecideValid, Goto
<1>10. \A k \in Levels : k < level' => Established(k)'
  BY <1>2, <1>3, <1>7, <1>8, <1>9, Basics
<1>11. ScanInv'
  BY <1>9, <1>10 DEF ScanInv, EstablishedBelow
<1>12. LoopInv' /\ MergeInv'
  BY <1>3, <1>9 DEF ArchiveInv, LoopInv, MergeInv
<1> QED BY <1>1, <1>8, <1>11, <1>12 DEF ArchiveInv

-----------------------------------------------------------------------------
(* The seed. *)

(* Where black's file is rewritten the seed level is all there is. *)
LEMMA WriteSeedKept == ASSUME ArchiveInv, WriteSeed PROVE ArchiveInv'
<1>1. TypeInv'
  BY TypeStep DEF Next, MainLoop, ArchiveInv
<1>2. /\ pc = "seed" /\ pc' \in {"seed", "seal"} /\ eol' = eol /\ level' = level
      /\ complete' = complete /\ merging' = merging
  BY DEF WriteSeed, Goto
<1>3. /\ 0 \in Levels /\ level \in Levels
      /\ store \in [Levels -> [Players -> FileStates]]
      /\ store[0][White] = "absent" /\ store[0][Black] # "short" /\ 0 \notin merging
  BY <1>2, Basics DEF ArchiveInv, TypeInv, TypeOK, LevelBounds, SeedFile
<1>4. CASE store[0][Black] \in {"absent", "open"}
  <2>1. ~WholeLevel(0) /\ ~Established(0) /\ 0 \notin complete
    BY <1>3, <1>4, Basics DEF WholeLevel, Established, ArchiveInv, CompleteMeansWhole
  <2>2. \E state \in {"open", "whole"} :
          StoreFile(0, Black, state) /\ (pc' = "seal" => state = "whole")
    BY <1>2, <1>4 DEF WriteSeed, Goto
  <2>3. /\ store'[0][White] = "absent" /\ store'[0][Black] \in {"open", "whole"}
        /\ pc' = "seal" => store'[0][Black] = "whole"
        /\ \A k \in Levels : k # 0 => SameLevel(k)
    BY <1>2, <1>3, <2>2 DEF StoreFile, SameLevel
  <2>4. store'[0][Black] = "whole" => WholeLevel(0)'
    BY <2>3, Basics DEF WholeLevel
  <2>5. \A k \in Levels : 0 < k => Clean(k)
    BY <1>3, <2>1, NothingAbove
  <2>6. \A k \in Levels : ~(k < 0)
    BY Basics
  <2>7. LevelsInOrder' /\ \A k \in Levels : 0 < k => Clean(k)'
    BY <1>3, <2>3, <2>5, <2>6, OneLevelInOrder
  <2>8. SeedFile' /\ CompleteMeansWhole' /\ UnmarkedFiles'
    <3>1. SeedFile'
      BY <1>2, <1>3, <2>3 DEF SeedFile
    <3>2. UnmarkedFile(0)'
      BY <2>3, <2>4 DEF UnmarkedFile
    <3> QED BY <1>1, <1>2, <1>3, <2>1, <2>3, <3>1, <3>2, OneLevelKept
  <2>9. level = 0
    BY <1>2, <1>3, <2>1, Basics DEF ArchiveInv, LoopInv, EstablishedBelow
  <2>10. ScanInv' /\ MergeInv'
    BY <1>2 DEF ScanInv, MergeInv
  <2>11. LoopInv'
    BY <1>2, <2>3, <2>4, <2>7, <2>9, Basics DEF ArchiveInv, LoopInv, CleanFrom
  <2> QED BY <1>1, <2>7, <2>8, <2>10, <2>11 DEF ArchiveInv
<1>5. CASE store[0][Black] \notin {"absent", "open"}
  <2>1. UNCHANGED archive /\ pc' = "seal"
    BY <1>2, <1>5 DEF WriteSeed, Goto, archive
  <2>2. WholeLevel(0)'
    BY <1>3, <1>5, <2>1, Basics DEF WholeLevel, FileStates, archive
  <2>3. /\ SeedFile' /\ CompleteMeansWhole' /\ LevelsInOrder' /\ UnmarkedFiles'
        /\ \A k \in Levels : (Clean(k)' <=> Clean(k)) /\ (Established(k)' <=> Established(k))
    BY <1>2, <2>1, ArchiveKept
  <2>4. ScanInv' /\ MergeInv'
    BY <2>1 DEF ScanInv, MergeInv
  <2>5. LoopInv'
    BY <1>2, <2>1, <2>2, <2>3 DEF ArchiveInv, LoopInv, CleanFrom, EstablishedBelow
  <2> QED BY <1>1, <2>3, <2>4, <2>5 DEF ArchiveInv
<1> QED BY <1>4, <1>5

(* The sentinel is written for whole files, whatever the level the run is at. *)
LEMMA SealSeedKept == ASSUME ArchiveInv, SealSeed PROVE ArchiveInv'
<1> USE DEF SealSeed, Goto
<1>1. TypeInv'
  BY TypeStep DEF Next, MainLoop, ArchiveInv
<1>2. /\ 0 \in Levels /\ level \in Levels
      /\ \A k \in Levels : k # 0 => SameLevel(k)
  BY Basics DEF SameLevel, ArchiveInv, TypeInv, LevelBounds
<1>3. WholeLevel(0)' /\ Established(0)' /\ SeedFile'
  BY DEF ArchiveInv, LoopInv, SeedFile, Established, WholeLevel
<1>4. SeedFile' /\ CompleteMeansWhole' /\ UnmarkedFiles'
  BY <1>1, <1>2, <1>3, OneLevelKept DEF UnmarkedFile
<1>5. \A k \in Levels : (k # 0 /\ Clean(k) => Clean(k)') /\ (Established(k) => Established(k)')
  BY <1>2, <1>3, SameLevelKept
<1>6. LevelsInOrder'
  <2>1. ASSUME NEW l \in Levels, l # 0 PROVE (Clean(l) \/ EstablishedBelow(l))'
    BY <1>5, <2>1 DEF ArchiveInv, LevelsInOrder, EstablishedBelow
  <2>2. EstablishedBelow(0)'
    BY Basics DEF EstablishedBelow
  <2> QED BY <2>1, <2>2 DEF LevelsInOrder
<1>7. ScanInv' /\ MergeInv'
  BY DEF ScanInv, MergeInv
<1>8. \A k \in Levels : level + 1 <= k => Clean(k)'
  BY <1>2, <1>5, Basics DEF ArchiveInv, LoopInv, CleanFrom
<1>9. \A k \in Levels : k < level + 1 => Established(k)'
  BY <1>2, <1>3, <1>5, Basics DEF ArchiveInv, LoopInv, EstablishedBelow
<1>10. LoopInv'
  BY <1>8, <1>9 DEF ArchiveInv, LoopInv, CleanFrom, EstablishedBelow
<1> QED BY <1>1, <1>4, <1>6, <1>7, <1>10 DEF ArchiveInv

-----------------------------------------------------------------------------
(* The main loop and the end-of-level merge. *)

(* Beginning a level keeps it.                                             *)
LEMMA BeginLevelKept == ASSUME ArchiveInv, BeginLevel PROVE ArchiveInv'
<1> USE DEF BeginLevel, Goto
<1>1. TypeInv'
  BY TypeStep DEF Next, MainLoop, ArchiveInv
<1>2. /\ SeedFile' /\ CompleteMeansWhole' /\ LevelsInOrder' /\ UnmarkedFiles'
      /\ \A k \in Levels : (Clean(k)' <=> Clean(k)) /\ (Established(k)' <=> Established(k))
  BY ArchiveKept
<1>3. pc = "loop" /\ pc' \in {"down", "solve", "finished"} /\ level' = level /\ eol' = eol
  OBVIOUS
<1>4. ScanInv' /\ MergeInv'
  BY <1>3 DEF ScanInv, MergeInv
<1>5. LoopInv'
  BY <1>2, <1>3 DEF ArchiveInv, LoopInv, CleanFrom, EstablishedBelow
<1> QED BY <1>1, <1>2, <1>4, <1>5 DEF ArchiveInv

(* The levels below the one a merge writes, and above it. *)
Below(l) == \A k \in Levels : k < l => Established(k)
Above(l) == \A k \in Levels : l < k => Clean(k)

(* The levels around the one that the merge of this iteration writes. *)
LEMMA MergedLevel ==
  ASSUME ArchiveInv, pc \in {"solve", "merge", "unmark", "publish"}
  PROVE  /\ level \in Nat
         /\ \E l \in Levels : l = level + 1 /\ l # 0 /\ l \notin complete /\ Below(l) /\ Above(l)
<1>1. level \in Nat /\ level < MaxLevel
  BY Basics DEF ArchiveInv, TypeInv, TypeOK, LevelBounds
<1>2. level + 1 \in Levels /\ level + 1 # 0
  BY <1>1, Basics
<1>3. Below(level + 1)
  BY DEF ArchiveInv, LoopInv, EstablishedBelow, Below
<1>4. level + 1 \notin complete /\ \A k \in Levels : level + 2 <= k => Clean(k)
  BY <1>1, <1>2, Basics DEF ArchiveInv, LoopInv, MergeInv, CleanFrom, Clean
<1>5. Above(level + 1)
  BY <1>1, <1>4, Basics DEF Above
<1> QED BY <1>1, <1>2, <1>3, <1>4, <1>5

(* A step of the merge touches that level only. *)
LEMMA MergeStep ==
  ASSUME ArchiveInv, TypeInv', NEW l \in Levels, l # 0, Below(l), Above(l), pc # "purge",
         \A k \in Levels : k # l => SameLevel(k),
         l \in complete' => WholeLevel(l)', UnmarkedFile(l)'
  PROVE  /\ SeedFile' /\ CompleteMeansWhole' /\ LevelsInOrder' /\ UnmarkedFiles'
         /\ Below(l)' /\ Above(l)'
<1>1. SeedFile' /\ CompleteMeansWhole' /\ UnmarkedFiles'
  BY OneLevelKept
<1>2. LevelsInOrder' /\ Below(l)' /\ Above(l)'
  BY OneLevelInOrder DEF Below, Above
<1> QED BY <1>1, <1>2

(* Solving a level keeps it.                                               *)
LEMMA SolveKept == ASSUME ArchiveInv, Solve PROVE ArchiveInv'
<1>1. TypeInv'
  BY TypeStep DEF Next, MainLoop, ArchiveInv
<1>2. pc = "solve" /\ eol' = eol /\ level' = level /\ store' = store /\ complete' = complete
  BY DEF Solve
<1>3. PICK l \in Levels : l = level + 1 /\ l # 0 /\ l \notin complete /\ Below(l) /\ Above(l)
  BY <1>2, MergedLevel
<1>4. CASE terminate
  <2>1. UNCHANGED archive /\ pc' = "down"
    BY <1>2, <1>4 DEF Solve, Goto, archive
  <2>2. SeedFile' /\ CompleteMeansWhole' /\ LevelsInOrder' /\ UnmarkedFiles'
    BY <1>2, <2>1, ArchiveKept
  <2>3. ScanInv' /\ LoopInv' /\ MergeInv'
    BY <2>1 DEF ScanInv, LoopInv, MergeInv
  <2> QED BY <1>1, <2>2, <2>3 DEF ArchiveInv
<1>5. CASE ~terminate
  <2>1. merging' = merging \cup {l} /\ pc' = "merge" /\ terminate' = terminate
    BY <1>3, <1>5 DEF Solve, Goto
  <2>2. \A k \in Levels : k # l => SameLevel(k)
    BY <1>2, <2>1 DEF SameLevel
  <2>3. /\ SeedFile' /\ CompleteMeansWhole' /\ LevelsInOrder' /\ UnmarkedFiles'
        /\ Below(l)' /\ Above(l)'
    BY <1>1, <1>2, <1>3, <2>1, <2>2, MergeStep DEF UnmarkedFile
  <2>4. ScanInv'
    BY <2>1 DEF ScanInv
  <2>5. LoopInv'
    BY <1>2, <1>3, <2>1, <2>3 DEF LoopInv, EstablishedBelow, Below
  <2>6. Clean(l) /\ eol = Idle
    BY <1>2, <1>3, Basics DEF ArchiveInv, LoopInv, CleanFrom
  <2>7. CleanFrom(level + 2)'
    BY <1>2, <1>3, <2>3, MergedLevel, Basics DEF CleanFrom, Above
  <2>8. MergeInv'
    BY <1>2, <1>3, <1>5, <2>1, <2>6, <2>7 DEF MergeInv, PlayerFile, Clean, NoFiles, Idle
  <2> QED BY <1>1, <2>3, <2>4, <2>5, <2>8 DEF ArchiveInv
<1> QED BY <1>4, <1>5

(* With whole files at the level below, every mover's output is whole. *)
LEMMA InputsAreWhole ==
  ASSUME ArchiveInv, pc \in {"solve", "merge", "unmark", "publish"}
  PROVE  InputsWhole /\ Outputs = {Movers[level + 1]}
<1>1. level \in Levels /\ level < level + 1
  BY Basics DEF ArchiveInv, TypeInv, TypeOK, LevelBounds
<1>2. WholeLevel(level)
  BY <1>1 DEF ArchiveInv, LoopInv, EstablishedBelow, Established
<1>3. InputsWhole
  BY <1>1, <1>2, Basics DEF InputsWhole, WholeLevel
<1> QED BY <1>3 DEF Outputs

(* While the merge runs the rest of the archive stays as it is. *)
LEMMA MergeKept ==
  ASSUME ArchiveInv, TypeInv', pc = "merge", pc' = "merge",
         UNCHANGED <<complete, merging, level, terminate>>,
         \A k \in Levels : k # level + 1 => store'[k] = store[k],
         \A q \in Players : PlayerFile(q)'
  PROVE  ArchiveInv'
<1>1. PICK l \in Levels : l = level + 1 /\ l # 0 /\ l \notin complete /\ Below(l) /\ Above(l)
  BY MergedLevel
<1>2. ~terminate /\ l \in merging
  BY <1>1 DEF ArchiveInv, MergeInv
<1>3. \A k \in Levels : k # l => SameLevel(k)
  BY <1>1 DEF SameLevel
<1>4. UnmarkedFile(l)'
  BY <1>2 DEF UnmarkedFile
<1>5. /\ SeedFile' /\ CompleteMeansWhole' /\ LevelsInOrder' /\ UnmarkedFiles'
      /\ Below(l)' /\ Above(l)'
  BY <1>1, <1>3, <1>4, MergeStep
<1>6. ScanInv'
  BY DEF ScanInv
<1>7. LoopInv'
  BY <1>1, <1>5 DEF LoopInv, EstablishedBelow, Below
<1>8. CleanFrom(level + 2)'
  BY <1>1, <1>5, MergedLevel, Basics DEF CleanFrom, Above
<1>9. MergeInv'
  BY <1>1, <1>2, <1>8 DEF MergeInv
<1> QED BY <1>5, <1>6, <1>7, <1>9 DEF ArchiveInv

(* Creating an output keeps it.                                            *)
LEMMA OpenOutputKept ==
  ASSUME ArchiveInv, NEW p \in Players, OpenOutput(p)
  PROVE  ArchiveInv'
<1>1. TypeInv'
  BY TypeStep DEF Next, PlayerThread, ArchiveInv
<1>2. /\ pc = "merge" /\ pc' = "merge" /\ eol[p] = "idle"
      /\ UNCHANGED <<complete, merging, level, terminate>>
  BY DEF OpenOutput
<1>3. level + 1 \in Levels
  BY <1>2, MergedLevel
<1>4. IF p \in Movers[level + 1]
      THEN StoreFile(level + 1, p, "open") /\ eol' = [eol EXCEPT ![p] = "writing"]
      ELSE eol' = [eol EXCEPT ![p] = "done"] /\ UNCHANGED store
  BY <1>2, InputsAreWhole DEF OpenOutput
<1>5. /\ store \in [Levels -> [Players -> FileStates]]
      /\ eol \in [Players -> {"idle", "writing", "done"}]
  BY DEF ArchiveInv, TypeInv, TypeOK
<1>6. \A k \in Levels : k # level + 1 => store'[k] = store[k]
  BY <1>3, <1>4, <1>5 DEF StoreFile
<1>7. \A q \in Players : q # p => store'[level + 1][q] = store[level + 1][q] /\ eol'[q] = eol[q]
  BY <1>3, <1>4, <1>5 DEF StoreFile
<1>8. IF p \in Movers[level + 1]
      THEN store'[level + 1][p] = "open" /\ eol'[p] = "writing"
      ELSE store'[level + 1][p] = "absent" /\ eol'[p] = "done"
  BY <1>2, <1>3, <1>4, <1>5 DEF StoreFile, ArchiveInv, MergeInv, PlayerFile
<1>9. \A q \in Players : PlayerFile(q)'
  <2>1. ASSUME NEW q \in Players, q # p PROVE PlayerFile(q)'
    BY <1>2, <1>7, <2>1 DEF ArchiveInv, MergeInv, PlayerFile
  <2> QED BY <1>2, <1>8, <2>1 DEF PlayerFile
<1> QED BY <1>1, <1>2, <1>6, <1>9, MergeKept

(* Inputs whole and no flag up: the trailer closes a whole file. *)
LEMMA CloseOutputKept ==
  ASSUME ArchiveInv, NEW p \in Players, CloseOutput(p)
  PROVE  ArchiveInv'
<1>1. TypeInv'
  BY TypeStep DEF Next, PlayerThread, ArchiveInv
<1>2. /\ pc = "merge" /\ pc' = "merge" /\ eol[p] = "writing"
      /\ UNCHANGED <<complete, merging, level, terminate>>
  BY DEF CloseOutput
<1>3. level + 1 \in Levels
  BY <1>2, MergedLevel
<1>4. ~terminate /\ p \in Movers[level + 1]
  BY <1>2 DEF ArchiveInv, MergeInv, PlayerFile
<1>5. StoreFile(level + 1, p, "whole") /\ eol' = [eol EXCEPT ![p] = "done"]
  BY <1>2, <1>4, InputsAreWhole DEF CloseOutput
<1>6. /\ store \in [Levels -> [Players -> FileStates]]
      /\ eol \in [Players -> {"idle", "writing", "done"}]
  BY DEF ArchiveInv, TypeInv, TypeOK
<1>7. \A k \in Levels : k # level + 1 => store'[k] = store[k]
  BY <1>3, <1>5, <1>6 DEF StoreFile
<1>8. /\ \A q \in Players : q # p => store'[level + 1][q] = store[level + 1][q] /\ eol'[q] = eol[q]
      /\ store'[level + 1][p] = "whole" /\ eol'[p] = "done"
  BY <1>3, <1>5, <1>6 DEF StoreFile
<1>9. \A q \in Players : PlayerFile(q)'
  <2>1. ASSUME NEW q \in Players, q # p PROVE PlayerFile(q)'
    BY <1>2, <1>8, <2>1 DEF ArchiveInv, MergeInv, PlayerFile
  <2> QED BY <1>2, <1>4, <1>8, <2>1 DEF PlayerFile
<1> QED BY <1>1, <1>2, <1>7, <1>9, MergeKept

(* Both threads done: each mover has a whole file and nobody else has one. *)
LEMMA JoinKept == ASSUME ArchiveInv, Join PROVE ArchiveInv'
<1> USE DEF Join, Goto
<1>1. TypeInv'
  BY TypeStep DEF Next, MainLoop, ArchiveInv
<1>2. /\ SeedFile' /\ CompleteMeansWhole' /\ LevelsInOrder' /\ UnmarkedFiles'
      /\ \A k \in Levels : (Clean(k)' <=> Clean(k)) /\ (Established(k)' <=> Established(k))
  BY ArchiveKept
<1>3. ScanInv'
  BY DEF ScanInv
<1>4. LoopInv'
  BY <1>2 DEF ArchiveInv, LoopInv, EstablishedBelow
<1>5. WholeLevel(level + 1)'
  BY DEF ArchiveInv, MergeInv, PlayerFile, WholeLevel, archive
<1>6. MergeInv'
  BY <1>2, <1>5 DEF ArchiveInv, MergeInv, CleanFrom, archive
<1> QED BY <1>1, <1>2, <1>3, <1>4, <1>6 DEF ArchiveInv

(* Removing a sentinel keeps it.                                           *)
LEMMA UnmarkKept == ASSUME ArchiveInv, Unmark PROVE ArchiveInv'
<1>1. TypeInv'
  BY TypeStep DEF Next, MainLoop, ArchiveInv
<1>2. /\ pc = "unmark" /\ pc' = "publish" /\ eol' = eol /\ level' = level
      /\ store' = store /\ complete' = complete
  BY DEF Unmark, Goto
<1>3. PICK l \in Levels : l = level + 1 /\ l # 0 /\ l \notin complete /\ Below(l) /\ Above(l)
  BY <1>2, MergedLevel
<1>4. WholeLevel(l)'
  BY <1>2, <1>3 DEF ArchiveInv, MergeInv, WholeLevel
<1>5. \A k \in Levels : k # l => SameLevel(k)
  BY <1>2, <1>3 DEF SameLevel, Unmark
<1>6. /\ SeedFile' /\ CompleteMeansWhole' /\ LevelsInOrder' /\ UnmarkedFiles'
      /\ Below(l)' /\ Above(l)'
  BY <1>1, <1>2, <1>3, <1>4, <1>5, MergeStep DEF UnmarkedFile
<1>7. ScanInv'
  BY <1>2 DEF ScanInv
<1>8. LoopInv'
  BY <1>2, <1>3, <1>6 DEF LoopInv, EstablishedBelow, Below
<1>9. CleanFrom(level + 2)'
  BY <1>2, <1>3, <1>6, MergedLevel, Basics DEF CleanFrom, Above
<1>10. MergeInv'
  BY <1>2, <1>3, <1>4, <1>9 DEF MergeInv
<1> QED BY <1>1, <1>6, <1>7, <1>8, <1>10 DEF ArchiveInv

(* The sentinel is written for whole files only, whatever the flag says. *)
LEMMA PublishKept == ASSUME ArchiveInv, Publish PROVE ArchiveInv'
<1>1. TypeInv'
  BY TypeStep DEF Next, MainLoop, ArchiveInv
<1>2. /\ pc = "publish" /\ pc' = "loop" /\ eol' = Idle /\ level' = level + 1
      /\ store' = store /\ merging' = merging /\ complete' = complete \cup {level + 1}
  BY DEF Publish, Goto
<1>3. PICK l \in Levels : l = level + 1 /\ l # 0 /\ l \notin complete /\ Below(l) /\ Above(l)
  BY <1>2, MergedLevel
<1>4. WholeLevel(l)' /\ Established(l)'
  BY <1>2, <1>3 DEF ArchiveInv, MergeInv, WholeLevel, Established
<1>5. \A k \in Levels : k # l => SameLevel(k)
  BY <1>2, <1>3 DEF SameLevel
<1>6. /\ SeedFile' /\ CompleteMeansWhole' /\ LevelsInOrder' /\ UnmarkedFiles'
      /\ Below(l)' /\ Above(l)'
  BY <1>1, <1>2, <1>3, <1>4, <1>5, MergeStep DEF UnmarkedFile
<1>7. ScanInv' /\ MergeInv'
  BY <1>2 DEF ScanInv, MergeInv
<1>8. \A k \in Levels : level' + 1 <= k => Clean(k)'
  BY <1>2, <1>3, <1>6, MergedLevel, Basics DEF Above
<1>9. \A k \in Levels : k < level' + 1 => Established(k)'
  BY <1>2, <1>3, <1>4, <1>6, MergedLevel, Basics DEF Below
<1>10. LoopInv'
  BY <1>2, <1>8, <1>9 DEF LoopInv, CleanFrom, EstablishedBelow
<1> QED BY <1>1, <1>6, <1>7, <1>10 DEF ArchiveInv

-----------------------------------------------------------------------------
(* The outside world. *)

(* A crash keeps it, but for the two that are findings.                    *)
LEMMA CrashKept == ASSUME HarmlessStops, ArchiveInv, Crash PROVE ArchiveInv'
<1>1. TypeInv'
  BY TypeStep DEF Next, ArchiveInv
<1>2. pc # "purge" /\ pc' = "down" /\ UNCHANGED archive
  BY DEF Crash, HarmlessStops, Goto
<1>3. SeedFile' /\ CompleteMeansWhole' /\ LevelsInOrder' /\ UnmarkedFiles'
  BY <1>2, ArchiveKept
<1>4. ScanInv' /\ LoopInv' /\ MergeInv'
  BY <1>2 DEF ScanInv, LoopInv, MergeInv
<1> QED BY <1>1, <1>3, <1>4 DEF ArchiveInv

(* A step that moves nothing but the flag and the count of stops. *)
LEMMA StillKept ==
  ASSUME ArchiveInv, TypeInv', UNCHANGED <<archive, pc, level, seen, eol>>,
         terminate' = terminate \/ pc # "merge"
  PROVE  ArchiveInv'
<1>1. /\ SeedFile' /\ CompleteMeansWhole' /\ LevelsInOrder' /\ UnmarkedFiles'
      /\ \A k \in Levels : (Clean(k)' <=> Clean(k)) /\ (Established(k)' <=> Established(k))
  BY ArchiveKept
<1>2. /\ store' = store /\ complete' = complete /\ merging' = merging
      /\ pc' = pc /\ level' = level /\ seen' = seen /\ eol' = eol
  BY DEF archive
<1>3. ScanInv'
  BY <1>1, <1>2 DEF ArchiveInv, ScanInv, EstablishedBelow, CleanFrom
<1>4. WholeLevel(0)' <=> WholeLevel(0)
  BY <1>2 DEF WholeLevel
<1>5. LoopInv'
  BY <1>1, <1>2, <1>4 DEF ArchiveInv, LoopInv, EstablishedBelow, CleanFrom
<1>6. WholeLevel(level + 1)' <=> WholeLevel(level + 1)
  BY <1>2 DEF WholeLevel
<1>7. \A p \in Players : PlayerFile(p)' <=> PlayerFile(p)
  BY <1>2 DEF PlayerFile
<1>8. MergeInv'
  BY <1>1, <1>2, <1>6, <1>7 DEF ArchiveInv, MergeInv, CleanFrom
<1> QED BY <1>1, <1>3, <1>5, <1>8 DEF ArchiveInv

(* Every step keeps the invariant.                                         *)
LEMMA ArchiveStep == HarmlessStops /\ ArchiveInv /\ [Next]_vars => ArchiveInv'
<1> SUFFICES ASSUME HarmlessStops, ArchiveInv, [Next]_vars PROVE ArchiveInv'
  OBVIOUS
<1>1. CASE Scan
  BY <1>1, ScanCompleteKept, ScanMergingKept, ScanFilesKept, DecideMissingKept,
     DecideCorruptKept, DecideValidKept, PurgeKept, ProbeKept DEF Scan
<1>2. CASE MainLoop
  BY <1>2, WriteSeedKept, SealSeedKept, BeginLevelKept, SolveKept, JoinKept, UnmarkKept,
     PublishKept DEF MainLoop
<1>3. ASSUME NEW p \in Players, PlayerThread(p) PROVE ArchiveInv'
  BY <1>3, OpenOutputKept, CloseOutputKept DEF PlayerThread
<1>4. TypeInv'
  BY TypeStep DEF ArchiveInv
<1>5. CASE Interrupt
  BY <1>4, <1>5, StillKept DEF Interrupt, HarmlessStops
<1>6. CASE UNCHANGED vars
  BY <1>4, <1>6, StillKept DEF vars, run
<1> QED BY <1>1, <1>2, <1>3, <1>5, <1>6, StartKept, CrashKept DEF Next, Over

-----------------------------------------------------------------------------
(* Results. *)

(* The invariant is what the archive promises.                             *)
LEMMA Promises ==
  ArchiveInv => CompleteMeansWhole /\ SolvesFromWholeArchive /\ OutputNameFree
<1> SUFFICES ASSUME ArchiveInv PROVE CompleteMeansWhole /\ SolvesFromWholeArchive /\ OutputNameFree
  OBVIOUS
<1>1. ASSUME pc \in {"solve", "merge", "unmark", "publish"}, NEW l \in 0..level
      PROVE  WholeLevel(l)
  <2>1. l \in Levels /\ l < level + 1
    BY <1>1, MergedLevel, Basics
  <2> QED BY <1>1, <2>1 DEF ArchiveInv, LoopInv, EstablishedBelow, Established
<1>2. SolvesFromWholeArchive
  BY <1>1 DEF SolvesFromWholeArchive
<1>3. OutputNameFree
  BY DEF OutputNameFree, ArchiveInv, MergeInv, PlayerFile
<1> QED BY <1>2, <1>3 DEF ArchiveInv

(* What a step leaves of the files of a level, it leaves finished. *)
LEMMA FinishedFrame ==
  ASSUME NEW l \in Levels, Finished(l), store'[l] = store[l],
         l \notin merging', pc' = "purge" => pc = "purge" /\ level' = level
  PROVE  Finished(l)'
BY DEF Finished, WholeLevel

(* A finished level stays finished.                                        *)
LEMMA FinishedStep ==
  ASSUME ArchiveInv, [Next]_vars, NEW l \in Levels, Finished(l)
  PROVE  Finished(l)'
<1>1. /\ l \notin merging /\ ~(pc = "purge" /\ level = l)
      /\ WholeLevel(l) /\ store[l] # NoFiles
  BY DEF Finished
<1>2. store \in [Levels -> [Players -> FileStates]] /\ level \in Nat
  BY Basics DEF ArchiveInv, TypeInv, TypeOK
<1>3. \A q \in Players : store[l][q] \in {"whole", "absent"}
  BY <1>1 DEF WholeLevel
<1>4. ~\A q \in Players : store[l][q] = "absent"
  BY <1>1, <1>2 DEF NoFiles
<1> USE DEF Goto, StoreFile, archive, FoundMissing
<1>5. CASE Start
  BY <1>1, <1>5, FinishedFrame DEF Start
<1>6. CASE ScanComplete
  BY <1>1, <1>6, FinishedFrame DEF ScanComplete
<1>7. CASE ScanMerging
  BY <1>1, <1>7 DEF ScanMerging, Finished, WholeLevel
<1>8. CASE ScanFiles
  BY <1>1, <1>8, FinishedFrame DEF ScanFiles
<1>9. ASSUME NEW p \in Players, Purge(p) PROVE Finished(l)'
  <2>1. level # l /\ store'[l] = store[l]
    BY <1>1, <1>2, <1>9 DEF Purge
  <2> QED BY <1>1, <1>9, <2>1, FinishedFrame DEF Purge
<1>10. ASSUME NEW p \in Players, Probe(p) PROVE Finished(l)'
  <2>1. store'[l] = store[l]
    BY <1>2, <1>3, <1>10 DEF Probe
  <2> QED BY <1>1, <1>10, <2>1, FinishedFrame DEF Probe
<1>11. CASE DecideMissing
  BY <1>1, <1>11, FinishedFrame DEF DecideMissing
<1>12. CASE DecideCorrupt
  <2>1. level # l
    <3>1. PICK p \in Players : seen[p] = "corrupt"
      BY <1>12 DEF DecideCorrupt, SomeCorrupt
    <3>2. \A q \in Players : store[level][q] \in {"absent", "open"}
      BY <1>12, <3>1 DEF DecideCorrupt, ArchiveInv, ScanInv
    <3> QED BY <1>3, <1>4, <3>2
  <2>2. store'[l] = store[l]
    BY <1>2, <1>12, <2>1 DEF DecideCorrupt
  <2> QED BY <1>1, <1>12, <2>2, FinishedFrame DEF DecideCorrupt
<1>13. CASE DecideValid
  BY <1>1, <1>13, FinishedFrame DEF DecideValid
<1>14. CASE WriteSeed
  <2>1. pc = "seed" /\ pc' \in {"seed", "seal"} /\ merging' = merging
    BY <1>14 DEF WriteSeed
  <2>2. l = 0 => store[0][Black] = "whole"
    BY <1>1, Basics DEF WholeLevel
  <2>3. store' = store \/ (l # 0 /\ \E state \in FileStates : StoreFile(0, Black, state))
    BY <1>14, <2>2 DEF WriteSeed, FileStates
  <2>4. store'[l] = store[l]
    BY <1>2, <2>3
  <2> QED BY <1>1, <2>1, <2>4, FinishedFrame
<1>15. CASE SealSeed
  BY <1>1, <1>15, FinishedFrame DEF SealSeed
<1>16. CASE BeginLevel
  BY <1>1, <1>16, FinishedFrame DEF BeginLevel
<1>17. CASE Solve
  <2>1. l # level + 1
    BY <1>1, <1>2, <1>17 DEF Solve, ArchiveInv, LoopInv, CleanFrom, Clean
  <2> QED BY <1>1, <1>17, <2>1, FinishedFrame DEF Solve
<1>18. CASE Join
  BY <1>1, <1>18, FinishedFrame DEF Join
<1>19. CASE Unmark
  BY <1>1, <1>19, FinishedFrame DEF Unmark
<1>20. CASE Publish
  BY <1>1, <1>20, FinishedFrame DEF Publish
<1>21. ASSUME NEW p \in Players, PlayerThread(p) PROVE Finished(l)'
  <2>1. pc = "merge" /\ pc' = "merge" /\ merging' = merging
    BY <1>21 DEF PlayerThread, OpenOutput, CloseOutput
  <2>2. l # level + 1
    BY <1>1, <2>1 DEF ArchiveInv, MergeInv
  <2>3. store' = store \/ \E state \in FileStates : StoreFile(level + 1, p, state)
    BY <1>21 DEF PlayerThread, OpenOutput, CloseOutput, FileStates
  <2>4. store'[l] = store[l]
    BY <1>2, <2>2, <2>3
  <2> QED BY <1>1, <2>1, <2>4, FinishedFrame
<1>22. CASE Crash
  BY <1>1, <1>22, FinishedFrame DEF Crash
<1>23. CASE Interrupt
  BY <1>1, <1>23, FinishedFrame DEF Interrupt
<1>24. CASE UNCHANGED vars
  BY <1>1, <1>24, FinishedFrame DEF vars, run
<1> QED
  BY <1>5, <1>6, <1>7, <1>8, <1>9, <1>10, <1>11, <1>12, <1>13, <1>14, <1>15, <1>16, <1>17,
     <1>18, <1>19, <1>20, <1>21, <1>22, <1>23, <1>24 DEF Next, Scan, MainLoop, Over

(* Under harmless stops the archive invariant holds throughout. *)
LEMMA ArchiveInvariant == ASSUME HarmlessStops PROVE Spec => []ArchiveInv
<1>1. ArchiveInv /\ [Next]_vars => ArchiveInv'
  BY HarmlessStops, ArchiveStep
<1> QED BY <1>1, ArchiveInit, PTL DEF Spec

(* A _complete sentinel, which no scan looks behind, never stands for files *)
(* that lack boards, wherever and however often the runs before were        *)
(* stopped: any number of levels, any movers, any number of stops.          *)
THEOREM SentinelsMeanWhole == ASSUME HarmlessStops PROVE Spec => []CompleteMeansWhole
BY ArchiveInvariant, Promises, PTL

(* A level is expanded from a whole archive below it.                       *)
THEOREM WholeArchiveSolved == ASSUME HarmlessStops PROVE Spec => []SolvesFromWholeArchive
BY ArchiveInvariant, Promises, PTL

(* No end-of-level merge finds a file under the name of its output, the one *)
(* case in which the move of a single input would fail.                     *)
THEOREM OutputNamesFree == ASSUME HarmlessStops PROVE Spec => []OutputNameFree
BY ArchiveInvariant, Promises, PTL

(* Files of a level whose merge ended cleanly are never deleted, rewritten  *)
(* or marked as being merged, by this run or a later one.                   *)
THEOREM FinishedLevelsKept == ASSUME HarmlessStops PROVE Spec => FinishedLevelKept
<1>1. ArchiveInv /\ [Next]_vars => [\A l \in Levels : Finished(l) => Finished(l)']_vars
  BY FinishedStep
<1> QED BY <1>1, ArchiveInvariant, PTL DEF Spec, FinishedLevelKept
=============================================================================
