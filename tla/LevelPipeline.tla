--------------------------- MODULE LevelPipeline ---------------------------
(***************************************************************************)
(* One BFS level of the solver, from the first batch handed to the GPU to  *)
(* the level's output in the store directory:                              *)
(*                                                                         *)
(*   GPU feeder thread   reads parents, fills the GPU accumulator, hands a *)
(*                       full accumulator to a merge-writer thread and     *)
(*                       waits for the copy (LevelSolverThread.cpp);       *)
(*   merge writers       buffer the flushes, write sorted player files,    *)
(*                       merge the files of all writers across drives      *)
(*                       under imergeCS (LevelSolverThread, MergeFiles);   *)
(*   main thread         waits for the pools, flushes what is buffered,    *)
(*                       runs the end-of-level merge with one thread per   *)
(*                       player, publishes the level                       *)
(*                       (OthelloLevelBlaster.cpp, MergeFiles.cpp);        *)
(*   the user            may press Ctrl+C.                                 *)
(*                                                                         *)
(* A file is the set of boards in it and whether its trailer was written.  *)
(* Free disk space is a nondeterministic answer to each question the code  *)
(* asks of a drive's ledger.                                               *)
(***************************************************************************)
EXTENDS Naturals, FiniteSets, Functions

CONSTANTS
  Boards,          (* canonical boards of the next level                    *)
  Batches,         (* what one GPU batch may generate, per player           *)
  MaxBatches,      (* bound: batches in the level's input files             *)
  Writers,         (* merge-writer threads, one buffer and directory each   *)
  MergeDirs,       (* intermediate merge directories (medium drives)        *)
  WorstCase,       (* most boards a batch can generate (batch * max moves)  *)
  AccumCapacity,   (* accumulator capacity in boards                        *)
  BufCapacity,     (* merge-writer buffer capacity in boards                *)
  MaxSegs,         (* MAX_MW_SEGS                                           *)
  MaxFanin,        (* MAX_MERGE_FANIN                                       *)
  InterruptPhases, (* main-loop phases in which the user may press Ctrl+C   *)
  NoOne            (* no thread, no file                                    *)

White == "white"
Black == "black"
Players == {White, Black}
StoreMergeDir == "storeMergeDir"
StoreDir == "storeDir"
OutDirs == MergeDirs \cup {StoreMergeDir}

(* Boards of a batch or of the accumulator, both players together. *)
Size(kids) == Cardinality(kids[White]) + Cardinality(kids[Black])

ASSUME PipelineAssumption ==
  /\ IsFiniteSet(Boards)
  /\ Batches \subseteq [Players -> SUBSET Boards]
  /\ IsFiniteSet(Writers) /\ Writers # {}
  /\ Writers \cap (OutDirs \cup {StoreDir}) = {}
  /\ StoreMergeDir \notin MergeDirs /\ StoreDir \notin MergeDirs
  /\ MaxBatches \in Nat /\ WorstCase \in Nat /\ AccumCapacity \in Nat
  /\ BufCapacity \in Nat /\ MaxSegs \in Nat \ {0} /\ MaxFanin \in Nat \ {0}
  /\ \A kids \in Batches : Size(kids) <= WorstCase
  /\ WorstCase <= AccumCapacity
  /\ AccumCapacity <= BufCapacity
  /\ NoOne \notin Writers

(* A file's name; writer files carry no level, the directories are emptied *)
(* between levels.                                                         *)
Names == [dir : Writers \cup OutDirs \cup {StoreDir}, player : Players, idx : Nat]
FileName(d, p, i) == [dir |-> d, player |-> p, idx |-> i]
Files == [boards : SUBSET Boards, closed : BOOLEAN]

VARIABLES
  phase,      (* main thread: "solve", "drain", "flush", "eol", then the end   *)
  terminate,  (* terminateThreads                                              *)
  feeder,     (* GPU feeder: "read", "flush", "process", "wait" or "done"      *)
  last,       (* the feeder is in its final flush                              *)
  left,       (* batches not yet read from the level's input files             *)
  raw,        (* boards written to the accumulator since its reset             *)
  acc,        (* distinct boards in the accumulator, per player                *)
  generated,  (* history: every board the GPU generated, per player            *)
  jobs,       (* descriptors in the merge-writer pool's queue                  *)
  copied,     (* hDoneEvent of the descriptor in flight                        *)
  pc,         (* where each merge writer is                                    *)
  side,       (* player whose stream or merge it is working on                 *)
  held,       (* boards in its buffer, per player                              *)
  segs,       (* mw{Black,White}SegCount                                       *)
  used,       (* mwBlackBoardsUsed + mwWhiteBoardsUsed                         *)
  fileCount,  (* mw{Black,White}FileCount                                      *)
  consumed,   (* mw{Black,White}FilesConsumed                                  *)
  outCount,   (* mergeFile*Count per merge directory, storeMerge*FileCount     *)
  cs,         (* owner of imergeCS                                             *)
  snap,       (* the owner's snapshot of fileCount                             *)
  mergeIn,    (* files the intermediate merge under way reads                  *)
  mergeOut,   (* file it writes                                                *)
  disk,       (* files that exist                                              *)
  todo,       (* writers FlushAllMergeWriterBuffers has not visited            *)
  eol,        (* per player: "idle", "start", "merging", "done"                *)
  eolIn       (* per player: files the end-of-level merge reads                *)

feedVars == <<feeder, last, left, raw, acc, generated>>
bufVars == <<held, segs, used>>
countVars == <<fileCount, consumed, outCount>>
mergeVars == <<cs, snap, mergeIn, mergeOut>>
mainVars == <<phase, todo, eol, eolIn>>
vars == <<mainVars, terminate, feedVars, jobs, copied, pc, side, bufVars,
          countVars, mergeVars, disk>>

----------------------------------------------------------------------------
(* Helpers *)

Empty == [p \in Players |-> {}]
PerWriter(x) == [w \in Writers |-> [p \in Players |-> x]]

(* CREATE_ALWAYS: the file is created, or replaced when the name exists. *)
Put(n, boards, closed) ==
  [m \in DOMAIN disk \cup {n} |->
     IF m = n THEN [boards |-> boards, closed |-> closed] ELSE disk[m]]
Delete(f, names) == Restrict(f, DOMAIN f \ names)

(* BLFOpen rejects a missing file or one without trailer: the merge skips it. *)
Closed(n) == n \in DOMAIN disk /\ disk[n].closed
Merged(names) == UNION {disk[n].boards : n \in {m \in names : Closed(m)}}

(* The loops that write boards stop at the termination flag. *)
Written(full, out) == IF terminate THEN out \subseteq full ELSE out = full

HasRoomIgnoresBatch == raw < AccumCapacity
HasRoom == raw + WorstCase <= AccumCapacity

(* Files of player p that no intermediate merge has taken yet. *)
Backlog(p) == SumFunction([w \in Writers |-> fileCount[w][p] - consumed[w][p]])
BacklogFull == \E p \in Players : Backlog(p) >= MaxFanin

Idle == jobs = 0 /\ \A w \in Writers : pc[w] = "idle"

----------------------------------------------------------------------------
Init ==
  /\ phase = "solve" /\ terminate = FALSE
  /\ feeder = "read" /\ last = FALSE /\ left \in 0..MaxBatches
  /\ raw = 0 /\ acc = Empty /\ generated = Empty
  /\ jobs = 0 /\ copied = FALSE
  /\ pc = [w \in Writers |-> "idle"] /\ side = [w \in Writers |-> Black]
  /\ held = PerWriter({}) /\ segs = PerWriter(0) /\ used = [w \in Writers |-> 0]
  /\ fileCount = PerWriter(0) /\ consumed = PerWriter(0)
  /\ outCount = [d \in OutDirs |-> [p \in Players |-> 0]]
  /\ cs = NoOne /\ snap = PerWriter(0)
  /\ mergeIn = {} /\ mergeOut = NoOne
  /\ disk = [n \in {} |-> [boards |-> {}, closed |-> FALSE]]
  /\ todo = {} /\ eol = [p \in Players |-> "idle"] /\ eolIn = Empty

----------------------------------------------------------------------------
(* GPU feeder *)

(* BLFRead of the next batch, then GpuAccumulatorHasRoom. *)
ReadBatch ==
  /\ feeder = "read" /\ ~terminate /\ left > 0
  /\ left' = left - 1
  /\ feeder' = IF HasRoom THEN "process" ELSE "flush"
  /\ UNCHANGED <<last, raw, acc, generated, mainVars, terminate, jobs, copied,
                 pc, side, bufVars, countVars, mergeVars, disk>>

(* GpuProcessBatch: the children reach the two stacks, each as often as it *)
(* was generated.                                                          *)
Process(kids) ==
  /\ feeder = "process"
  /\ feeder' = "read"
  /\ \E n \in Size(kids)..WorstCase : raw' = raw + n
  /\ acc' = [p \in Players |-> acc[p] \cup kids[p]]
  /\ generated' = [p \in Players |-> generated[p] \cup kids[p]]
  /\ UNCHANGED <<last, left, mainVars, terminate, jobs, copied, pc, side,
                 bufVars, countVars, mergeVars, disk>>

(* No more input, or the flag is up: a final flush unless terminating. *)
EndOfInput ==
  /\ feeder = "read" /\ (terminate \/ left = 0)
  /\ IF terminate THEN feeder' = "done" /\ UNCHANGED last
                  ELSE feeder' = "flush" /\ last' = TRUE
  /\ UNCHANGED <<left, raw, acc, generated, mainVars, terminate, jobs, copied,
                 pc, side, bufVars, countVars, mergeVars, disk>>

AfterFlushReadsOn == IF last THEN "read" ELSE "process"
AfterFlush == IF last THEN "done" ELSE "process"

(* FlushAccumulator with nothing in it: reset and go on. *)
FlushEmpty ==
  /\ feeder = "flush" /\ acc = Empty
  /\ raw' = 0
  /\ feeder' = AfterFlush
  /\ UNCHANGED <<last, left, acc, generated, mainVars, terminate, jobs, copied,
                 pc, side, bufVars, countVars, mergeVars, disk>>

(* FlushAccumulator: sort and dedup, queue a merge-writer job. *)
SubmitFlush ==
  /\ feeder = "flush" /\ acc # Empty
  /\ jobs' = jobs + 1
  /\ copied' = FALSE
  /\ feeder' = "wait"
  /\ UNCHANGED <<last, left, raw, acc, generated, mainVars, terminate, pc, side,
                 bufVars, countVars, mergeVars, disk>>

ResetAccumulatorUnsignalled ==
  /\ feeder = "wait"
  /\ copied' = FALSE
  /\ raw' = 0 /\ acc' = Empty
  /\ feeder' = AfterFlush
  /\ UNCHANGED <<last, left, generated, mainVars, terminate, jobs, pc, side,
                 bufVars, countVars, mergeVars, disk>>

(* The done event is set: GpuFlushReset. *)
ResetAccumulator ==
  /\ feeder = "wait" /\ copied
  /\ copied' = FALSE
  /\ raw' = 0 /\ acc' = Empty
  /\ feeder' = AfterFlush
  /\ UNCHANGED <<last, left, generated, mainVars, terminate, jobs, pc, side,
                 bufVars, countVars, mergeVars, disk>>

----------------------------------------------------------------------------
(* Merge writer: a flush of the GPU reaches the buffer *)

TakeJobUnchecked(w) ==
  /\ pc[w] = "idle"
  /\ jobs' = jobs - 1
  /\ pc' = [pc EXCEPT ![w] = "copy"]
  /\ UNCHANGED <<mainVars, terminate, feedVars, copied, side, bufVars,
                 countVars, mergeVars, disk>>

TakeJob(w) ==
  /\ jobs > 0 /\ pc[w] = "idle"
  /\ jobs' = jobs - 1
  /\ pc' = [pc EXCEPT ![w] = "copy"]
  /\ UNCHANGED <<mainVars, terminate, feedVars, copied, side, bufVars,
                 countVars, mergeVars, disk>>

(* A player region that is not empty becomes one more sorted segment. *)
NewSegs(w) == [p \in Players |-> IF acc[p] = {} THEN segs[w][p] ELSE segs[w][p] + 1]

(* RunMergeWriterJob: copy both regions, set the event, record the segments *)
(* and decide whether the buffer must go to disk.                           *)
CopyFlush(w) ==
  /\ pc[w] = "copy"
  /\ copied' = TRUE
  /\ held' = [held EXCEPT ![w] = [p \in Players |-> @[p] \cup acc[p]]]
  /\ segs' = [segs EXCEPT ![w] = NewSegs(w)]
  /\ used' = [used EXCEPT ![w] = @ + Size(acc)]
  /\ IF \/ used[w] + Size(acc) + AccumCapacity > BufCapacity
        \/ \E p \in Players : NewSegs(w)[p] >= MaxSegs
     THEN /\ pc' = [pc EXCEPT ![w] = "stream"]
          /\ side' = [side EXCEPT ![w] = Black]
     ELSE /\ pc' = [pc EXCEPT ![w] = "idle"]
          /\ UNCHANGED side
  /\ UNCHANGED <<mainVars, terminate, feedVars, jobs, countVars, mergeVars, disk>>

----------------------------------------------------------------------------
(* FlushMergeWriterBuffer: black stream, white stream, then the merge test *)

WriterFile(w) == FileName(w, side[w], fileCount[w][side[w]])

(* After the black stream comes the white one, after that the bookkeeping. *)
NextStream(w) ==
  IF side[w] = Black
  THEN pc' = [pc EXCEPT ![w] = "stream"] /\ side' = [side EXCEPT ![w] = White]
  ELSE pc' = [pc EXCEPT ![w] = "tally"] /\ UNCHANGED side

OpenStream(w) ==
  /\ pc[w] = "stream" /\ segs[w][side[w]] > 0
  /\ disk' = Put(WriterFile(w), {}, FALSE)
  /\ pc' = [pc EXCEPT ![w] = "write"]
  /\ UNCHANGED <<mainVars, terminate, feedVars, jobs, copied, side, bufVars,
                 countVars, mergeVars>>

SkipStream(w) ==
  /\ pc[w] = "stream" /\ segs[w][side[w]] = 0
  /\ NextStream(w)
  /\ UNCHANGED <<mainVars, terminate, feedVars, jobs, copied, bufVars,
                 countVars, mergeVars, disk>>

(* The file count moves only after the trailer is on disk; a file that got *)
(* no board is deleted and its index is used again.                        *)
CloseStream(w) ==
  /\ pc[w] = "write"
  /\ \E out \in SUBSET held[w][side[w]] :
       /\ Written(held[w][side[w]], out)
       /\ IF out = {}
          THEN /\ disk' = Delete(disk, {WriterFile(w)})
               /\ UNCHANGED fileCount
          ELSE /\ disk' = Put(WriterFile(w), out, TRUE)
               /\ fileCount' = [fileCount EXCEPT ![w][side[w]] = @ + 1]
  /\ NextStream(w)
  /\ UNCHANGED <<mainVars, terminate, feedVars, jobs, copied, bufVars,
                 consumed, outCount, mergeVars>>

(* Segments are forgotten; a low drive (its ledger's answer is open here) or *)
(* a full backlog asks for the cross-drive merge.                            *)
FinishFlush(w) ==
  /\ pc[w] = "tally"
  /\ held' = [held EXCEPT ![w] = Empty]
  /\ segs' = [segs EXCEPT ![w] = [p \in Players |-> 0]]
  /\ used' = [used EXCEPT ![w] = 0]
  /\ \E spaceLow \in BOOLEAN :
       pc' = [pc EXCEPT ![w] = IF spaceLow \/ BacklogFull THEN "enter" ELSE "idle"]
  /\ side' = [side EXCEPT ![w] = Black]
  /\ UNCHANGED <<mainVars, terminate, feedVars, jobs, copied, countVars,
                 mergeVars, disk>>

----------------------------------------------------------------------------
(* DoCrossDriveIntermediateMerge *)

EnterMergeOrSkip(w) ==
  /\ pc[w] = "enter"
  /\ IF cs = NoOne THEN cs' = w /\ pc' = [pc EXCEPT ![w] = "recheck"]
                   ELSE pc' = [pc EXCEPT ![w] = "idle"] /\ UNCHANGED cs
  /\ UNCHANGED <<mainVars, terminate, feedVars, jobs, copied, side, bufVars,
                 countVars, snap, mergeIn, mergeOut, disk>>

(* EnterCriticalSection: wait for the merge another writer is doing. *)
EnterMerge(w) ==
  /\ pc[w] = "enter" /\ cs = NoOne
  /\ cs' = w
  /\ pc' = [pc EXCEPT ![w] = "recheck"]
  /\ UNCHANGED <<mainVars, terminate, feedVars, jobs, copied, side, bufVars,
                 countVars, snap, mergeIn, mergeOut, disk>>

Leave(w) ==
  /\ cs' = NoOne
  /\ snap' = PerWriter(0)
  /\ pc' = [pc EXCEPT ![w] = "idle"]
  /\ side' = [side EXCEPT ![w] = Black]

(* Re-check under the lock: another thread's merge has made room. *)
LeaveUnneeded(w) ==
  /\ pc[w] = "recheck" /\ ~BacklogFull
  /\ Leave(w)
  /\ UNCHANGED <<mainVars, terminate, feedVars, jobs, copied, bufVars,
                 countVars, mergeIn, mergeOut, disk>>

(* Still a full backlog or a low drive: snapshot the counts, white first. *)
Snapshot(w) ==
  /\ pc[w] = "recheck"
  /\ snap' = fileCount
  /\ pc' = [pc EXCEPT ![w] = "gather"]
  /\ side' = [side EXCEPT ![w] = White]
  /\ UNCHANGED <<mainVars, terminate, feedVars, jobs, copied, bufVars,
                 countVars, cs, mergeIn, mergeOut, disk>>

GatheredOneTooMany(p) ==
  {n \in DOMAIN disk : /\ n.dir \in Writers /\ n.player = p
                       /\ consumed[n.dir][p] <= n.idx /\ n.idx <= snap[n.dir][p]}

(* Writer files in [consumed, snap) that exist. *)
Gathered(p) ==
  {n \in DOMAIN disk : /\ n.dir \in Writers /\ n.player = p
                       /\ consumed[n.dir][p] <= n.idx /\ n.idx < snap[n.dir][p]}

ImergeFiles(p) == {n \in DOMAIN disk : n.dir \in MergeDirs /\ n.player = p}

(* White is followed by black, black by leaving the critical section. *)
NextMerge(w) ==
  /\ consumed' = [v \in Writers |-> [consumed[v] EXCEPT ![side[w]] = snap[v][side[w]]]]
  /\ IF side[w] = White
     THEN /\ pc' = [pc EXCEPT ![w] = "gather"]
          /\ side' = [side EXCEPT ![w] = Black]
          /\ UNCHANGED <<cs, snap>>
     ELSE Leave(w)

BreakMerge(w) ==
  /\ pc[w] = "gather" /\ terminate
  /\ Leave(w)
  /\ UNCHANGED <<mainVars, terminate, feedVars, jobs, copied, bufVars,
                 countVars, mergeIn, mergeOut, disk>>

NothingToMerge(w) ==
  /\ pc[w] = "gather" /\ ~terminate
  /\ Gathered(side[w]) = {}
  /\ NextMerge(w)
  /\ UNCHANGED <<mainVars, terminate, feedVars, jobs, copied, bufVars,
                 fileCount, outCount, mergeIn, mergeOut, disk>>

(* The output's index comes from the directory's counter. *)
StartMergeInto(w, d, inputs) ==
  LET p == side[w] out == FileName(d, p, outCount[d][p])
  IN  /\ pc[w] = "gather" /\ ~terminate
      /\ Gathered(p) # {}
      /\ outCount' = [outCount EXCEPT ![d][p] = @ + 1]
      /\ mergeIn' = inputs
      /\ mergeOut' = out
      /\ disk' = Put(out, {}, FALSE)
      /\ pc' = [pc EXCEPT ![w] = "merge"]
      /\ UNCHANGED <<mainVars, terminate, feedVars, jobs, copied, side, bufVars,
                     fileCount, consumed, cs, snap>>

(* Normal path: directory d's ledger granted the reservation. *)
StartMerge(w, d) == StartMergeInto(w, d, Gathered(side[w]))

(* Total flush: no merge directory has room, its files go along. *)
StartTotalFlush(w) ==
  StartMergeInto(w, StoreMergeDir, Gathered(side[w]) \cup ImergeFiles(side[w]))

(* A total flush has emptied the merge directories of player p's files: *)
(* their numbering restarts.                                            *)
RestartedAll(p) == [d \in OutDirs |-> [outCount[d] EXCEPT ![p] = 0]]
Restarted(p) ==
  [d \in OutDirs |-> IF d \in MergeDirs THEN [outCount[d] EXCEPT ![p] = 0]
                                        ELSE outCount[d]]

(* KWayMergeFiles returns: the output is closed, the inputs are deleted. *)
FinishMerge(w) ==
  /\ pc[w] = "merge"
  /\ \E out \in SUBSET Merged(mergeIn) :
       /\ Written(Merged(mergeIn), out)
       /\ disk' = Delete(Put(mergeOut, out, TRUE), mergeIn)
  /\ outCount' = IF mergeOut.dir = StoreMergeDir THEN Restarted(side[w]) ELSE outCount
  /\ mergeIn' = {} /\ mergeOut' = NoOne
  /\ NextMerge(w)
  /\ UNCHANGED <<mainVars, terminate, feedVars, jobs, copied, bufVars, fileCount>>

----------------------------------------------------------------------------
(* Main thread *)

FeederIdle ==
  /\ phase = "solve" /\ feeder = "done"
  /\ phase' = "drain"
  /\ UNCHANGED <<todo, eol, eolIn, terminate, feedVars, jobs, copied, pc, side,
                 bufVars, countVars, mergeVars, disk>>

PoolIdle ==
  /\ phase = "drain" /\ Idle
  /\ IF terminate THEN phase' = "stopped" /\ UNCHANGED todo
                  ELSE phase' = "flush" /\ todo' = Writers
  /\ UNCHANGED <<eol, eolIn, terminate, feedVars, jobs, copied, pc, side,
                 bufVars, countVars, mergeVars, disk>>

(* FlushAllMergeWriterBuffers: the main thread runs the flush for writer w. *)
FlushNext(w) ==
  /\ phase = "flush" /\ Idle /\ w \in todo
  /\ todo' = todo \ {w}
  /\ IF \E p \in Players : segs[w][p] > 0
     THEN pc' = [pc EXCEPT ![w] = "stream"]
     ELSE UNCHANGED pc
  /\ UNCHANGED <<phase, eol, eolIn, terminate, feedVars, jobs, copied, side,
                 bufVars, countVars, mergeVars, disk>>

LevelFilesOffStore(p) ==
  {n \in DOMAIN disk : n.dir \notin {StoreDir, StoreMergeDir} /\ n.player = p}
LevelFiles(p) == {n \in DOMAIN disk : n.dir # StoreDir /\ n.player = p}

(* Last look at the flag, then DoEndOfLevelMerge lists both players' files. *)
FlushDone ==
  /\ phase = "flush" /\ Idle /\ todo = {}
  /\ IF terminate
     THEN phase' = "stopped" /\ UNCHANGED <<eol, eolIn>>
     ELSE /\ phase' = "eol"
          /\ eol' = [p \in Players |-> "start"]
          /\ eolIn' = [p \in Players |-> LevelFiles(p)]
  /\ UNCHANGED <<todo, terminate, feedVars, jobs, copied, pc, side,
                 bufVars, countVars, mergeVars, disk>>

StoreFile(p) == FileName(StoreDir, p, 0)

(* mergePlayer without files: nothing is written. *)
EolNothing(p) ==
  /\ eol[p] = "start" /\ eolIn[p] = {}
  /\ eol' = [eol EXCEPT ![p] = "done"]
  /\ UNCHANGED <<phase, todo, eolIn, terminate, feedVars, jobs, copied, pc, side,
                 bufVars, countVars, mergeVars, disk>>

StartEol(p) ==
  /\ eol[p] = "start" /\ eolIn[p] # {}
  /\ eol' = [eol EXCEPT ![p] = "merging"]
  /\ disk' = Put(StoreFile(p), {}, FALSE)
  /\ UNCHANGED <<phase, todo, eolIn, terminate, feedVars, jobs, copied, pc, side,
                 bufVars, countVars, mergeVars>>

FinishEol(p) ==
  /\ eol[p] = "merging"
  /\ eol' = [eol EXCEPT ![p] = "done"]
  /\ \E out \in SUBSET Merged(eolIn[p]) :
       /\ Written(Merged(eolIn[p]), out)
       /\ disk' = Delete(Put(StoreFile(p), out, TRUE), eolIn[p])
  /\ UNCHANGED <<phase, todo, eolIn, terminate, feedVars, jobs, copied, pc, side,
                 bufVars, countVars, mergeVars>>

(* Both player threads are joined: the main loop writes the _complete       *)
(* sentinel, without another look at the flag.                              *)
Publish ==
  /\ phase = "eol" /\ \A p \in Players : eol[p] = "done"
  /\ phase' = "complete"
  /\ UNCHANGED <<todo, eol, eolIn, terminate, feedVars, jobs, copied, pc, side,
                 bufVars, countVars, mergeVars, disk>>

----------------------------------------------------------------------------
(* The user *)

Interrupt ==
  /\ phase \in InterruptPhases /\ ~terminate
  /\ terminate' = TRUE
  /\ UNCHANGED <<mainVars, feedVars, jobs, copied, pc, side, bufVars,
                 countVars, mergeVars, disk>>

(* The level is over: the main loop goes on to the next one or exits. *)
Over == phase \in {"complete", "stopped"} /\ UNCHANGED vars

----------------------------------------------------------------------------
Feeder ==
  \/ ReadBatch \/ EndOfInput \/ FlushEmpty \/ SubmitFlush \/ ResetAccumulator
  \/ \E kids \in Batches : Process(kids)

Writer(w) ==
  \/ TakeJob(w) \/ CopyFlush(w)
  \/ OpenStream(w) \/ SkipStream(w) \/ CloseStream(w) \/ FinishFlush(w)
  \/ EnterMerge(w) \/ LeaveUnneeded(w) \/ Snapshot(w) \/ BreakMerge(w)
  \/ NothingToMerge(w) \/ StartTotalFlush(w) \/ FinishMerge(w)
  \/ \E d \in MergeDirs : StartMerge(w, d)

Main == FeederIdle \/ PoolIdle \/ FlushDone \/ Publish \/ \E w \in Writers : FlushNext(w)

PlayerThread(p) == EolNothing(p) \/ StartEol(p) \/ FinishEol(p)

Next ==
  \/ Feeder
  \/ \E w \in Writers : Writer(w)
  \/ Main
  \/ \E p \in Players : PlayerThread(p)
  \/ Interrupt
  \/ Over

(* Every thread that can run is eventually scheduled; the user owes nothing. *)
Fairness ==
  /\ WF_vars(Feeder) /\ WF_vars(Main)
  /\ \A w \in Writers : WF_vars(Writer(w))
  /\ \A p \in Players : WF_vars(PlayerThread(p))

Spec == Init /\ [][Next]_vars /\ Fairness
----------------------------------------------------------------------------
(* Properties *)

FeederType ==
  /\ feeder \in {"read", "flush", "process", "wait", "done"}
  /\ last \in BOOLEAN
  /\ left \in Nat
  /\ raw \in Nat
  /\ acc \in [Players -> SUBSET Boards]
  /\ generated \in [Players -> SUBSET Boards]

QueueType == jobs \in Nat /\ copied \in BOOLEAN

WriterType ==
  /\ pc \in [Writers -> {"idle", "copy", "stream", "write", "tally", "enter",
                         "recheck", "gather", "merge"}]
  /\ side \in [Writers -> Players]

BufferType ==
  /\ held \in [Writers -> [Players -> SUBSET Boards]]
  /\ segs \in [Writers -> [Players -> Nat]]
  /\ used \in [Writers -> Nat]

CountType ==
  /\ fileCount \in [Writers -> [Players -> Nat]]
  /\ consumed \in [Writers -> [Players -> Nat]]
  /\ outCount \in [OutDirs -> [Players -> Nat]]

MergeType ==
  /\ cs \in Writers \cup {NoOne}
  /\ snap \in [Writers -> [Players -> Nat]]
  /\ mergeIn \subseteq Names
  /\ mergeOut \in Names \cup {NoOne}

DiskType == DOMAIN disk \subseteq Names /\ \A n \in DOMAIN disk : disk[n] \in Files

MainType ==
  /\ phase \in {"solve", "drain", "flush", "eol", "complete", "stopped"}
  /\ terminate \in BOOLEAN
  /\ todo \subseteq Writers
  /\ eol \in [Players -> {"idle", "start", "merging", "done"}]
  /\ eolIn \in [Players -> SUBSET Names]

(* Every variable keeps to the values the code can give it. *)
TypeOK ==
  /\ FeederType /\ QueueType /\ WriterType /\ BufferType
  /\ CountType /\ MergeType /\ DiskType /\ MainType

(* Boards of player p in complete files. *)
OnDisk(p) == UNION {disk[n].boards : n \in {m \in DOMAIN disk : m.player = p /\ Closed(m)}}
Held(p) == UNION {held[w][p] : w \in Writers}

(* Until the user interrupts, every board the GPU has generated is in the    *)
(* accumulator, in a merge-writer buffer or in a complete file, whatever the *)
(* feeder, the writers and the merges are doing, and none appears from       *)
(* nowhere.                                                                  *)
NothingLost ==
  ~terminate => \A p \in Players : generated[p] = acc[p] \cup Held(p) \cup OnDisk(p)

(* The after-close guarantee the intermediate merge relies on: a writer file *)
(* is complete exactly when the count has passed its index, and every file a *)
(* merge under way reads exists and is complete, also while the other writer *)
(* keeps writing to the same directories.                                    *)
AfterCloseGuarantee ==
  /\ \A n \in DOMAIN disk :
       n.dir \in Writers => (disk[n].closed <=> n.idx < fileCount[n.dir][n.player])
  /\ \A n \in mergeIn : Closed(n)
  /\ \A p \in Players : eol[p] \in {"start", "merging"} => \A n \in eolIn[p] : Closed(n)

(* The two stacks of a merge-writer buffer never meet and no segment array   *)
(* overflows: the writer flushes early enough for the fullest accumulator.   *)
BufferBounds ==
  \A w \in Writers : used[w] <= BufCapacity /\ \A p \in Players : segs[w][p] <= MaxSegs

(* The files waiting for an intermediate merge stay near MAX_MERGE_FANIN: a  *)
(* merge never meets more than one extra file per writer, far from kMaxFiles *)
(* where the gathering loop stops and the counters would pass files by.      *)
BacklogBounded ==
  ~terminate => \A p \in Players : Backlog(p) < MaxFanin + Cardinality(Writers)

(* A complete file is never written again: the counters hand out fresh names *)
(* although a total flush restarts them and an empty stream's index is used  *)
(* twice.                                                                    *)
ClosedFilesImmutable ==
  [][\A n \in DOMAIN disk \cap DOMAIN disk' : disk[n].closed => disk'[n] = disk[n]]_vars

(* No thread waits forever for another: each level is published or given up. *)
LevelEnds == <>(phase \in {"complete", "stopped"})

(* Boards in the level's output, once the main loop is through with it. *)
Stored ==
  IF phase \in {"complete", "stopped"}
  THEN [p \in Players |-> UNION {disk[n].boards : n \in DOMAIN disk \cap {StoreFile(p)}}]
  ELSE Empty

Level == INSTANCE LevelSpec WITH
  status <- IF phase \in {"complete", "stopped"} THEN phase ELSE "solving",
  stored <- Stored

(* The pipeline does what a level promises: batches are expanded, then the   *)
(* store receives exactly the generated boards, or nothing when interrupted. *)
SolvesLevel == Level!Spec

(* A level published as complete holds every board that was generated.       *)
CompleteIsWhole == phase = "complete" => Stored = generated
=============================================================================
