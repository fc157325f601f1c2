# OthelloLevelBlaster: TLA+ models and proofs

OthelloLevelBlaster enumerates every reachable Othello board of a small board
size, one breadth-first level at a time. A GPU expands the boards of level N; the
children are deduplicated in VRAM, in RAM buffers, in intermediate merges on fast
and medium drives and finally in one merge per player whose result is level N+1
in the store directory. A run takes weeks, writes terabytes, and is restarted
after crashes and Ctrl+C from what the store directory holds. Two things must
hold: a level's files hold exactly the distinct children of the level before it,
and a restart never takes less than that for a finished level.

This directory holds TLA+ models of the parts that decide both, TLC
configurations that check them on small instances, and proofs checked by TLAPS.
Everything is run inside this directory:

    tlc -workers 4 -config MCLevelPipeline.cfg MCLevelPipeline
    tlapm LevelPipelineProofs.tla

## Inventory

| Component | State | Operations | Correct when |
|---|---|---|---|
| GPU feeder (`LevelSolverThread.cpp`) | input files, ping-pong slots | read a batch, flush the accumulator, final flush | every batch is expanded, the accumulator is reset only after the copy |
| GPU accumulator (`GpuKernels.cu`) | two stacks in one array, write offsets, unique counts | room test, process, prepare, read, reset | the stacks never meet, a flush holds exactly the distinct children, sorted |
| Board rules (`OthelloBasics`, `OthelloBasicsForCUDA`) | board keys | moves, play, pass, canonical form | legal children, one representative per symmetry class, CPU and GPU alike |
| Merge writers (`LevelSolverThread.cpp`, `MergeFiles.cpp`) | two-stack buffer, segment arrays, file counts per thread | copy a flush, flush to files, test merge triggers | buffer and arrays never overflow, a count names complete files only |
| Intermediate merge (`MergeFiles.cpp` 549-878) | `imergeCS`, consumed counts, directory counters | re-check, snapshot, gather, merge or total flush, delete inputs | only complete files are read, names stay fresh, nothing is passed by |
| End-of-level merge (`MergeFiles.cpp` 887-1238) | lists of inputs, reservations, `_merging` | list, reserve, one thread per player, sentinel | output is the union of all inputs, or is recognisable as partial |
| K-way and cascading merge (`MergeFiles.cpp` 113-361) | heap, temporary files | merge, group, recurse | sorted union without duplicates; at most `MAX_MERGE_FANIN` files open |
| Drive ledger (`DriveLedger.h`) | free bytes per drive | init, reserve (CAS), reclaim, debit | never more granted than free; overdrawn only by what compressed outputs outgrow their grants by |
| Main loop (`OthelloLevelBlaster.cpp`) | level, phase, `terminateThreads` | reset, submit, wait, flush, merge, publish | levels in order, `_complete` only for a whole level |
| Resume scan, seed (`InitSolver.cpp`, `CreateSeedFile.cpp`) | level files and sentinels | scan, probe, purge, seed | the iteration that is resumed reads a whole level |
| Sizing (`InitSolver.cpp` 42-211) | buffer sizes, number of writers | compute | an accumulator fits a buffer |
| Thread pool (`Utility/ThreadPool`) | queue, busy flags, two condition variables | start, queue, run, `IsBusy`, stop | jobs run once, no wake-up is lost, idle means done, everything returns |
| BLF files (`BlasterFile.cpp`) | records, codec state, trailer | write, close, open, read | what is read is what was written; an unfinished file is rejected |
| B+ tree (`BPlusTreeHybrid`) | nodes, root, depth, count, a lock per node | insert, delete, update, five queries, iterate | one ordered set to all threads, well formed, no deadlock |
| Reader-writer lock (`Utility/RWLock`) | a `std::shared_mutex` | lock, try, unlock | writers alone; locks are released by who has them |
| Arena (`Utility/ArenaMem`) | offset in a block | bump allocation | used by the tree in arena mode only |
| Statistics listener, machine and drive information, logger | display data | format, query | no decision of the solver depends on it, except STOP |

Interactions: the feeder queues a job with a descriptor and waits for its event;
writers share the counters and directories under `imergeCS`; the main thread polls
the pools, runs the buffer flush itself and starts the two player threads, which
share the drive ledger and the process's limit on open files; all watch
`terminateThreads`, which Ctrl+C and the STOP command set. The store directory is
the only state that survives a run. The B+ tree is a library of the solution;
`README.md` 215 of the repository calls it unused in the main path.

What is hard: one writer merges files in the directories into which others are
writing; counters restart while files exist; the flag can rise at any moment and
each loop reacts at another point; the process can die between any two file
operations; a wait chain runs from the feeder through a writer to `imergeCS`;
thousands of kernel threads fill one array from both ends; two player threads see
the same free bytes; threads descend a tree that others split and merge.
`PROJECT.json` lists each hazard with its line and the properties that cover it.

## Modules

| Module | What it is |
|---|---|
| `LevelSpec` | What solving a level promises: the store gets exactly the generated boards, once, or nothing is claimed. |
| `LevelPipeline` | One level in detail: feeder, merge writers, intermediate merge, main thread, player threads, Ctrl+C. Implements `LevelSpec`. |
| `LevelPipelineProofs` | Proofs about it: types, the ownership of `imergeCS`, which files exist and are complete, no buffer overflows; no board is lost, complete files are immutable, the backlog stays short, it implements `LevelSpec`. |
| `SumProofs` | Lemmas on sums over finite sets, for the proofs that count bytes and files. |
| `Resume` | The level archive across runs: scan, seed, iterations, sentinels, deaths. |
| `ResumeProofs` | Proofs about it: sentinels stand for whole files, wherever the process is stopped. |
| `EndOfLevelMerge` | The end-of-level merge in detail: cascades, drives, ledger, open files, deletion. |
| `EndOfLevelMergeProofs` | Proofs about it: the books balance, how far drives overshoot and ledgers are overdrawn, no board is lost while there are handles. |
| `OthelloBasics`, `OthelloCuda` | The rules: the CPU library, bitboard and cell by cell, and the device functions with the expansion kernel. |
| `GameTree` | The boards a run generates, one canonical child after the other. |
| `GameTreeProofs` | Proofs about it, for every board size: word tricks and cell-by-cell rules agree, CPU and GPU agree, one board of a symmetry class stands for all. |
| `SortedSets` | What a level needs of the accumulator: sorted sets of children, delivered once. |
| `GpuAccumulator` | The accumulator: kernel threads, two stacks, sort and compaction, read-back. Implements `SortedSets`. |
| `GpuAccumulatorProofs` | Proofs about it: the sort and compaction, the stacks apart, exact statistics, the refinement. |
| `ThreadPool` | Workers, callers and the main thread with mutex and condition variables. |
| `ThreadPoolProofs` | Proofs about it: jobs conserved, no wake-up lost, idle means done. |
| `BlasterFile` | Writer, crash, validation and reader of the three file formats. |
| `BlasterFileProofs` | Proofs about it: deltas come back, only whole files open, what is read is what was written. |
| `OrderedSet` | What the tree promises: every call answers from one set at one moment, scans miss nothing that stays. |
| `BPlusTree` | The tree with its locks. Implements `OrderedSet`. |
| `MC...` | Instances of the module of that name for TLC. |

How they fit together: `LevelPipeline` has the whole level but leaves three things
open that other modules fill in. The children of a batch are any member of a set:
`OthelloCuda` computes them and `GpuAccumulator` says that a flush holds exactly
them. Every ledger question may be answered either way: `EndOfLevelMerge` has the
ledger. A pool is a queue that is idle when it is empty and nobody works:
`ThreadPool` shows that `IsBusy` means this. `Resume` takes a level as one step that
ends whole, short or torn; `BlasterFile` shows that a torn file is always told from
a whole one.

### LevelPipeline

State. `phase` is where the main loop is; `feeder`, `last`, `left` the feeder and
its input; `raw`, `acc` the accumulator, raw (with duplicates) and distinct;
`jobs`, `copied` the pool's queue and the done event; `pc`, `side` the place of
each writer and the player it works on; `held`, `segs`, `used` its buffer;
`fileCount`, `consumed`, `outCount` the counters of `OthelloTypes.h`; `cs`, `snap`,
`mergeIn`, `mergeOut` the intermediate merge; `disk` the files, each the set of its
boards and whether it has its trailer; `todo`, `eol`, `eolIn` the final flush and
the end-of-level merge. `generated` is a history variable.

Actions. `ReadBatch`, `Process`, `EndOfInput`, `FlushEmpty`, `SubmitFlush` and
`ResetAccumulator` are `RunGpuFeederJob` with `FlushAccumulator`. `TakeJob` and
`CopyFlush` are `RunMergeWriterJob`; `OpenStream`, `SkipStream`, `CloseStream` and
`FinishFlush` are `FlushMergeWriterBuffer`, one file created and closed in two
steps so that others run in between. `EnterMerge` to `FinishMerge` are
`DoCrossDriveIntermediateMerge`, with creation and completion of the output as
separate steps. `FeederIdle`, `PoolIdle`, `FlushNext`, `FlushDone`, `Publish` are the
main loop, `EolNothing`, `StartEol`, `FinishEol` one player thread.

Abstractions. Boards are values, and the children of a batch are any member of
`Batches`, so the black and the white input pass are one loop. A merge yields the
union of its readable inputs; one cut short by the flag leaves any subset (a
prefix in the code). Every question to a drive ledger may be answered either way;
a `Fatal` exit for lack of space is the death of the process and belongs to
`Resume`. The re-check and the snapshot read the counters at one moment; they read
counters that only grow. The final flush visits the writers in any order. The
worst case is the same for each batch, a file's short last batch needs less.
Writes do not fail.

Assumptions on the constants (`PipelineAssumption`): the boards and writers are
finite; a batch never has more children than `WorstCase`; `WorstCase <=
AccumCapacity`, which the code does not check (`GpuKernels.cu` 284-287 sizes the
accumulator from VRAM, and a batch is processed even when an empty accumulator has
no room for it); `AccumCapacity <= BufCapacity`, which `InitSolver.cpp` 61-99 ensures.

Fairness. Each thread (feeder, main, each writer, each player thread) is weakly
fair: they are OS threads that block only on the event, on `imergeCS` and on each
other, and are scheduled when they can run. Weak fairness on `imergeCS` suffices
although a critical section is not a fair lock, because the feeder is blocked
while no writer is free, so a writer can be overtaken only finitely often. The
user owes nothing.

### Resume

State. `store[l][p]` is "absent", "open" (no valid trailer), "short" (valid, boards
missing) or "whole"; `complete` and `merging` are the sentinels; `pc` is the place
of the main thread, `eol` the two player threads, `terminate` the flag. `Movers[l]`
says which players have boards at level l.

Actions. `ScanComplete` to `DecideValid` are `ScanForResumeLevel` with
`checkLevelFile` and `deletePlayerOutputFile`, one file operation per step;
`WriteSeed`, `SealSeed` are `CreateSeedFile`; `BeginLevel`, `Solve`, `Join`, `Unmark`,
`Publish` the main loop with `DoEndOfLevelMerge`; `OpenOutput`, `CloseOutput` a player
thread; `Crash` the death of the process and `Interrupt` Ctrl+C, at the points the
constants allow. An iteration whose own input lacks boards may leave any part of
the next level.

Fairness. The user restarts a run that ended early, and the threads run. Deaths
and interrupts are bounded by `MaxStops`, so that "restarted often enough" has an end.

### OthelloBasics, OthelloCuda, GameTree

A 64-bit word is the set of its one bits, so that shifts, masks and edges are set
images that keep their width. `OthelloBasics` has both branches of each `#if` of the
library: moves, flips and symmetries by words and by cells. `OthelloCuda` has the
device functions and `ExpandKernel`, what a kernel thread makes of one board
(children, or the children after a pass, or none), each child canonical. `GameTree`
walks the game from the first board along these children; a state is one record of a
level file with its player. `boardSize` is the global that `SetBoardSizeForRun` sets
once for a run, so a variable that no step changes: one instance holds games of several
sizes. `Games` names them, each with moves that are played before the walk begins,
which count only if they are legal; with no such moves it is the whole game of that
size. Nothing is concurrent here; the point is that two hand-kept copies of every
function must agree on every board that is reachable.

### GpuAccumulator, SortedSets

`accum` is the array, `writePos` the device counters, `writeOffset` the host's copies,
`threads` the running kernel with the place of each thread, `gather` and `unique` the
result of the sort, `received` what the merge writer has read. `ProcessBatch`, `Look`,
`Claim`, `Store`, `Finish`, `BatchDone` are `GpuProcessBatch` and the kernel: the atomic
add and the store are separate steps. `FlushPrepare` is the two-pass sort with
compaction (each pass a stable sort by one field), `FlushRead` and `FlushReset` the rest
of a flush. The feeder is reduced to its protocol: a batch is processed when there is
room, or right after a reset. The refinement maps `wanted` to the boards stored plus
those the running threads still owe. Assumed: an empty accumulator has room for a
batch (`AccumulatorAssumption`), which the code does not check.

### EndOfLevelMerge

State: `disk` the files with drive, boards, bytes; `ledger` and, as history, `limit`;
per player the place, the inputs, the reservation, a stack of cascade calls, the
drive probe, and the queue and readers of the merge under way. Actions:
`ReserveOutputs` is phase 1b on the main thread; `MoveSingle`, `RecompressSingle`,
`MergeSeveral`, `Settle`, `ReclaimInput`, `DeleteInput` are one player thread;
`NextGroup`, `Probe`, `Claim`, `NestedGroup`, `FinishTemp`, `ReclaimTemp`, `DeleteTemp` the
cascade with its nested calls, which run without a ledger; `OpenInput`, `CreateOutput`,
`WriteOutput` the k-way merge. Probe and claim are two steps, so that both players see
the same free bytes; reclaim and delete are two steps, so that the other one sees
bytes reclaimed that are still there. The heap is abstracted to the union of its
readers. A merge cut short by Ctrl+C leaves any subset.

`compress` is `compressMode`: "none", "store" (`COMPRESS_STORE_ONLY`) or "all"
(`COMPRESS_ALL`, the default). Bytes are counted in records. A plain file takes one byte
a record and a trailer. In mode "all" the inputs are compressed, on the drives of
`lz4Drives` with LZ4, and take `packed` bytes and a trailer (`InBytes`). In both modes that
compress, temporaries and outputs take any of the sizes in `Packed` and a trailer
(`OutSizes`), whatever boards they hold. So an output may be larger than its inputs
together, as when LZ4 files (`.blfzl`) are rewritten as a plain varint file (`.blfz`,
`MergeFiles.cpp` 1137, 1154), or when the two varints of a record take more than the 16
bytes of a plain one. Then the reclaim of what was granted and not needed (330, 1146, 1172) is
negative, and the ledger pays, perhaps below zero. `over` is a history field of a file:
the bytes it takes beyond those granted for it. A file of a nested call was granted
nothing and counts as unknown to the ledgers instead (`Unledgered`).

### ThreadPool

What a thread does between taking `queue_mutex` and waiting or releasing it is one
step, each `notify` is one more, and a wait may end without a notification. The
read of the busy flags in `IsBusy` is one step because flags only fall while it
holds the mutex. `accepted`, `ran` and `dropped` are history. Fairness: each worker
and each caller is weakly fair (threads that wait on a mutex or a condition
variable), and so are `Start` and `Stop` once begun; nobody owes a call, a stop or a
spurious wake-up.

### BlasterFile

A file is a sequence of cells: 16-byte records of a plain body, bytes of a
compressed one, marks and blocks of an LZ4 frame, which weigh a byte, four cells of
trailer. `fileBytes` is what the directory says of its size. The three magics are words
like any others, so the colors of a board may be one (`Magics`), and the cells of a
trailer are looked up wherever the last 64 bytes are, in boards too. Two things are
left out: a cut inside a cell, and that bytes of a compressed body or of two records
put together happen to spell a magic and a size. What is read from a file
that was cut and opened by mistake ("mistaken") is not followed. Word and
digit width are constants, arithmetic wraps, and zigzag and varint are computed as
in the code. The LZ4 library is external: its encoder may emit what it holds at any
time, its decoder returns it in pieces. `CutShort` leaves any prefix of the stream;
`BLFOpen`, `Refuse` are the validation; `Refill...`, `Decompress`, `TakeDigit`,
`TakeLastDigit` the reader, digit by digit: `value` is the varint as far as it is read,
`weight` the place of the next digit. The codec state of writer and reader is
the same as in the code, so records straddle buffers and blocks.

### BPlusTree, OrderedSet

State: `node` the nodes in memory, each with keys, children, neighbours and parent;
`root`, `depth`, `count` the index header; `shared`, `excl` the locks each thread holds;
`pc`, `my` its place and local variables; `call`, `out` its call and the answer. A step
begins where a thread gets a lock and ends before the next one it waits for, because
all it touches in between is locked. Actions: `LockTree`, `LockRoot`, `Descend` are the
descent of every call; `SplitRoot`, `Grow`, `SplitChild`, `Fix`, `Hang`, `Store` are insertion,
where `Fix` sets one pointer of a node under that node's lock; `LockKid`, `NoUnderflow`,
`StealRight`, `StealLeft`, `MergeLeft`, `MergeRight`, `GiveUpMerge`, `Settle`, `RemoveItem`, `Uncount` are
`BPDeleteProactiveRebalance` and what it calls; `Respond`, `GoRight`, `GoLeft`, `LeftTaken` the
queries; `StartScan`, `Iterate`, `StopScan` the iterator, which keeps its leaf locked between
calls. `Retry` is the loop of at most `MaxRetries` attempts. The reader-writer lock is
`CanLock`, `Acquire`, `Release`; a waiting writer does not bar readers in the model.

Abstractions: a data item is its key, and a binary search is what it finds. The lock
of the index header is held for a moment only and is part of the step around it.
Running out of memory is a limit on nodes, a full tree one on keys. A *scenario* says
how the tree is built (calls of one thread alone), which calls each thread may then
make at once, and the two limits.

Fairness: `WF_vars(\E t : Step(t))`. As each scenario has finitely many calls and each
call finitely many steps, it is enough that some thread that can go on does. A client
that iterates is assumed to ask on until the end or to stop: a scan left open keeps
its lock in the code, too.

## Runs

| Run | Bounds | Properties |
|---|---|---|
| `pipeline` | 2 writers, 2 boards, 3 batches of 2 kinds, accumulator 2, buffer 3, 2 segments, fan-in 1, 1 merge directory; Ctrl+C up to the flush | `TypeOK`, `NothingLost`, `AfterCloseGuarantee`, `BufferBounds`, `BacklogBounded`, `LevelEnds`, `SolvesLevel`, `ClosedFilesImmutable` |
| `pipeline_interrupted_merge` | 2 batches, accumulator 3, buffer 5, fan-in 2, Ctrl+C also in the end-of-level merge | `CompleteIsWhole`, violated |
| `resume` | 5 levels (black seed, one white only, last without boards), 4 stops | `TypeOK`, `SolvesFromWholeArchive`, `CompleteMeansWhole`, `OutputNameFree`, `FinishedLevelKept`, `AllLevelsSolved` |
| `resume_purge_crash` | deaths everywhere | `SolvesFromWholeArchive`, violated |
| `games` | the whole 4x4 game (11108 boards) and the last six plies of an 8x8 game (124), 16 symmetries | `TypeOK`, `RulesMatchCells`, `CanonicalFormsAgree`, `RepresentativeSuffices`, `MovesWithinMax` |
| `gpu_accumulator` | 6 parents, batches up to 2, 7 slots | `TypeOK`, `StacksApart`, `StatsExact`, `DeliversSortedSets` |
| `eol_merge` | up to 5 files a player on 3 drives, fan-in 2, three modes of compression, outputs of 1 or 4 bytes besides the trailer, scarce and ample space, Ctrl+C anywhere | `TypeOK`, `OvershootBounded`, `LedgerSettles`, `NoBoardLost` |
| `eol_handles` | 2 files a player, 4 open files | `NoBoardLost`, violated |
| `pool` | 2 workers, 2 callers with 2 calls, queue of 1 | `TypeOK`, `JobsConserved`, `NoLostWakeup`, `IdleMeansDone`, `AcceptedRuns`, `CallsReturn` |
| `blf_file` | 3 formats, 3 records, 6-bit integers with 2-bit digits, every cut | `TypeOK`, `OpensOnlyWhole`, `ReadsBack` |
| `bptree` | order 4, depth 1 to 4, 3 threads, 8 scenarios | `TypeOK`, `WellFormed`, `IsOrderedSet`, `CallsReturn` |
| `bptree_retry` | one delete against one scan | `AllLocksReleased`, violated |

Why the bounds are enough.

* `pipeline`: two writers are the least with a merge next to a write; with a fan-in of
  1 the second file is a full backlog, so merges by count and by space both happen, and
  three batches leave room for a merge and a total flush in one level. Both room tests
  matter at these capacities: an accumulator holds one batch of two, a buffer one flush
  and a bit.
* `resume`: a level of each kind with a successor; four stops let a death meet the
  purge of an earlier death's leftovers, and again.
* `games` is exhaustive for the 4x4 game, whose board has empty cells around it: there no
  shift can wrap, and no run is longer than two. The 8x8 endgame is for the rest. Its
  opening was chosen so that leaving out the edge mask of any one of the six directions
  that need one, in the moves or in the flips, or the last propagation step, changes a
  move or a flip on some board of the walk. 6x6 boards are not walked: like 4x4 they have
  a border of empty cells; the theorems of `GameTreeProofs` cover them.
* `gpu_accumulator`: the parents share children with each other and across players, with
  a pass and a terminal board among them; seven slots make the room test fail and let a
  second window run over the boards of the first.
* `eol_merge`: five files at a fan-in of two need a nested cascade; two rooms make the
  merge drive too small or big enough; both players race for the same drive. A compressed
  input takes one byte, an output one or four, and a level has at most two boards a
  player: outputs stay below their grants or outgrow them, and ledgers go below zero.
* `pool`: a queue of one makes both conditions block; two of each are needed for a
  notification that goes to the wrong one of two sleepers.
* `blf_file`: the fields are the edges of the signed and unsigned range, each of which is a
  magic, and two sizes, so that every kind of magic occurs before every kind of size; a
  buffer of 8 holds one record of greatest length and a part of the next.
* `bptree`: order 4 is the least for which a node keeps a key on deletion. The scenarios
  name the trees in which steals and merges of both kinds of nodes happen on both
  sides, the root splits and goes, a merge crosses parents, memory and room run out.

TLC reports which actions and disjuncts a run fires; the passing runs fire all.

`pipeline` allows Ctrl+C in every phase but the end-of-level merge, `resume` leaves out
the same interrupt and a death inside the purge, `eol_merge` has handles enough, and the
scenarios of `bptree` have no delete whose separator is found above a merge that gives
up: there the code does not keep the properties, which the violated runs show.

### Disagreements between code and documents

1. Ctrl+C in the end-of-level merge (`pipeline_interrupted_merge`). The merge loops
   stop (`MergeFiles.cpp` 140), trailers are written, inputs deleted, `_merging` is
   left; `main` writes `_complete` all the same (374-377). The scan sees `_complete`
   first, so the truncated level counts as finished. The changelog (283-284) says
   `_complete` is written only when the flag is down.
2. A death in the purge (`resume_purge_crash`). The scan deletes `_merging` before the
   outputs it marks (`InitSolver.cpp` 323-325); what is left looks like data of a
   version without sentinels and is taken as complete.
3. Two player merges against one limit on open files (`eol_handles`). Each may open
   `MAX_MERGE_FANIN` readers, `_setmaxstdio(4000)` allows for one. An input that cannot be
   opened is skipped with a warning (`MergeFiles.cpp` 122) and deleted afterwards.
4. A delete that gives up keeps a lock (`bptree_retry`). When the merge of a leaf or
   node cannot lock the neighbour under another parent, the node higher up whose
   separator is the key stays locked (`BPDelete.cpp` 773-784) and the retry waits for it,
   although line 962 says that all locks are released.

Noticed while modelling, without a run: `README.md` 57-58 of the repository describes
`TryEnterCriticalSection` where the code waits (`MergeFiles.cpp` 557; `CHANGELOG.md` 165-176
explains why). `dev_boardLT_key` orders two keys that differ in the player only the other
way round than `BoardKeyCompare` (`OthelloBasicsForCUDA.h` 423, `BoardKeyCompare.cpp` 13-18);
the solver keeps players apart, so nothing depends on it. On 8x8 the 28 moves per board
of `GetMaxMovesForBoardSize` (`OthelloBasics.h` 162) are no worst case, although
`GpuKernels.h` 13 calls the room test pessimistic: after the legal opening `BusyOpening` of
`MCGameTree` the player to move has 31 moves (with `Games <- BusyGames` in `MCGameTree.cfg`
the invariant `FitsReservation` fails in the first state). `MovesWithinMax` therefore speaks
of the smaller boards, and `AccumulatorAssumption` (no board has more children than
`MaxMoves`) does not hold for 8x8: there the kernel may drop boards of a batch. The ledger's 20 GB buffer,
which "no reservation can ever consume" (`DriveLedger.h` 7-9), can be used while the
end-of-level merge runs: by the size of the inputs on the store drive (`MergeFiles.cpp`
1055), by nested cascades, and by compressed outputs that outgrow their reservation.
"Worst case = full input size" (`MergeFiles.cpp` 1067) is the worst case of plain files only.
`OvershootBounded` says by how much. And a cut file may open, although "a missing or corrupt magic
means the file was never fully written" (`BlasterFile.h` 20-21) is meant to tell: when a plain file
of the 8x8 game is cut after a record whose colors are `BLFZ_MAGIC` or `BLFZL_MAGIC`, `BLFOpen` takes
the colors of the record before for `_reserved` (`BlasterFile.cpp` 443-446). Four records, the third all in one
color (0) and the fourth with `BLFZ_MAGIC`, are a compressed file without a body to it. `OpensOnlyWhole` excludes
exactly these files (`EndsLikeTrailer`). Colors of the 4x4 and the 6x6 board lie within the
bits of the board, and both magics have bits outside (the highest byte of either
is 0x5A or 0x4C, an edge row of the grid), so there no cut file opens (`SmallBoardsWhole`).

## Proofs

Proved with TLAPS for every value of the constants that satisfies the assumption
of the module (`PipelineAssumption`, `ResumeAssumption`, `PoolAssumption`,
`AccumulatorAssumption`, `EolAssumption`, `GameAssumption`, `FileAssumption`): any number of
boards, batches, writers, levels, threads, files, drives and records, all capacities and
fan-ins, all widths of integers and digits, and all games of all three board sizes.

| Theorem | Module | Says |
|---|---|---|
| `TypeCorrectness`, `TypeCorrect` | `LevelPipelineProofs` | `Spec => []TypeOK`, with the ownership of `imergeCS` |
| `AfterClose` | `LevelPipelineProofs` | `Spec => []AfterCloseGuarantee` |
| `BuffersBounded` | `LevelPipelineProofs` | `Spec => []BufferBounds` |
| `NoBoardLost` | `LevelPipelineProofs` | `Spec => []NothingLost` |
| `Immutable` | `LevelPipelineProofs` | `Spec => ClosedFilesImmutable` |
| `BacklogStaysBounded` | `LevelPipelineProofs` | `Spec => []BacklogBounded` |
| `PublishedIsWhole` | `LevelPipelineProofs` | `Spec => []LevelInv` when the end-of-level merge is not interrupted |
| `PipelineRefinesLevel` | `LevelPipelineProofs` | the safety of `LevelSpec`, under the same condition |
| `TypeCorrect` | `ResumeProofs` | `Spec => []TypeOK` |
| `SentinelsMeanWhole` | `ResumeProofs` | `Spec => []CompleteMeansWhole` for harmless stops |
| `WholeArchiveSolved` | `ResumeProofs` | `Spec => []SolvesFromWholeArchive` for harmless stops |
| `OutputNamesFree` | `ResumeProofs` | `Spec => []OutputNameFree` for harmless stops |
| `FinishedLevelsKept` | `ResumeProofs` | `Spec => FinishedLevelKept` for harmless stops |
| `PoolTypes` | `ThreadPoolProofs` | `Spec => []TypeOK` |
| `JobsAreConserved` | `ThreadPoolProofs` | `Spec => []JobsConserved` |
| `WakeupsAreKept` | `ThreadPoolProofs` | `Spec => []NoLostWakeup` |
| `IdlePoolIsDone` | `ThreadPoolProofs` | `Spec => IdleMeansDone` |
| `RegionSorted` | `GpuAccumulatorProofs` | sort and compaction leave the distinct boards of a region in ascending order |
| `GpuTypes` | `GpuAccumulatorProofs` | `Spec => []TypeOK` |
| `StacksStayApart` | `GpuAccumulatorProofs` | `Spec => []StacksApart` |
| `StatsAreExact` | `GpuAccumulatorProofs` | `Spec => []StatsExact` |
| `AccumulatorRefines` | `GpuAccumulatorProofs` | `Spec => DeliversSortedSets`, all of `SortedSets` |
| `EolTypes` | `EndOfLevelMergeProofs` | `Spec => []TypeOK` |
| `Settles` | `EndOfLevelMergeProofs` | `Spec => []LedgerSettles` |
| `Overshoot` | `EndOfLevelMergeProofs` | `Spec => []OvershootBounded` |
| `BoardsSurvive` | `EndOfLevelMergeProofs` | `Spec /\ []HandlesSuffice => NoBoardLost` |
| `PositionsType` | `GameTreeProofs` | `Spec => []TypeOK` |
| `RulesAgree` | `GameTreeProofs` | `Spec => []RulesMatchCells` |
| `CanonicalFormsSame` | `GameTreeProofs` | `Spec => []CanonicalFormsAgree` |
| `RepresentativesSuffice` | `GameTreeProofs` | `Spec => []RepresentativeSuffices` |
| `DeltaRestores` | `BlasterFileProofs` | a wrapped difference, zigzagged and back, restores the word |
| `OpenedIsWhole` | `BlasterFileProofs` | `Spec => []OpensOnlyWhole` |
| `SmallBoardsWhole` | `BlasterFileProofs` | if no colors are the magic of a compressed file, only whole files open |
| `FileTypes` | `BlasterFileProofs` | `Spec => []TypeOK` |
| `RecordsReadBack` | `BlasterFileProofs` | `Spec => []ReadsBack` |

### A level

The argument has four layers, each an inductive invariant that contains the one
before it.

* `TypeInv` = `TypeOK` and `MergeLock`. A writer is past the entrance of the merge
  exactly when it owns `imergeCS`, and a merge under way has an output. Without it
  the type of `mergeOut` could not be shown.
* `FileInv`. `AfterCloseGuarantee` is not inductive by itself: that the files a merge
  reads stay complete needs that nobody but the merge deletes (`MergeUnderWay`), that
  snapshots do not exceed the counts (`SnapBounded`), that outputs of merges lie below
  their directory's counter, which survives the restart after a total flush because
  that flush has emptied the directory (`OutputFiles`), and that writers are idle when
  the end-of-level merge lists files (`PhaseOrder`, `EolInputs`).
* `BoardInv`. `NothingLost` needs in addition that segments exist for the boards a
  buffer holds (`SegsHold`), that the accumulator's boards have been copied when the
  event is set (`AccCopied`) and that a stream already written is on disk when the
  buffer is forgotten (`Streamed`). `Immutable` follows from `FileInv`: each step creates
  files under names no file has.
* `BufferInv`. Distinct boards are at most the raw ones, which the room test bounds
  (`AccumBounded`), and an idle writer's buffer has room for a full accumulator and one
  more segment (`RoomForFlush`).

`BacklogBounded` counts files that are written and not consumed. A writer looks at the
counts once per flush, so its invariant `BacklogInv` names the writers that have written
since they last looked, or are inside a merge: the files waiting are less than
`MAX_MERGE_FANIN` plus one per such writer, and so are those a merge's snapshot leaves
behind (`DebtBounds`); a merge consumes what its snapshot names, white before black
(`ConsumedBySnap`).

The refinement rests on `LevelInv`: what is published is exactly what was generated.
It holds under `Calm`, that the user does not interrupt the end-of-level merge; the
first disagreement below the runs shows that it fails otherwise. Every other interrupt
is allowed. Each step then is a step of `LevelSpec` (a batch expanded, the level
completed or given up) or leaves its variables alone.

### The archive

`ArchiveInv` says at each place of the main thread which levels are established (whole,
and the scan will find them so) and which are clean (no run has begun to write them):
established below the level being worked on, clean above it, and what the sentinels of
the level itself allow in between. `HarmlessStops` leaves out the two stops the runs
show to do harm, a death inside the purge and Ctrl+C in the player threads; deaths
between any other two file operations, and any number of them, are covered.

### The thread pool

`PoolInv`: the types, that a caller inside a call has a number and a worker holding a
job shows it in the busy array, that no job is queued twice, that the job of a call is
new until it is pushed (`CallNew`), and that `Stop` raises the flag and discards the
queue in one critical section (`StopOrder`). `IdleMeansDone` follows because flags rise
only while the mutex is held. `NoLostWakeup` is inductive next to it: whoever makes a
condition true owes a notification until it has given it.

### The accumulator

`GpuAccumulatorProofs` first shows for any region that a stable pass by one field after a stable pass
by the other sorts by both (ranks of a total order are a permutation), that the
duplicate flags keep one board of each run, and that the compaction puts them at the
front. Then comes the concurrent part: boards are in one place
(`BatchInv`), no two kernel threads hold one slot (`ThreadInv`, `SlotInv`), and, the heart
of it, the boards stored before the batch and a full number of moves for each of its threads
fit the capacity, and the threads have claimed one slot per move begun (`RoomInv`). `StatsInv` and `FlushInv` say
what the counters and a flush under way hold. The refinement maps `wanted` to the
boards stored and those the running threads owe. The boards of a run are assumed to be
finitely many; the state before the first board is `Junk`.

### The end-of-level merge

`EolInv` has two halves. Player by player, because a thread touches only its own files:
which files exist (`FilesOK`), that inputs not yet deleted are listed (`InputsOK`), that the
calls of the cascade share no temporary file and there is none but theirs and the one
being made (`CallsOK`), that the place of the thread fits its stack, probe, queue and
readers (`PlaceOK`), and that what the outermost call was granted covers the temporary
file being made (`GrantOK`). And across players, drive by drive, the books, which are kept twice
(`Balanced`). Once in true bytes: a ledger and the charges of both players (reservation
or output, grant, files whose deletion will be booked) make up the limit; this is
`LedgerSettles` when the threads are joined. Once in granted bytes: the charges without
what files are over (`Net`) never exceed the limit. A claim is a compare-and-swap, so it
fits what the other player left since the probe, and a ledger that is overdrawn
grants nothing; a merge that outgrows its grant changes the true books and not the
granted ones. The difference of the two is `OverOn`, hence `OvershootBounded`: a ledger is overdrawn by no
more than that, and the files on a drive that a ledger knows of are covered by the granted
charges, file by file (`MakingFits`, `OutFits`, `LedgeredFit`). Without compression no output
outgrows its grant, because a grant has at least as many boards and trailers as the
file (`ReservedOK`); an output that has been created and not closed has no trailer
yet, and the reservation of a merge has two, so it pays for the one of the other
player's empty file. That a trailer has a size (`Trailer > 0`) is all this asks of the
format.

`NoBoardLost` needs `BoardsHeld`, which says where a player's boards are until an
interrupt (`HeldOK`). While files are being gathered, the inputs of each call of the cascade
hold all boards of the level, its temporary files those of the inputs it has passed,
and the queue and the readers those of the group being merged; once the output is
complete, it holds them all, and only then is an input deleted. The one step
that breaks this is `OpenInput` with no handle left: the code skips the file, merges the rest
and deletes it (the run `eol_handles`). `HandlesSuffice` excludes that step and nothing else.
The code's own figures (4000 handles, a fan-in of 3500) do not ensure it: two players
who merge at once may run out.

### The rules

The theorems hold for the sizes 4, 6 and 8, any opening and any number of symmetries
the kernel may be told to try. Reachability enters by one small inductive invariant,
`OnPositions`: the size is one of the three and the board is a position of it (pieces on
the board, the four in the middle among them, colors only where pieces are). All the rest is
about any position.

* Words and cells. A word is a set of bits and bit `8 * i + j` is the cell in row i and
  column j, so each shift, mask and swap of the code is a map of cells, and the sequence of swaps
  of a turn composes to the geometric turn. The only arithmetic is on bit numbers.
* Moves. Propagating along a direction for as many steps as the code takes gathers the
  runs of the opponent's pieces that begin next to one's own; a shift that leaves the row
  or the board is caught by the mask. With this the shifted words find a move exactly when
  the walk over the cells finds a run that it closes. The flips use the mask of the
  full grid instead of the board's: there is no difference, because no piece lies
  outside the board.
* Representatives. The order of keys is total on words (`WordOrder`: of two different
  words the one with the highest differing bit is greater), so the least of the sixteen
  forms is unique and does not depend on the order in which CPU and GPU try them.
* Symmetry. Turn, mirror and color swap generate a group, so the sixteen forms of a form are
  the sixteen forms of the board; moves, flips, passes and the end of a game go with
  them, so a form's children are forms of the board's children, and their
  canonical forms are the same.

`MovesWithinMax` (at most 6 moves on 4x4, 19 on 6x6) stays with TLC, which shows it for
4x4: it is a fact about the positions that occur in play, not about the rules.

### The files

The assumptions are those of the code: a writer's buffer holds two varints of the greatest
length, sizes of files are positive as an `int64_t`, the magics are three words greater than
a size, and the first word of a record, on which the four middle pieces of a board lie, is greater
than the number of cells of the file (`FileAssumption`; on the 8x8 board that is a plain file of
1.6 TB). The last one is why a plain file cut after a board whose colors are the plain magic
is not taken for a whole one: the count would have to be that word. The magics of
compressed files have no such guard, and `OpensOnlyWhole` names what is left.

Both invariants speak of a sequence of bytes `S` that no variable holds: all the bytes the
encoder has made so far. `Encodes` says that `S` is cut at the places `v[0], v[1], ...` into
the varints of the numbers `Z`, which are the zigzagged differences of the records' fields.

* Codec. `DeltaRestores` is arithmetic modulo the width. A varint is defined by recursion,
  so it is shown first that the recursion has a solution below every n and that `VarInt` is
  one (least counterexample instead of induction); then that its length grows with the
  number, so `MaxVarInt` bounds all of them, and how the reader's sum of digits times weights
  comes back to the number (`Weights`): value plus weight times what is left of the varint
  is constant, so neither is cut off at the width.
* `FileInv`, the way in. While writing, the file holds the first bytes of `S` (`ByteShape`), or
  the blocks cut out of it in order and then what is inside the encoder (`BlockShape`), and
  the writer's buffer the rest. A closed file is a body and the trailer of it (`Closed`); a cut
  one does not open unless it is a `Lookalike`. For the latter the last four cells are looked at wherever the cut
  lies: in the body, in the trailer, or across them.
* `ReadInv`, the way out. The reader has taken a number of bytes of `S`; `Decoder` relates it to
  the records delivered, the first field at hand, the last record and the varint under way.
  The cells behind are in the read buffer (`Window`), and of an LZ4 file the decoded bytes are
  in the decoder or handed out (`Handed`), up to the end of a block. So as long as a record is
  owed there are bytes left, and if all buffers are empty they are in the file (`NeverDry`).
  This is needed to show that the fatal end is never met: the encoder may end blocks anywhere
  and buffers may have any size.

Sums over finite sets (`SumProofs`) are where induction is needed. A step that adds or
removes one element is proved by induction over the subsets of a finite set, stated
with a set of good subsets where the library's theorem takes a predicate.

### Only model-checked

* Liveness (`LevelEnds`, `AllLevelsSolved`, `AcceptedRuns`, `CallsReturn` of the pool and of the
  tree, and the liveness part of `SolvesLevel`), because liveness under fairness is out of
  the prover's reach.
* `MovesWithinMax`, for 4x4, as said above.
* `BPlusTree`: `TypeOK`, `WellFormed` and the refinement `IsOrderedSet`. The tree's invariant is one
  on graphs of nodes that three kinds of restructuring change piecemeal while other threads
  descend; it is checked on eight scenarios.

## Plan

Worth doing next, in this order:

1. `BPlusTree`: a proof that a node is locked by one writer or by readers only, that nobody
   reaches a freed node, and the shape of the tree between two locked regions.
2. A bound on the moves of 6x6 boards, which TLC cannot enumerate.

## Not modelled

* Sizing (`InitSolver.cpp` 42-211): arithmetic on measured figures; its result is the
  assumption `PipelineAssumption`. The subtraction without a guard at line 164 stays a
  hazard without a property.
* The ledger debits of the writers and reservations of the intermediate merge: open
  answers in `LevelPipeline`, which makes it larger than the code, not smaller.
* The lifetime of the flush descriptor and the unsynchronised statistics counters: the
  one is undefined behaviour no document speaks of, the others are displayed only.
* The arena allocator and the tree's arena mode, `BPFreeTree`, `BPGetLevelStartKeys`, key
  comparison by field type, printing: unused by the solver, or sequential.
* The statistics display and its client, logging, argument parsing, drive benchmarks and
  hardware queries decide nothing about boards or files.
