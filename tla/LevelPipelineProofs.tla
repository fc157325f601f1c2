------------------------ MODULE LevelPipelineProofs ------------------------
(***************************************************************************)
(* Theorems about LevelPipeline for every number of writers, boards and    *)
(* batches, every buffer size and every fan-in.  First types and           *)
(* imergeCS, the after-close guarantee, the capacities of the buffers;     *)
(* then what becomes of the boards: none is lost, no complete file is      *)
(* written again, the files waiting for a merge stay few, and the pipeline *)
(* implements LevelSpec.                                                   *)
(***************************************************************************)
EXTENDS LevelPipeline, FiniteSetTheorems, SumProofs, TLAPS

(* What the provers need to know of the constants. *)
LEMMA Basics ==
  /\ White \in Players /\ Black \in Players /\ White # Black
  /\ \A p \in Players : p = White \/ p = Black
  /\ MergeDirs \subseteq OutDirs /\ StoreMergeDir \in OutDirs
  /\ StoreMergeDir \notin MergeDirs /\ StoreDir \notin OutDirs
  /\ StoreDir \notin Writers
  /\ \A w \in Writers : w \notin OutDirs
  /\ NoOne \notin Writers
BY PipelineAssumption DEF White, Black, Players, OutDirs, StoreMergeDir, StoreDir

(* The size of a batch or of an accumulator is a number. *)
LEMMA SizeType ==
  ASSUME NEW kids \in [Players -> SUBSET Boards]
  PROVE  Size(kids) \in Nat
<1>1. IsFiniteSet(kids[White]) /\ IsFiniteSet(kids[Black])
  <2>1. kids[White] \subseteq Boards /\ kids[Black] \subseteq Boards
    BY Basics
  <2> QED BY <2>1, PipelineAssumption, FS_Subset
<1>2. Cardinality(kids[White]) \in Nat /\ Cardinality(kids[Black]) \in Nat
  BY <1>1, FS_CardinalityType
<1> QED BY <1>2 DEF Size

(* What the GPU may generate is one set of boards per player. *)
LEMMA BatchType == \A kids \in Batches : kids \in [Players -> SUBSET Boards]
BY PipelineAssumption

(* Names are records: they are equal when their fields are. *)
LEMMA NameType ==
  ASSUME NEW d \in Writers \cup OutDirs \cup {StoreDir}, NEW p \in Players, NEW i \in Nat
  PROVE  /\ FileName(d, p, i) \in Names
         /\ FileName(d, p, i).dir = d
         /\ FileName(d, p, i).player = p
         /\ FileName(d, p, i).idx = i
         /\ \A n \in Names : n.dir = d /\ n.player = p /\ n.idx = i => n = FileName(d, p, i)
BY DEF FileName, Names

(* The parts of a file name that FileName builds. *)
LEMMA NameFields ==
  ASSUME NEW n \in Names
  PROVE  n.dir \in Writers \cup OutDirs \cup {StoreDir} /\ n.player \in Players /\ n.idx \in Nat
BY DEF Names

(* Whatever Put and Delete leave, disk maps names to files. *)
LEMMA PutType ==
  ASSUME DiskType, NEW n \in Names, NEW boards \in SUBSET Boards, NEW closed \in BOOLEAN
  PROVE  /\ DOMAIN Put(n, boards, closed) \subseteq Names
         /\ \A m \in DOMAIN Put(n, boards, closed) : Put(n, boards, closed)[m] \in Files
BY DEF DiskType, Put, Files

(* Deleting files leaves a map from names to files. *)
LEMMA DeleteType ==
  ASSUME NEW f, DOMAIN f \subseteq Names, \A n \in DOMAIN f : f[n] \in Files, NEW names
  PROVE  /\ DOMAIN Delete(f, names) \subseteq Names
         /\ \A n \in DOMAIN Delete(f, names) : Delete(f, names)[n] \in Files
BY DEF Delete, Restrict

(* A merge writes boards and nothing else. *)
LEMMA MergedType ==
  ASSUME DiskType, NEW names
  PROVE  Merged(names) \subseteq Boards
BY DEF DiskType, Merged, Closed, Files

----------------------------------------------------------------------------
(* Type correctness. A merge under way has an output name, and only the    *)
(* owner of imergeCS merges: without that the output's type is unknown.    *)

MergeLock ==
  /\ \A w \in Writers : cs = w <=> pc[w] \in {"recheck", "gather", "merge"}
  /\ \A w \in Writers :
       pc[w] = "merge" => /\ mergeOut \in Names
                          /\ mergeOut.dir \in OutDirs /\ mergeOut.player = side[w]

TypeInv == TypeOK /\ MergeLock

(* The state before the first batch has the right types and no merge. *)
LEMMA TypeInit == Init => TypeInv
<1> SUFFICES ASSUME Init PROVE TypeInv
  OBVIOUS
<1> USE DEF Init, Empty, PerWriter
<1>1. FeederType
  <2>1. left \in Nat /\ raw \in Nat
    BY PipelineAssumption
  <2> QED BY <2>1 DEF FeederType
<1>2. QueueType /\ WriterType
  BY DEF QueueType, WriterType, Players
<1>3. BufferType /\ CountType /\ MergeType
  BY DEF BufferType, CountType, MergeType
<1>4. DiskType /\ MainType
  BY DEF DiskType, MainType
<1>5. MergeLock
  BY Basics DEF MergeLock
<1> QED BY <1>1, <1>2, <1>3, <1>4, <1>5 DEF TypeOK, TypeInv

(* The feeder's steps. *)
LEMMA FeederTypeStep ==
  ASSUME TypeInv, Feeder
  PROVE  TypeOK'
<1> USE DEF TypeInv, TypeOK
<1>1. CASE ReadBatch
  <2>1. QueueType' /\ WriterType' /\ BufferType' /\ CountType' /\ MergeType' /\ DiskType' /\ MainType'
    BY <1>1 DEF ReadBatch, vars, QueueType, WriterType, BufferType, CountType, MergeType, DiskType, MainType, bufVars, countVars, mergeVars, mainVars
  <2>2. FeederType'
    BY <1>1 DEF ReadBatch, FeederType, feedVars
  <2> QED BY <2>1, <2>2
<1>2. CASE EndOfInput
  <2>1. QueueType' /\ WriterType' /\ BufferType' /\ CountType' /\ MergeType' /\ DiskType' /\ MainType'
    BY <1>2 DEF EndOfInput, vars, QueueType, WriterType, BufferType, CountType, MergeType, DiskType, MainType, bufVars, countVars, mergeVars, mainVars
  <2>2. FeederType'
    BY <1>2 DEF EndOfInput, FeederType, feedVars
  <2> QED BY <2>1, <2>2
<1>3. CASE FlushEmpty
  <2>1. QueueType' /\ WriterType' /\ BufferType' /\ CountType' /\ MergeType' /\ DiskType' /\ MainType'
    BY <1>3 DEF FlushEmpty, AfterFlush, Empty, vars, QueueType, WriterType, BufferType, CountType, MergeType, DiskType, MainType, bufVars, countVars, mergeVars, mainVars
  <2>2. FeederType'
    BY <1>3 DEF FlushEmpty, AfterFlush, Empty, FeederType, feedVars
  <2> QED BY <2>1, <2>2
<1>4. CASE SubmitFlush
  <2>1. WriterType' /\ BufferType' /\ CountType' /\ MergeType' /\ DiskType' /\ MainType'
    BY <1>4 DEF SubmitFlush, vars, WriterType, BufferType, CountType, MergeType, DiskType, MainType, bufVars, countVars, mergeVars, mainVars
  <2>2. FeederType'
    BY <1>4 DEF SubmitFlush, FeederType, feedVars
  <2>3. QueueType'
    <3>1. jobs' \in Nat
      BY <1>4 DEF SubmitFlush, QueueType
    <3> QED BY <1>4, <3>1 DEF SubmitFlush, QueueType
  <2> QED BY <2>1, <2>2, <2>3
<1>5. CASE ResetAccumulator
  <2>1. WriterType' /\ BufferType' /\ CountType' /\ MergeType' /\ DiskType' /\ MainType'
    BY <1>5 DEF ResetAccumulator, AfterFlush, Empty, vars, WriterType, BufferType, CountType, MergeType, DiskType, MainType, bufVars, countVars, mergeVars, mainVars
  <2>2. FeederType'
    BY <1>5 DEF ResetAccumulator, AfterFlush, Empty, FeederType, feedVars
  <2>3. QueueType'
    BY <1>5 DEF ResetAccumulator, AfterFlush, Empty, QueueType
  <2> QED BY <2>1, <2>2, <2>3
<1>6. ASSUME NEW kids \in Batches, Process(kids) PROVE TypeOK'
  <2>1. QueueType' /\ WriterType' /\ BufferType' /\ CountType' /\ MergeType' /\ DiskType' /\ MainType'
    BY <1>6 DEF Process, vars, QueueType, WriterType, BufferType, CountType, MergeType, DiskType, MainType, bufVars, countVars, mergeVars, mainVars
  <2>2. FeederType'
    <3>1. kids \in [Players -> SUBSET Boards] /\ Size(kids) \in Nat
      BY BatchType, SizeType
    <3>2. raw' \in Nat
      BY <3>1, <1>6, PipelineAssumption DEF Process, FeederType
    <3> QED BY <3>1, <3>2, <1>6 DEF Process, FeederType
  <2> QED BY <2>1, <2>2
<1> QED BY <1>1, <1>2, <1>3, <1>4, <1>5, <1>6 DEF Feeder

(* A merge writer's steps up to the merge test. *)
LEMMA BufferTypeStep ==
  ASSUME TypeInv, NEW w \in Writers,
         TakeJob(w) \/ CopyFlush(w) \/ OpenStream(w) \/ SkipStream(w)
         \/ CloseStream(w) \/ FinishFlush(w)
  PROVE  TypeOK'
<1> USE DEF TypeInv, TypeOK
<1>1. CASE TakeJob(w)
  <2>1. FeederType' /\ BufferType' /\ CountType' /\ MergeType' /\ DiskType' /\ MainType'
    BY <1>1 DEF TakeJob, vars, FeederType, BufferType, CountType, MergeType, DiskType, MainType, feedVars, bufVars, countVars, mergeVars, mainVars
  <2>2. QueueType'
    BY <1>1 DEF TakeJob, QueueType
  <2>3. WriterType'
    BY <1>1 DEF TakeJob, WriterType
  <2> QED BY <2>1, <2>2, <2>3
<1>2. CASE CopyFlush(w)
  <2>1. FeederType' /\ CountType' /\ MergeType' /\ DiskType' /\ MainType'
    BY <1>2 DEF CopyFlush, NewSegs, vars, FeederType, CountType, MergeType, DiskType, MainType, feedVars, countVars, mergeVars, mainVars
  <2>2. QueueType'
    BY <1>2 DEF CopyFlush, NewSegs, QueueType
  <2>3. WriterType'
    BY <1>2, Basics DEF CopyFlush, WriterType
  <2>4. BufferType'
    <3>1. Size(acc) \in Nat
      BY SizeType DEF FeederType
    <3>2. NewSegs(w) \in [Players -> Nat]
      BY DEF NewSegs, BufferType
    <3> QED BY <3>1, <3>2, <1>2 DEF CopyFlush, BufferType, FeederType
  <2> QED BY <2>1, <2>2, <2>3, <2>4
<1>3. CASE OpenStream(w)
  <2>1. FeederType' /\ QueueType' /\ BufferType' /\ CountType' /\ MergeType' /\ MainType'
    BY <1>3 DEF OpenStream, vars, FeederType, QueueType, BufferType, CountType, MergeType, MainType, feedVars, bufVars, countVars, mergeVars, mainVars
  <2>2. WriterType'
    BY <1>3 DEF OpenStream, WriterType
  <2>3. DiskType'
    <3>1. WriterFile(w) \in Names
      BY NameType DEF WriterFile, WriterType, CountType
    <3> QED BY <3>1, PutType, <1>3 DEF OpenStream, DiskType
  <2> QED BY <2>1, <2>2, <2>3
<1>4. CASE SkipStream(w)
  <2>1. FeederType' /\ QueueType' /\ BufferType' /\ CountType' /\ MergeType' /\ DiskType' /\ MainType'
    BY <1>4 DEF SkipStream, NextStream, vars, FeederType, QueueType, BufferType, CountType, MergeType, DiskType, MainType, feedVars, bufVars, countVars, mergeVars, mainVars
  <2>2. WriterType'
    BY <1>4, Basics DEF SkipStream, NextStream, WriterType
  <2> QED BY <2>1, <2>2
<1>5. CASE CloseStream(w)
  <2>1. FeederType' /\ QueueType' /\ BufferType' /\ MergeType' /\ MainType'
    BY <1>5 DEF CloseStream, NextStream, vars, FeederType, QueueType, BufferType, MergeType, MainType, feedVars, bufVars, mergeVars, mainVars
  <2>2. WriterType'
    BY <1>5, Basics DEF CloseStream, NextStream, WriterType
  <2>3. CountType'
    <3>1. fileCount' \in {fileCount, [fileCount EXCEPT ![w][side[w]] = @ + 1]}
      BY <1>5 DEF CloseStream
    <3>2. UNCHANGED <<consumed, outCount>>
      BY <1>5 DEF CloseStream
    <3>3. [fileCount EXCEPT ![w][side[w]] = @ + 1] \in [Writers -> [Players -> Nat]]
      BY DEF CountType, WriterType
    <3> QED BY <3>1, <3>2, <3>3 DEF CountType
  <2>4. DiskType'
    <3>1. WriterFile(w) \in Names
      BY NameType DEF WriterFile, WriterType, CountType
    <3>2. SUBSET held[w][side[w]] \subseteq SUBSET Boards
      BY DEF WriterType, BufferType
    <3> QED BY <3>1, <3>2, PutType, DeleteType, <1>5 DEF CloseStream, DiskType
  <2> QED BY <2>1, <2>2, <2>3, <2>4
<1>6. CASE FinishFlush(w)
  <2>1. FeederType' /\ QueueType' /\ CountType' /\ MergeType' /\ DiskType' /\ MainType'
    BY <1>6 DEF FinishFlush, Empty, vars, FeederType, QueueType, CountType, MergeType, DiskType, MainType, feedVars, countVars, mergeVars, mainVars
  <2>2. WriterType'
    BY <1>6, Basics DEF FinishFlush, WriterType
  <2>3. BufferType'
    BY <1>6 DEF FinishFlush, Empty, BufferType, bufVars
  <2> QED BY <2>1, <2>2, <2>3
<1> QED BY <1>1, <1>2, <1>3, <1>4, <1>5, <1>6

(* A merge starts with a directory the code writes to and existing inputs. *)
LEMMA MergeStarts ==
  ASSUME TypeInv, NEW w \in Writers,
         (\E d \in MergeDirs : StartMerge(w, d)) \/ StartTotalFlush(w)
  PROVE  \E e \in OutDirs, inputs \in SUBSET DOMAIN disk :
           /\ StartMergeInto(w, e, inputs)
           /\ inputs = Gathered(side[w]) \cup (IF e = StoreMergeDir THEN ImergeFiles(side[w]) ELSE {})
<1>1. ASSUME NEW d \in MergeDirs, StartMerge(w, d)
      PROVE  \E e \in OutDirs, inputs \in SUBSET DOMAIN disk :
               /\ StartMergeInto(w, e, inputs)
               /\ inputs = Gathered(side[w]) \cup (IF e = StoreMergeDir THEN ImergeFiles(side[w]) ELSE {})
  <2>1. d \in OutDirs /\ d # StoreMergeDir
    BY Basics
  <2>2. Gathered(side[w]) \in SUBSET DOMAIN disk
    BY DEF Gathered
  <2> QED BY <1>1, <2>1, <2>2 DEF StartMerge
<1>2. CASE StartTotalFlush(w)
  <2>1. Gathered(side[w]) \cup ImergeFiles(side[w]) \in SUBSET DOMAIN disk
    BY DEF Gathered, ImergeFiles
  <2> QED BY <1>2, <2>1, Basics DEF StartTotalFlush
<1> QED BY <1>1, <1>2

(* The cross-drive merge. *)
LEMMA MergeTypeStep ==
  ASSUME TypeInv, NEW w \in Writers,
         \/ EnterMerge(w) \/ LeaveUnneeded(w) \/ Snapshot(w) \/ BreakMerge(w)
         \/ NothingToMerge(w) \/ StartTotalFlush(w) \/ FinishMerge(w)
         \/ \E d \in MergeDirs : StartMerge(w, d)
  PROVE  TypeOK'
<1> USE DEF TypeInv, TypeOK
<1>1. CASE EnterMerge(w)
  <2>1. FeederType' /\ QueueType' /\ BufferType' /\ CountType' /\ DiskType' /\ MainType'
    BY <1>1 DEF EnterMerge, vars, FeederType, QueueType, BufferType, CountType, DiskType, MainType, feedVars, bufVars, countVars, mainVars
  <2>2. WriterType'
    BY <1>1 DEF EnterMerge, WriterType
  <2>3. MergeType'
    BY <1>1 DEF EnterMerge, MergeType, mergeVars
  <2> QED BY <2>1, <2>2, <2>3
<1>2. CASE LeaveUnneeded(w)
  <2>1. FeederType' /\ QueueType' /\ BufferType' /\ CountType' /\ DiskType' /\ MainType'
    BY <1>2 DEF LeaveUnneeded, Leave, PerWriter, vars, FeederType, QueueType, BufferType, CountType, DiskType, MainType, feedVars, bufVars, countVars, mainVars
  <2>2. WriterType'
    BY <1>2, Basics DEF LeaveUnneeded, Leave, WriterType
  <2>3. MergeType'
    BY <1>2 DEF LeaveUnneeded, Leave, PerWriter, MergeType, mergeVars
  <2> QED BY <2>1, <2>2, <2>3
<1>3. CASE Snapshot(w)
  <2>1. FeederType' /\ QueueType' /\ BufferType' /\ CountType' /\ DiskType' /\ MainType'
    BY <1>3 DEF Snapshot, vars, FeederType, QueueType, BufferType, CountType, DiskType, MainType, feedVars, bufVars, countVars, mainVars
  <2>2. WriterType'
    BY <1>3, Basics DEF Snapshot, WriterType
  <2>3. MergeType'
    BY <1>3 DEF Snapshot, MergeType, CountType
  <2> QED BY <2>1, <2>2, <2>3
<1>4. CASE BreakMerge(w)
  <2>1. FeederType' /\ QueueType' /\ BufferType' /\ CountType' /\ DiskType' /\ MainType'
    BY <1>4 DEF BreakMerge, Leave, PerWriter, vars, FeederType, QueueType, BufferType, CountType, DiskType, MainType, feedVars, bufVars, countVars, mainVars
  <2>2. WriterType'
    BY <1>4, Basics DEF BreakMerge, Leave, WriterType
  <2>3. MergeType'
    BY <1>4 DEF BreakMerge, Leave, PerWriter, MergeType, mergeVars
  <2> QED BY <2>1, <2>2, <2>3
<1>5. CASE NothingToMerge(w)
  <2>1. FeederType' /\ QueueType' /\ BufferType' /\ DiskType' /\ MainType'
    BY <1>5 DEF NothingToMerge, NextMerge, Leave, PerWriter, vars, FeederType, QueueType, BufferType, DiskType, MainType, feedVars, bufVars, mainVars
  <2>2. WriterType'
    BY <1>5, Basics DEF NothingToMerge, NextMerge, Leave, WriterType
  <2>3. CountType'
    BY <1>5 DEF NothingToMerge, NextMerge, CountType, MergeType, WriterType
  <2>4. MergeType'
    BY <1>5 DEF NothingToMerge, NextMerge, Leave, PerWriter, MergeType, mergeVars
  <2> QED BY <2>1, <2>2, <2>3, <2>4
<1>6. ASSUME NEW d \in OutDirs, NEW inputs \in SUBSET Names, StartMergeInto(w, d, inputs)
      PROVE  TypeOK'
  <2>1. FeederType' /\ QueueType' /\ BufferType' /\ MainType'
    BY <1>6 DEF StartMergeInto, vars, FeederType, QueueType, BufferType, MainType, feedVars, bufVars, mainVars
  <2>2. WriterType'
    BY <1>6 DEF StartMergeInto, WriterType
  <2>3. CountType'
    BY <1>6 DEF StartMergeInto, CountType, WriterType
  <2>4. MergeType'
    <3>1. FileName(d, side[w], outCount[d][side[w]]) \in Names
      BY NameType DEF WriterType, CountType
    <3> QED BY <3>1, <1>6 DEF StartMergeInto, MergeType
  <2>5. DiskType'
    <3>1. FileName(d, side[w], outCount[d][side[w]]) \in Names
      BY NameType DEF WriterType, CountType
    <3> QED BY <3>1, PutType, <1>6 DEF StartMergeInto, DiskType
  <2> QED BY <2>1, <2>2, <2>3, <2>4, <2>5
<1>7. CASE FinishMerge(w)
  <2>1. FeederType' /\ QueueType' /\ BufferType' /\ MainType'
    BY <1>7 DEF FinishMerge, NextMerge, Leave, PerWriter, vars, FeederType, QueueType, BufferType, MainType, feedVars, bufVars, mainVars
  <2>2. WriterType'
    BY <1>7, Basics DEF FinishMerge, NextMerge, Leave, WriterType
  <2>3. CountType'
    <3>1. Restarted(side[w]) \in [OutDirs -> [Players -> Nat]]
      BY DEF Restarted, CountType, WriterType
    <3> QED BY <3>1, <1>7 DEF FinishMerge, NextMerge, CountType, MergeType, WriterType
  <2>4. MergeType'
    BY <1>7 DEF FinishMerge, NextMerge, Leave, PerWriter, MergeType, mergeVars
  <2>5. DiskType'
    <3>1. mergeOut \in Names
      BY <1>7 DEF FinishMerge, MergeLock
    <3>2. PICK out \in SUBSET Merged(mergeIn) : disk' = Delete(Put(mergeOut, out, TRUE), mergeIn)
      BY <1>7 DEF FinishMerge
    <3>3. out \subseteq Boards
      BY <3>2, MergedType
    <3> QED BY <3>1, <3>2, <3>3, PutType, DeleteType DEF DiskType
  <2> QED BY <2>1, <2>2, <2>3, <2>4, <2>5
<1>8. SUBSET DOMAIN disk \subseteq SUBSET Names
  BY DEF DiskType
<1> QED BY <1>1, <1>2, <1>3, <1>4, <1>5, <1>6, <1>7, <1>8, MergeStarts

(* The main thread. *)
LEMMA MainTypeStep ==
  ASSUME TypeInv, Main
  PROVE  TypeOK'
<1> USE DEF TypeInv, TypeOK
<1>1. CASE FeederIdle
  <2>1. FeederType' /\ QueueType' /\ WriterType' /\ BufferType' /\ CountType' /\ MergeType' /\ DiskType'
    BY <1>1 DEF FeederIdle, vars, FeederType, QueueType, WriterType, BufferType, CountType, MergeType, DiskType, feedVars, bufVars, countVars, mergeVars
  <2>2. MainType'
    BY <1>1 DEF FeederIdle, MainType, mainVars
  <2> QED BY <2>1, <2>2
<1>2. CASE PoolIdle
  <2>1. FeederType' /\ QueueType' /\ WriterType' /\ BufferType' /\ CountType' /\ MergeType' /\ DiskType'
    BY <1>2 DEF PoolIdle, vars, FeederType, QueueType, WriterType, BufferType, CountType, MergeType, DiskType, feedVars, bufVars, countVars, mergeVars
  <2>2. MainType'
    BY <1>2 DEF PoolIdle, MainType, mainVars
  <2> QED BY <2>1, <2>2
<1>3. ASSUME NEW w \in Writers, FlushNext(w) PROVE TypeOK'
  <2>1. FeederType' /\ QueueType' /\ BufferType' /\ CountType' /\ MergeType' /\ DiskType'
    BY <1>3 DEF FlushNext, vars, FeederType, QueueType, BufferType, CountType, MergeType, DiskType, feedVars, bufVars, countVars, mergeVars
  <2>2. MainType'
    BY <1>3 DEF FlushNext, MainType, mainVars
  <2>3. WriterType'
    BY <1>3 DEF FlushNext, WriterType
  <2> QED BY <2>1, <2>2, <2>3
<1>4. CASE FlushDone
  <2>1. FeederType' /\ QueueType' /\ WriterType' /\ BufferType' /\ CountType' /\ MergeType' /\ DiskType'
    BY <1>4 DEF FlushDone, vars, FeederType, QueueType, WriterType, BufferType, CountType, MergeType, DiskType, feedVars, bufVars, countVars, mergeVars
  <2>2. MainType'
    BY <1>4 DEF FlushDone, MainType, DiskType, LevelFiles
  <2> QED BY <2>1, <2>2
<1>5. CASE Publish
  <2>1. FeederType' /\ QueueType' /\ WriterType' /\ BufferType' /\ CountType' /\ MergeType' /\ DiskType'
    BY <1>5 DEF Publish, vars, FeederType, QueueType, WriterType, BufferType, CountType, MergeType, DiskType, feedVars, bufVars, countVars, mergeVars
  <2>2. MainType'
    BY <1>5 DEF Publish, MainType, mainVars
  <2> QED BY <2>1, <2>2
<1> QED BY <1>1, <1>2, <1>3, <1>4, <1>5 DEF Main

(* The player threads of the end-of-level merge. *)
LEMMA PlayerTypeStep ==
  ASSUME TypeInv, NEW p \in Players, PlayerThread(p)
  PROVE  TypeOK'
<1> USE DEF TypeInv, TypeOK
<1>1. CASE EolNothing(p)
  <2>1. FeederType' /\ QueueType' /\ WriterType' /\ BufferType' /\ CountType' /\ MergeType' /\ DiskType'
    BY <1>1 DEF EolNothing, vars, FeederType, QueueType, WriterType, BufferType, CountType, MergeType, DiskType, feedVars, bufVars, countVars, mergeVars
  <2>2. MainType'
    BY <1>1 DEF EolNothing, MainType, mainVars
  <2> QED BY <2>1, <2>2
<1>2. CASE StartEol(p)
  <2>1. FeederType' /\ QueueType' /\ WriterType' /\ BufferType' /\ CountType' /\ MergeType'
    BY <1>2 DEF StartEol, vars, FeederType, QueueType, WriterType, BufferType, CountType, MergeType, feedVars, bufVars, countVars, mergeVars
  <2>2. MainType'
    BY <1>2 DEF StartEol, MainType, mainVars
  <2>3. DiskType'
    <3>1. StoreFile(p) \in Names
      BY NameType DEF StoreFile
    <3> QED BY <3>1, PutType, <1>2 DEF StartEol, DiskType
  <2> QED BY <2>1, <2>2, <2>3
<1>3. CASE FinishEol(p)
  <2>1. FeederType' /\ QueueType' /\ WriterType' /\ BufferType' /\ CountType' /\ MergeType'
    BY <1>3 DEF FinishEol, vars, FeederType, QueueType, WriterType, BufferType, CountType, MergeType, feedVars, bufVars, countVars, mergeVars
  <2>2. MainType'
    BY <1>3 DEF FinishEol, MainType, mainVars
  <2>3. DiskType'
    <3>1. StoreFile(p) \in Names
      BY NameType DEF StoreFile
    <3>2. PICK out \in SUBSET Merged(eolIn[p]) : disk' = Delete(Put(StoreFile(p), out, TRUE), eolIn[p])
      BY <1>3 DEF FinishEol
    <3>3. out \subseteq Boards
      BY <3>2, MergedType
    <3> QED BY <3>1, <3>2, <3>3, PutType, DeleteType DEF DiskType
  <2> QED BY <2>1, <2>2, <2>3
<1> QED BY <1>1, <1>2, <1>3 DEF PlayerThread

(* The user, and steps of nobody. *)
LEMMA OtherTypeStep ==
  ASSUME TypeInv, Interrupt \/ UNCHANGED vars
  PROVE  TypeOK'
<1> USE DEF TypeInv, TypeOK
<1>1. CASE Interrupt
  <2>1. FeederType' /\ QueueType' /\ WriterType' /\ BufferType' /\ CountType' /\ MergeType' /\ DiskType'
    BY <1>1 DEF Interrupt, vars, FeederType, QueueType, WriterType, BufferType, CountType, MergeType, DiskType, feedVars, bufVars, countVars, mergeVars
  <2>2. MainType'
    BY <1>1 DEF Interrupt, MainType, mainVars
  <2> QED BY <2>1, <2>2
<1>2. CASE UNCHANGED vars
  <2>1. FeederType' /\ QueueType' /\ WriterType' /\ BufferType' /\ CountType' /\ MergeType' /\ DiskType' /\ MainType'
    BY <1>2 DEF vars, FeederType, QueueType, WriterType, BufferType, CountType, MergeType, DiskType, MainType, feedVars, bufVars, countVars, mergeVars, mainVars
  <2> QED BY <2>1
<1> QED BY <1>1, <1>2

(* Every step keeps the types. *)
LEMMA TypeStep ==
  ASSUME TypeInv, [Next]_vars
  PROVE  TypeOK'
<1>1. CASE Feeder
  BY <1>1, FeederTypeStep
<1>2. ASSUME NEW w \in Writers, Writer(w) PROVE TypeOK'
  BY <1>2, BufferTypeStep, MergeTypeStep DEF Writer
<1>3. CASE Main
  BY <1>3, MainTypeStep
<1>4. ASSUME NEW p \in Players, PlayerThread(p) PROVE TypeOK'
  BY <1>4, PlayerTypeStep
<1>5. CASE Interrupt \/ Over \/ UNCHANGED vars
  BY <1>5, OtherTypeStep DEF Over
<1> QED BY <1>1, <1>2, <1>3, <1>4, <1>5 DEF Next

(* Entering, leaving and holding imergeCS go together with where a writer  *)
(* is, so two merges never run at the same time.                           *)
LEMMA LockStep ==
  ASSUME TypeInv, [Next]_vars
  PROVE  MergeLock'
<1> USE Basics DEF TypeInv, TypeOK, WriterType, MergeLock
<1>1. ASSUME UNCHANGED <<pc, side, cs, mergeOut>> PROVE MergeLock'
  BY <1>1
<1>2. CASE Feeder
  BY <1>1, <1>2 DEF Feeder, ReadBatch, EndOfInput, FlushEmpty, SubmitFlush, ResetAccumulator,
                    Process, mergeVars
<1>3. ASSUME NEW w \in Writers,
             TakeJob(w) \/ CopyFlush(w) \/ OpenStream(w) \/ SkipStream(w)
               \/ CloseStream(w) \/ FinishFlush(w)
      PROVE  MergeLock'
  <2>1. CASE TakeJob(w)
    BY <2>1 DEF TakeJob, mergeVars
  <2>2. CASE CopyFlush(w)
    BY <2>2 DEF CopyFlush, mergeVars
  <2>3. CASE OpenStream(w)
    BY <2>3 DEF OpenStream, mergeVars
  <2>4. CASE SkipStream(w)
    BY <2>4 DEF SkipStream, NextStream, mergeVars
  <2>5. CASE CloseStream(w)
    BY <2>5 DEF CloseStream, NextStream, mergeVars
  <2>6. CASE FinishFlush(w)
    BY <2>6 DEF FinishFlush, mergeVars
  <2> QED BY <1>3, <2>1, <2>2, <2>3, <2>4, <2>5, <2>6
<1>4. ASSUME NEW w \in Writers,
             EnterMerge(w) \/ LeaveUnneeded(w) \/ Snapshot(w) \/ BreakMerge(w) \/ NothingToMerge(w)
      PROVE  MergeLock'
  <2>1. CASE EnterMerge(w)
    BY <2>1 DEF EnterMerge
  <2>2. CASE LeaveUnneeded(w)
    BY <2>2 DEF LeaveUnneeded, Leave
  <2>3. CASE Snapshot(w)
    BY <2>3 DEF Snapshot
  <2>4. CASE BreakMerge(w)
    BY <2>4 DEF BreakMerge, Leave
  <2>5. CASE NothingToMerge(w)
    BY <2>5 DEF NothingToMerge, NextMerge, Leave
  <2> QED BY <1>4, <2>1, <2>2, <2>3, <2>4, <2>5
<1>5. ASSUME NEW w \in Writers, NEW d \in OutDirs, NEW inputs, StartMergeInto(w, d, inputs)
      PROVE  MergeLock'
  <2>1. LET out == FileName(d, side[w], outCount[d][side[w]])
        IN  out \in Names /\ out.dir = d /\ out.player = side[w]
    BY NameType DEF CountType
  <2> QED BY <1>5, <2>1 DEF StartMergeInto
<1>6. ASSUME NEW w \in Writers, FinishMerge(w) PROVE MergeLock'
  BY <1>6 DEF FinishMerge, NextMerge, Leave
<1>7. CASE Main
  <2>1. ASSUME NEW w \in Writers, FlushNext(w) PROVE MergeLock'
    BY <2>1 DEF FlushNext, Idle, mergeVars
  <2> QED BY <1>1, <1>7, <2>1 DEF Main, FeederIdle, PoolIdle, FlushDone, Publish, mergeVars
<1>8. ASSUME NEW p \in Players, PlayerThread(p) PROVE MergeLock'
  BY <1>1, <1>8 DEF PlayerThread, EolNothing, StartEol, FinishEol, mergeVars
<1>9. CASE Interrupt \/ Over \/ UNCHANGED vars
  BY <1>1, <1>9 DEF Interrupt, Over, vars, mergeVars
<1>10. ASSUME NEW w \in Writers, Writer(w) PROVE MergeLock'
  BY <1>3, <1>4, <1>5, <1>6, <1>10, MergeStarts DEF Writer
<1> QED BY <1>2, <1>7, <1>8, <1>9, <1>10 DEF Next

(* Every variable keeps its type, in every reachable state. *)
THEOREM TypeCorrect == Spec => []TypeInv
<1>1. TypeInv /\ [Next]_vars => TypeInv'
  BY TypeStep, LockStep DEF TypeInv
<1> QED BY <1>1, TypeInit, PTL DEF Spec

(* Type correctness of the pipeline: whatever the threads, the user and    *)
(* the drives do, every counter is a number, every buffer and file holds   *)
(* boards, every thread is at a place of its code.                         *)
THEOREM TypeCorrectness == Spec => []TypeOK
<1>1. TypeInv => TypeOK
  BY DEF TypeInv
<1> QED BY <1>1, TypeCorrect, PTL

----------------------------------------------------------------------------
(* Which files are complete. The after-close guarantee is not inductive: a *)
(* merge's inputs stay complete because no other merge runs, because its   *)
(* own output is a fresh name, and because main's merge starts when every  *)
(* writer is idle.                                                         *)

WriterFiles == \A n \in DOMAIN disk : n.dir \in Writers =>
  /\ disk[n].closed <=> n.idx < fileCount[n.dir][n.player]
  /\ ~disk[n].closed => /\ n.idx = fileCount[n.dir][n.player]
                        /\ pc[n.dir] = "write" /\ side[n.dir] = n.player

OutputFiles == \A n \in DOMAIN disk : n.dir \in OutDirs =>
  /\ n.idx < outCount[n.dir][n.player]
  /\ ~disk[n].closed => n = mergeOut /\ \E w \in Writers : pc[w] = "merge"

StoreFiles == \A n \in DOMAIN disk : n.dir = StoreDir =>
  /\ n = StoreFile(n.player)
  /\ eol[n.player] \in {"merging", "done"}
  /\ disk[n].closed <=> eol[n.player] = "done"

MergeUnderWay ==
  /\ \A w \in Writers : pc[w] = "merge" =>
       /\ mergeOut \in DOMAIN disk /\ ~disk[mergeOut].closed
       /\ \A n \in mergeIn : Closed(n) /\ n.player = side[w] /\ n.dir # StoreDir
       /\ mergeOut.dir = StoreMergeDir => ImergeFiles(side[w]) \subseteq mergeIn
  /\ (\A w \in Writers : pc[w] # "merge") => mergeIn = {}

SnapBounded == \A w \in Writers, p \in Players : snap[w][p] <= fileCount[w][p]

EolInputs == \A p \in Players : eol[p] \in {"start", "merging"} =>
  \A n \in eolIn[p] : Closed(n) /\ n.player = p /\ n.dir # StoreDir

PhaseOrder ==
  /\ phase # "solve" => feeder = "done"
  /\ phase \in {"eol", "complete"} => Idle
  /\ \A p \in Players : eol[p] # "idle" => phase \in {"eol", "complete"}

FileInv ==
  /\ TypeInv /\ WriterFiles /\ OutputFiles /\ StoreFiles
  /\ MergeUnderWay /\ SnapBounded /\ EolInputs /\ PhaseOrder

(* Before the first batch there is no file. *)
LEMMA FileInit == Init => FileInv
<1> SUFFICES ASSUME Init PROVE FileInv
  OBVIOUS
<1>1. TypeInv
  BY TypeInit
<1>2. WriterFiles /\ OutputFiles /\ StoreFiles
  BY DEF Init, WriterFiles, OutputFiles, StoreFiles
<1>3. MergeUnderWay /\ EolInputs /\ PhaseOrder
  BY DEF Init, MergeUnderWay, EolInputs, PhaseOrder
<1>4. SnapBounded
  BY DEF Init, SnapBounded, PerWriter
<1> QED BY <1>1, <1>2, <1>3, <1>4 DEF FileInv

(* A merge writer works only while the level is being solved or flushed:    *)
(* the end-of-level merge has not begun and the store holds no file yet.    *)
LEMMA WriterActive ==
  ASSUME FileInv, NEW w \in Writers, pc[w] # "idle" \/ jobs > 0
  PROVE  /\ phase \notin {"eol", "complete"}
         /\ \A p \in Players : eol[p] = "idle"
         /\ \A n \in DOMAIN disk : n.dir \in Writers \/ n.dir \in OutDirs
<1>1. phase \notin {"eol", "complete"}
  <2>1. ~Idle
    BY DEF Idle, FileInv, TypeInv, TypeOK, QueueType
  <2> QED BY <2>1 DEF FileInv, PhaseOrder
<1>2. \A p \in Players : eol[p] = "idle"
  BY <1>1 DEF FileInv, PhaseOrder
<1>3. \A n \in DOMAIN disk : n.dir \in Writers \/ n.dir \in OutDirs
  <2>1. ASSUME NEW n \in DOMAIN disk PROVE n.dir # StoreDir
    <3>1. n.player \in Players
      BY NameFields DEF FileInv, TypeInv, TypeOK, DiskType
    <3> QED BY <3>1, <1>2 DEF FileInv, StoreFiles
  <2> QED BY <2>1, NameFields DEF FileInv, TypeInv, TypeOK, DiskType
<1> QED BY <1>1, <1>2, <1>3

(* While the main thread's part does not move and the store stays empty,    *)
(* what FileInv says of the store and of the phases is kept.                *)
LEMMA MainPartKept ==
  ASSUME FileInv, NEW w \in Writers, pc[w] # "idle" \/ jobs > 0,
         UNCHANGED <<phase, eol, feeder>>,
         \A n \in DOMAIN disk' : n.dir \in Writers \/ n.dir \in OutDirs
  PROVE  StoreFiles' /\ EolInputs' /\ PhaseOrder'
<1>1. StoreFiles'
  BY Basics DEF StoreFiles
<1>2. EolInputs'
  BY WriterActive DEF EolInputs
<1>3. PhaseOrder'
  BY WriterActive DEF FileInv, PhaseOrder
<1> QED BY <1>1, <1>2, <1>3

(* Steps of a writer that touch no file.                                    *)
LEMMA QuietKept ==
  ASSUME FileInv, NEW w \in Writers, pc[w] \notin {"write", "merge"},
         NEW x, x \notin {"write", "merge"}, pc' = [pc EXCEPT ![w] = x],
         NEW p \in Players, side' = [side EXCEPT ![w] = p] \/ side' = side,
         UNCHANGED <<disk, fileCount, outCount, mergeIn, mergeOut>>,
         snap' \in {snap, PerWriter(0), fileCount}
  PROVE  WriterFiles' /\ OutputFiles' /\ MergeUnderWay' /\ SnapBounded'
<1> USE DEF FileInv, TypeInv, TypeOK, WriterType
<1>1. WriterFiles'
  BY DEF WriterFiles
<1>2. OutputFiles'
  BY DEF OutputFiles
<1>3. MergeUnderWay'
  BY DEF MergeUnderWay, Closed, ImergeFiles
<1>4. SnapBounded'
  BY DEF SnapBounded, PerWriter, CountType
<1> QED BY <1>1, <1>2, <1>3, <1>4

(* A writer's steps between two files: nothing it touches is a file.        *)
LEMMA QuietWriterStep ==
  ASSUME FileInv, NEW w \in Writers,
         \/ TakeJob(w) \/ CopyFlush(w) \/ SkipStream(w) \/ FinishFlush(w)
         \/ EnterMerge(w) \/ LeaveUnneeded(w) \/ Snapshot(w) \/ BreakMerge(w)
         \/ NothingToMerge(w)
  PROVE  /\ WriterFiles' /\ OutputFiles' /\ StoreFiles'
         /\ MergeUnderWay' /\ SnapBounded' /\ EolInputs' /\ PhaseOrder'
<1> USE Basics
<1>1. TakeJob(w) => jobs > 0
  BY DEF TakeJob
<1>2. CASE TakeJob(w)
  <2>1. WriterFiles' /\ OutputFiles' /\ MergeUnderWay' /\ SnapBounded'
    BY <1>2, QuietKept DEF TakeJob, countVars, mergeVars
  <2> QED BY <1>2, <2>1, MainPartKept, WriterActive DEF TakeJob, mainVars, feedVars
<1>3. CASE CopyFlush(w)
  <2>1. WriterFiles' /\ OutputFiles' /\ MergeUnderWay' /\ SnapBounded'
    BY <1>3, QuietKept DEF CopyFlush, countVars, mergeVars
  <2> QED BY <1>3, <2>1, MainPartKept, WriterActive DEF CopyFlush, mainVars, feedVars
<1>4. CASE SkipStream(w)
  <2>1. WriterFiles' /\ OutputFiles' /\ MergeUnderWay' /\ SnapBounded'
    BY <1>4, QuietKept DEF SkipStream, NextStream, countVars, mergeVars
  <2> QED BY <1>4, <2>1, MainPartKept, WriterActive DEF SkipStream, mainVars, feedVars
<1>5. CASE FinishFlush(w)
  <2>1. WriterFiles' /\ OutputFiles' /\ MergeUnderWay' /\ SnapBounded'
    BY <1>5, QuietKept DEF FinishFlush, countVars, mergeVars
  <2> QED BY <1>5, <2>1, MainPartKept, WriterActive DEF FinishFlush, mainVars, feedVars
<1>6. CASE EnterMerge(w)
  <2>1. WriterFiles' /\ OutputFiles' /\ MergeUnderWay' /\ SnapBounded'
    BY <1>6, QuietKept DEF EnterMerge, countVars
  <2> QED BY <1>6, <2>1, MainPartKept, WriterActive DEF EnterMerge, mainVars, feedVars
<1>7. CASE LeaveUnneeded(w) \/ BreakMerge(w)
  <2>1. WriterFiles' /\ OutputFiles' /\ MergeUnderWay' /\ SnapBounded'
    BY <1>7, QuietKept DEF LeaveUnneeded, BreakMerge, Leave, countVars
  <2> QED BY <1>7, <2>1, MainPartKept, WriterActive DEF LeaveUnneeded, BreakMerge, mainVars, feedVars
<1>8. CASE Snapshot(w)
  <2>1. WriterFiles' /\ OutputFiles' /\ MergeUnderWay' /\ SnapBounded'
    BY <1>8, QuietKept DEF Snapshot, countVars
  <2> QED BY <1>8, <2>1, MainPartKept, WriterActive DEF Snapshot, mainVars, feedVars
<1>9. CASE NothingToMerge(w)
  <2>1. WriterFiles' /\ OutputFiles' /\ MergeUnderWay' /\ SnapBounded'
    BY <1>9, QuietKept DEF NothingToMerge, NextMerge, Leave, countVars
  <2> QED BY <1>9, <2>1, MainPartKept, WriterActive DEF NothingToMerge, mainVars, feedVars
<1> QED BY <1>2, <1>3, <1>4, <1>5, <1>6, <1>7, <1>8, <1>9

(* A new file of a writer takes a name no file has, and no merge reads it.  *)
LEMMA OpenStep ==
  ASSUME FileInv, NEW w \in Writers, OpenStream(w)
  PROVE  /\ WriterFiles' /\ OutputFiles' /\ StoreFiles'
         /\ MergeUnderWay' /\ SnapBounded' /\ EolInputs' /\ PhaseOrder'
<1> DEFINE new == WriterFile(w)
<1> USE Basics DEF FileInv, TypeInv, TypeOK, WriterType
<1>1. /\ new \in Names /\ new.dir = w /\ new.player = side[w]
      /\ new.idx = fileCount[w][side[w]]
  BY NameType DEF WriterFile, CountType
<1>2. new \notin DOMAIN disk
  <2>1. pc[w] = "stream" /\ fileCount[w][side[w]] \in Nat
    BY DEF OpenStream, CountType
  <2> QED BY <1>1, <2>1 DEF WriterFiles
<1>3. /\ DOMAIN disk' = DOMAIN disk \cup {new}
      /\ ~disk'[new].closed
      /\ \A n \in DOMAIN disk : disk'[n] = disk[n]
  BY <1>2 DEF OpenStream, Put
<1>4. pc' = [pc EXCEPT ![w] = "write"] /\ pc[w] = "stream"
      /\ UNCHANGED <<side, fileCount, outCount, snap, mergeIn, mergeOut, phase, eol, feeder>>
  BY DEF OpenStream, countVars, mergeVars, mainVars, feedVars
<1>5. WriterFiles'
  <2>1. fileCount[w][side[w]] \in Nat
    BY DEF CountType
  <2> QED BY <1>1, <1>3, <1>4, <2>1 DEF WriterFiles
<1>6. OutputFiles'
  BY <1>1, <1>3, <1>4 DEF OutputFiles
<1>7. MergeUnderWay'
  <2>1. \A n : Closed(n) => Closed(n)'
    BY <1>2, <1>3 DEF Closed
  <2>2. \A p : ImergeFiles(p)' = ImergeFiles(p)
    BY <1>1, <1>3 DEF ImergeFiles
  <2> QED BY <1>3, <1>4, <2>1, <2>2 DEF MergeUnderWay
<1>8. SnapBounded'
  BY <1>4 DEF SnapBounded
<1>9. StoreFiles' /\ EolInputs' /\ PhaseOrder'
  <2>1. \A n \in DOMAIN disk' : n.dir \in Writers \/ n.dir \in OutDirs
    BY <1>1, <1>3, <1>4, WriterActive
  <2> QED BY <1>4, <2>1, MainPartKept
<1> QED BY <1>5, <1>6, <1>7, <1>8, <1>9

(* Closing a stream: the count passes exactly the file that was closed, or  *)
(* the file is gone and the count stays.                                    *)
LEMMA CloseStep ==
  ASSUME FileInv, NEW w \in Writers, CloseStream(w)
  PROVE  /\ WriterFiles' /\ OutputFiles' /\ StoreFiles'
         /\ MergeUnderWay' /\ SnapBounded' /\ EolInputs' /\ PhaseOrder'
<1> DEFINE new == WriterFile(w)
<1> USE Basics DEF FileInv, TypeInv, TypeOK, WriterType
<1>1. /\ new \in Names /\ new.dir = w /\ new.player = side[w]
      /\ new.idx = fileCount[w][side[w]]
      /\ \A n \in Names : n.dir = w /\ n.player = side[w] /\ n.idx = fileCount[w][side[w]] => n = new
  BY NameType DEF WriterFile, CountType
<1>2. ~Closed(new)
  BY <1>1 DEF WriterFiles, Closed, CountType
<1>3. /\ DOMAIN disk' \subseteq DOMAIN disk \cup {new}
      /\ \A n \in DOMAIN disk : n # new => n \in DOMAIN disk' /\ disk'[n] = disk[n]
      /\ \/ new \notin DOMAIN disk' /\ fileCount' = fileCount
         \/ /\ new \in DOMAIN disk' /\ disk'[new].closed
            /\ fileCount' = [fileCount EXCEPT ![w][side[w]] = @ + 1]
  BY DEF CloseStream, Put, Delete, Restrict
<1>4. \E x \in {"stream", "tally"} : pc' = [pc EXCEPT ![w] = x]
  BY DEF CloseStream, NextStream
<1>5. /\ pc[w] = "write" 
      /\ UNCHANGED <<outCount, snap, mergeIn, mergeOut, phase, eol, feeder>>
      /\ \A v \in Writers \ {w} : side'[v] = side[v]
  BY DEF CloseStream, NextStream, mergeVars, mainVars, feedVars
<1>6. WriterFiles'
  <2>1. ASSUME NEW n \in DOMAIN disk', n.dir \in Writers
        PROVE  /\ disk'[n].closed <=> n.idx < fileCount'[n.dir][n.player]
               /\ ~disk'[n].closed => /\ n.idx = fileCount'[n.dir][n.player]
                                      /\ pc'[n.dir] = "write" /\ side'[n.dir] = n.player
    <3>1. n \in Names /\ n.player \in Players /\ n.idx \in Nat
      BY <1>1, <1>3, NameFields DEF DiskType
    <3>2. fileCount[n.dir][n.player] \in Nat
      BY <2>1, <3>1 DEF CountType
    <3>3. CASE n = new
      BY <1>1, <1>3, <2>1, <3>2, <3>3 DEF CountType
    <3>4. CASE n # new /\ n.dir = w /\ n.player = side[w]
      <4>1. n \in DOMAIN disk /\ disk'[n] = disk[n] /\ n.idx # fileCount[w][side[w]]
        BY <1>1, <1>3, <3>1, <3>4
      <4>2. disk[n].closed /\ n.idx < fileCount[w][side[w]]
        BY <2>1, <3>4, <4>1 DEF WriterFiles
      <4>3. fileCount'[w][side[w]] \in {fileCount[w][side[w]], fileCount[w][side[w]] + 1}
        BY <1>3 DEF CountType
      <4> QED BY <3>1, <3>2, <3>4, <4>1, <4>2, <4>3
    <3>5. CASE n # new /\ (n.dir # w \/ n.player # side[w])
      <4>1. n \in DOMAIN disk /\ disk'[n] = disk[n]
        BY <1>3, <3>5
      <4>2. fileCount'[n.dir][n.player] = fileCount[n.dir][n.player]
        BY <1>3, <2>1, <3>1, <3>5 DEF CountType
      <4>3. ~disk[n].closed => n.dir # w
        BY <2>1, <3>5, <4>1 DEF WriterFiles
      <4>4. n.dir # w => pc'[n.dir] = pc[n.dir] /\ side'[n.dir] = side[n.dir]
        BY <1>4, <1>5, <2>1
      <4> QED BY <2>1, <4>1, <4>2, <4>3, <4>4 DEF WriterFiles
    <3> QED BY <3>3, <3>4, <3>5
  <2> QED BY <2>1 DEF WriterFiles
<1>7. OutputFiles'
  BY <1>1, <1>3, <1>4, <1>5 DEF OutputFiles
<1>8. MergeUnderWay'
  <2>1. \A n : Closed(n) => Closed(n)'
    BY <1>2, <1>3 DEF Closed
  <2>2. \A p : ImergeFiles(p)' = ImergeFiles(p)
    BY <1>1, <1>3 DEF ImergeFiles
  <2>3. \A v \in Writers : pc'[v] = "merge" => /\ pc[v] = "merge" /\ side'[v] = side[v]
                                               /\ mergeOut # new
    BY <1>1, <1>4, <1>5 DEF MergeLock
  <2>4. \A v \in Writers : pc[v] = "merge" => pc'[v] = "merge"
    BY <1>4, <1>5
  <2> QED BY <1>3, <1>5, <2>1, <2>2, <2>3, <2>4 DEF MergeUnderWay
<1>9. SnapBounded'
  <2>1. \A v \in Writers, p \in Players : fileCount[v][p] <= fileCount'[v][p]
    BY <1>3 DEF CountType
  <2>2. fileCount' \in [Writers -> [Players -> Nat]]
    BY <1>3 DEF CountType
  <2>3. \A v \in Writers, p \in Players :
          snap'[v][p] \in Nat /\ fileCount[v][p] \in Nat /\ fileCount'[v][p] \in Nat
    BY <1>5, <2>2 DEF CountType, MergeType
  <2> QED BY <1>5, <2>1, <2>3 DEF SnapBounded
<1>10. StoreFiles' /\ EolInputs' /\ PhaseOrder'
  <2>1. \A n \in DOMAIN disk' : n.dir \in Writers \/ n.dir \in OutDirs
    BY <1>1, <1>3, <1>5, WriterActive
  <2> QED BY <1>5, <2>1, MainPartKept
<1> QED BY <1>6, <1>7, <1>8, <1>9, <1>10

(* While no merge runs, every output of a merge is complete.                *)
LEMMA OutputsClosed ==
  ASSUME FileInv, \A v \in Writers : pc[v] # "merge"
  PROVE  \A n \in DOMAIN disk : n.dir \in OutDirs => Closed(n)
BY DEF FileInv, OutputFiles, Closed

(* A merge's inputs are complete files of one player and its output is new: *)
(* the owner of imergeCS is alone, and the counter of the directory is past *)
(* every name in it.                                                        *)
LEMMA StartMergeStep ==
  ASSUME FileInv, NEW w \in Writers, NEW d \in OutDirs, NEW inputs \in SUBSET DOMAIN disk,
         StartMergeInto(w, d, inputs),
         inputs = Gathered(side[w]) \cup (IF d = StoreMergeDir THEN ImergeFiles(side[w]) ELSE {})
  PROVE  /\ WriterFiles' /\ OutputFiles' /\ StoreFiles'
         /\ MergeUnderWay' /\ SnapBounded' /\ EolInputs' /\ PhaseOrder'
<1> DEFINE out == FileName(d, side[w], outCount[d][side[w]])
<1> USE Basics DEF FileInv, TypeInv, TypeOK, WriterType
<1>1. /\ out \in Names /\ out.dir = d /\ out.player = side[w]
      /\ out.idx = outCount[d][side[w]]
  BY NameType DEF CountType
<1>2. out \notin DOMAIN disk
  <2>1. outCount[d][side[w]] \in Nat
    BY DEF CountType
  <2> QED BY <1>1, <2>1 DEF OutputFiles
<1>3. /\ DOMAIN disk' = DOMAIN disk \cup {out}
      /\ ~disk'[out].closed
      /\ \A n \in DOMAIN disk : disk'[n] = disk[n]
  BY <1>2 DEF StartMergeInto, Put
<1>4. pc' = [pc EXCEPT ![w] = "merge"] /\ pc[w] = "gather"
      /\ UNCHANGED <<side, fileCount, snap, phase, eol, feeder>>
      /\ mergeIn' = inputs /\ mergeOut' = out
      /\ outCount' = [outCount EXCEPT ![d][side[w]] = @ + 1]
  BY DEF StartMergeInto, mainVars, feedVars
<1>5. \A v \in Writers : pc[v] # "merge" /\ (pc'[v] = "merge" => v = w)
  BY <1>4 DEF MergeLock
<1>6. WriterFiles'
  BY <1>1, <1>3, <1>4 DEF WriterFiles
<1>7. OutputFiles'
  <2>1. ASSUME NEW n \in DOMAIN disk', n.dir \in OutDirs
        PROVE  /\ n.idx < outCount'[n.dir][n.player]
               /\ ~disk'[n].closed => n = mergeOut' /\ \E v \in Writers : pc'[v] = "merge"
    <3>1. n \in Names /\ n.player \in Players /\ n.idx \in Nat
      BY <1>1, <1>3, NameFields DEF DiskType
    <3>2. outCount[n.dir][n.player] \in Nat /\ outCount[d][side[w]] \in Nat
      BY <2>1, <3>1 DEF CountType
    <3>3. outCount'[n.dir][n.player] = IF n.dir = d /\ n.player = side[w]
                                       THEN outCount[n.dir][n.player] + 1 ELSE outCount[n.dir][n.player]
      BY <1>4, <2>1, <3>1 DEF CountType
    <3>4. CASE n = out
      BY <1>1, <1>4, <3>2, <3>3, <3>4
    <3>5. CASE n # out
      <4>1. n \in DOMAIN disk /\ disk'[n] = disk[n]
        BY <1>3, <3>5
      <4>2. n.idx < outCount[n.dir][n.player] /\ disk[n].closed
        BY <1>5, <2>1, <4>1 DEF OutputFiles
      <4> QED BY <3>1, <3>2, <3>3, <4>1, <4>2
    <3> QED BY <3>4, <3>5
  <2> QED BY <2>1 DEF OutputFiles
<1>8. MergeUnderWay'
  <2>1. \A n \in inputs : Closed(n) /\ n.player = side[w] /\ n.dir # StoreDir
    <3>1. ASSUME NEW n \in Gathered(side[w]) PROVE Closed(n) /\ n.player = side[w] /\ n.dir # StoreDir
      <4>1. /\ n \in DOMAIN disk /\ n.dir \in Writers /\ n.player = side[w]
            /\ n.idx < snap[n.dir][side[w]]
        BY DEF Gathered
      <4>2. snap[n.dir][side[w]] <= fileCount[n.dir][side[w]]
        BY <4>1 DEF SnapBounded
      <4>3. n.idx \in Nat /\ snap[n.dir][side[w]] \in Nat /\ fileCount[n.dir][side[w]] \in Nat
        BY <4>1, NameFields DEF DiskType, MergeType, CountType
      <4>4. n.idx < fileCount[n.dir][n.player]
        BY <4>1, <4>2, <4>3
      <4> QED BY <4>1, <4>4 DEF WriterFiles, Closed
    <3>2. ASSUME NEW n \in ImergeFiles(side[w]) PROVE Closed(n) /\ n.player = side[w] /\ n.dir # StoreDir
      BY <1>5, OutputsClosed DEF ImergeFiles
    <3> QED BY <3>1, <3>2
  <2>2. \A n \in DOMAIN disk : Closed(n) => Closed(n)'
    BY <1>3 DEF Closed
  <2>3. d = StoreMergeDir => ImergeFiles(side[w])' \subseteq inputs
    BY <1>1, <1>3, <1>4 DEF ImergeFiles
  <2> QED BY <1>1, <1>3, <1>4, <1>5, <2>1, <2>2, <2>3 DEF MergeUnderWay
<1>9. SnapBounded'
  BY <1>4 DEF SnapBounded
<1>10. StoreFiles' /\ EolInputs' /\ PhaseOrder'
  <2>1. \A n \in DOMAIN disk' : n.dir \in Writers \/ n.dir \in OutDirs
    BY <1>1, <1>3, <1>4, WriterActive
  <2> QED BY <1>4, <2>1, MainPartKept
<1> QED BY <1>6, <1>7, <1>8, <1>9, <1>10

(* The end of a merge: its output is complete, its inputs are gone, and a   *)
(* total flush restarts only the numbering of directories it has emptied.   *)
LEMMA FinishMergeStep ==
  ASSUME FileInv, NEW w \in Writers, FinishMerge(w)
  PROVE  /\ WriterFiles' /\ OutputFiles' /\ StoreFiles'
         /\ MergeUnderWay' /\ SnapBounded' /\ EolInputs' /\ PhaseOrder'
<1> USE Basics DEF FileInv, TypeInv, TypeOK, WriterType
<1>1. pc[w] = "merge" /\ mergeOut.dir \in OutDirs /\ mergeOut.player = side[w] /\ mergeOut \in DOMAIN disk
  BY DEF FinishMerge, MergeLock, MergeUnderWay
<1>2. /\ DOMAIN disk' \subseteq DOMAIN disk
      /\ \A n \in mergeIn : n \notin DOMAIN disk'
      /\ \A n \in DOMAIN disk' : n # mergeOut => disk'[n] = disk[n]
      /\ mergeOut \in DOMAIN disk' => disk'[mergeOut].closed
  BY <1>1 DEF FinishMerge, Put, Delete, Restrict
<1>3. \E x \in {"gather", "idle"} : pc' = [pc EXCEPT ![w] = x]
  BY DEF FinishMerge, NextMerge, Leave
<1>4. /\ UNCHANGED <<fileCount, phase, eol, feeder>>
      /\ mergeIn' = {} /\ mergeOut' = NoOne
      /\ outCount' = IF mergeOut.dir = StoreMergeDir THEN Restarted(side[w]) ELSE outCount
      /\ snap' \in {snap, PerWriter(0)}
      /\ \A v \in Writers \ {w} : side'[v] = side[v]
  BY DEF FinishMerge, NextMerge, Leave, mainVars, feedVars
<1>5. \A v \in Writers : pc'[v] # "merge"
  BY <1>1, <1>3 DEF MergeLock
<1>6. WriterFiles'
  <2>1. \A n \in DOMAIN disk' : n.dir \in Writers => n \in DOMAIN disk /\ disk'[n] = disk[n]
    BY <1>1, <1>2
  <2>2. \A v \in Writers : pc[v] = "write" => pc'[v] = "write" /\ side'[v] = side[v]
    BY <1>1, <1>3, <1>4
  <2> QED BY <1>4, <2>1, <2>2 DEF WriterFiles
<1>7. OutputFiles'
  <2>1. ASSUME NEW n \in DOMAIN disk', n.dir \in OutDirs
        PROVE  n.idx < outCount'[n.dir][n.player] /\ disk'[n].closed
    <3>1. n \in DOMAIN disk /\ n \in Names /\ n.player \in Players
      BY <1>2, NameFields DEF DiskType
    <3>2. disk'[n].closed
      BY <1>2, <2>1, <3>1 DEF OutputFiles
    <3>3. n.idx < outCount[n.dir][n.player]
      BY <2>1, <3>1 DEF OutputFiles
    <3>4. outCount'[n.dir][n.player] = outCount[n.dir][n.player]
      <4>1. CASE mergeOut.dir # StoreMergeDir
        BY <1>4, <4>1
      <4>2. CASE mergeOut.dir = StoreMergeDir
        <5>1. n \notin ImergeFiles(side[w])
          BY <1>1, <1>2, <4>2 DEF MergeUnderWay
        <5>2. n.dir \notin MergeDirs \/ n.player # side[w]
          BY <3>1, <5>1 DEF ImergeFiles
        <5> QED BY <1>4, <2>1, <3>1, <4>2, <5>2 DEF Restarted, CountType
      <4> QED BY <4>1, <4>2
    <3> QED BY <3>2, <3>3, <3>4
  <2> QED BY <2>1 DEF OutputFiles
<1>8. MergeUnderWay'
  BY <1>4, <1>5 DEF MergeUnderWay
<1>9. SnapBounded'
  BY <1>4 DEF SnapBounded, PerWriter, CountType
<1>10. StoreFiles' /\ EolInputs' /\ PhaseOrder'
  <2>1. \A n \in DOMAIN disk' : n.dir \in Writers \/ n.dir \in OutDirs
    BY <1>1, <1>2, WriterActive
  <2> QED BY <1>1, <1>4, <2>1, MainPartKept
<1> QED BY <1>6, <1>7, <1>8, <1>9, <1>10

(* The feeder works only while the level is being solved, and on no file.   *)
LEMMA FeederFileStep ==
  ASSUME FileInv, Feeder
  PROVE  /\ WriterFiles' /\ OutputFiles' /\ StoreFiles'
         /\ MergeUnderWay' /\ SnapBounded' /\ EolInputs' /\ PhaseOrder'
<1>1. /\ feeder # "done"
      /\ UNCHANGED <<phase, eol, eolIn, pc, side, fileCount, outCount, snap, mergeIn, mergeOut, disk>>
  BY DEF Feeder, ReadBatch, EndOfInput, FlushEmpty, SubmitFlush, ResetAccumulator, Process,
         mainVars, countVars, mergeVars
<1>2. PhaseOrder'
  BY <1>1 DEF FileInv, PhaseOrder
<1>3. WriterFiles' /\ OutputFiles' /\ StoreFiles'
  BY <1>1 DEF FileInv, WriterFiles, OutputFiles, StoreFiles, StoreFile
<1>4. MergeUnderWay' /\ SnapBounded' /\ EolInputs'
  BY <1>1 DEF FileInv, MergeUnderWay, SnapBounded, EolInputs, Closed, ImergeFiles
<1> QED BY <1>2, <1>3, <1>4

(* The main thread writes no file itself; when it hands the files to the    *)
(* player threads every writer is idle, so each of them is complete.        *)
LEMMA MainFileStep ==
  ASSUME FileInv, Main
  PROVE  /\ WriterFiles' /\ OutputFiles' /\ StoreFiles'
         /\ MergeUnderWay' /\ SnapBounded' /\ EolInputs' /\ PhaseOrder'
<1> USE Basics DEF FileInv, TypeInv, TypeOK, WriterType
<1>1. UNCHANGED <<side, fileCount, outCount, snap, mergeIn, mergeOut, disk, jobs, feeder>>
  BY DEF Main, FeederIdle, PoolIdle, FlushDone, Publish, FlushNext, countVars, mergeVars, feedVars
<1>2. SnapBounded'
  BY <1>1 DEF SnapBounded
<1>3. CASE FeederIdle \/ PoolIdle
  <2>1. UNCHANGED <<pc, eol, eolIn>> /\ phase' \in {"drain", "flush", "stopped"}
        /\ feeder = "done" /\ phase \in {"solve", "drain"}
    BY <1>3 DEF FeederIdle, PoolIdle, PhaseOrder
  <2>2. WriterFiles' /\ OutputFiles' /\ StoreFiles'
    BY <1>1, <2>1 DEF WriterFiles, OutputFiles, StoreFiles, StoreFile
  <2>3. MergeUnderWay' /\ EolInputs' /\ PhaseOrder'
    BY <1>1, <2>1 DEF MergeUnderWay, EolInputs, Closed, ImergeFiles, PhaseOrder
  <2> QED BY <1>2, <2>2, <2>3
<1>4. ASSUME NEW w \in Writers, FlushNext(w)
      PROVE  /\ WriterFiles' /\ OutputFiles' /\ StoreFiles'
             /\ MergeUnderWay' /\ SnapBounded' /\ EolInputs' /\ PhaseOrder'
  <2>1. /\ UNCHANGED <<phase, eol, eolIn>> /\ phase = "flush" /\ pc[w] = "idle"
        /\ \E x \in {"idle", "stream"} : pc' = [pc EXCEPT ![w] = x]
    BY <1>4 DEF FlushNext, Idle
  <2>2. WriterFiles' /\ OutputFiles' /\ MergeUnderWay'
    BY <1>1, <2>1, QuietKept
  <2>3. StoreFiles'
    BY <1>1, <2>1 DEF StoreFiles, StoreFile
  <2>4. EolInputs' /\ PhaseOrder'
    BY <1>1, <2>1 DEF EolInputs, Closed, PhaseOrder
  <2> QED BY <1>2, <2>2, <2>3, <2>4
<1>5. CASE FlushDone
  <2>1. UNCHANGED pc /\ phase = "flush" /\ Idle /\ phase' \in {"stopped", "eol"}
    BY <1>5 DEF FlushDone
  <2>2. WriterFiles' /\ OutputFiles' /\ MergeUnderWay'
    BY <1>1, <2>1 DEF WriterFiles, OutputFiles, MergeUnderWay, Closed, ImergeFiles
  <2>3. \A p \in Players : eol[p] = "idle"
    BY <2>1 DEF PhaseOrder
  <2>4. \A n \in DOMAIN disk : Closed(n) /\ n.dir # StoreDir
    <3>1. ASSUME NEW n \in DOMAIN disk PROVE Closed(n) /\ n.dir # StoreDir
      <4>1. n.dir \in Writers \cup OutDirs \cup {StoreDir} /\ n.player \in Players
        BY NameFields DEF DiskType
      <4>2. n.dir # StoreDir
        BY <2>3, <4>1 DEF StoreFiles
      <4>3. n.dir \in Writers => Closed(n)
        BY <2>1 DEF WriterFiles, Closed, Idle
      <4>4. n.dir \in OutDirs => Closed(n)
        BY <2>1, OutputsClosed DEF Idle
      <4> QED BY <4>1, <4>2, <4>3, <4>4
    <3> QED BY <3>1
  <2>5. StoreFiles'
    BY <1>1, <2>4 DEF StoreFiles
  <2>6. EolInputs'
    <3>1. CASE terminate
      BY <1>5, <2>3, <3>1 DEF FlushDone, EolInputs
    <3>2. CASE ~terminate
      <4>1. \A p \in Players : eolIn'[p] = LevelFiles(p)
        BY <1>5, <3>2 DEF FlushDone
      <4> QED BY <1>1, <2>4, <4>1 DEF EolInputs, LevelFiles, Closed
    <3> QED BY <3>1, <3>2
  <2>7. PhaseOrder'
    <3>1. Idle' /\ feeder' = "done"
      BY <1>1, <2>1 DEF Idle, PhaseOrder
    <3>2. \A p \in Players : eol'[p] # "idle" => phase' \in {"eol", "complete"}
      BY <1>5, <2>3 DEF FlushDone
    <3> QED BY <3>1, <3>2 DEF PhaseOrder
  <2> QED BY <1>2, <2>2, <2>5, <2>6, <2>7
<1>6. CASE Publish
  <2>1. UNCHANGED <<pc, eol, eolIn>> /\ phase = "eol" /\ phase' = "complete"
    BY <1>6 DEF Publish
  <2>2. WriterFiles' /\ OutputFiles' /\ StoreFiles'
    BY <1>1, <2>1 DEF WriterFiles, OutputFiles, StoreFiles, StoreFile
  <2>3. MergeUnderWay' /\ EolInputs' /\ PhaseOrder'
    BY <1>1, <2>1 DEF MergeUnderWay, EolInputs, Closed, ImergeFiles, PhaseOrder, Idle
  <2> QED BY <1>2, <2>2, <2>3
<1> QED BY <1>3, <1>4, <1>5, <1>6 DEF Main

(* A player thread writes its own file of the store and deletes only files  *)
(* of its own player: the other thread's inputs stay.                       *)
LEMMA PlayerFileStep ==
  ASSUME FileInv, NEW p \in Players, PlayerThread(p)
  PROVE  /\ WriterFiles' /\ OutputFiles' /\ StoreFiles'
         /\ MergeUnderWay' /\ SnapBounded' /\ EolInputs' /\ PhaseOrder'
<1> USE Basics DEF FileInv, TypeInv, TypeOK, WriterType
<1> DEFINE out == StoreFile(p)
<1>1. /\ UNCHANGED <<phase, eolIn, pc, side, fileCount, outCount, snap, mergeIn, mergeOut, jobs, feeder>>
      /\ eol[p] \in {"start", "merging"}
      /\ \E x \in {"merging", "done"} : eol' = [eol EXCEPT ![p] = x]
  BY DEF PlayerThread, EolNothing, StartEol, FinishEol, countVars, mergeVars, feedVars
<1>2. phase \in {"eol", "complete"} /\ Idle /\ \A w \in Writers : pc[w] = "idle"
  BY <1>1 DEF PhaseOrder, Idle
<1>3. SnapBounded'
  BY <1>1 DEF SnapBounded
<1>4. PhaseOrder'
  BY <1>1, <1>2 DEF PhaseOrder, Idle
<1>5. MergeUnderWay'
  BY <1>1, <1>2 DEF MergeUnderWay
<1>6. /\ out \in Names /\ out.dir = StoreDir /\ out.player = p
      /\ \A n \in Names : n = StoreFile(n.player) /\ n.player = p => n = out
  BY NameType DEF StoreFile
<1>7. /\ \A n \in DOMAIN disk' : n # out => n \in DOMAIN disk /\ disk'[n] = disk[n]
      /\ \A n \in DOMAIN disk : n.player # p => n \in DOMAIN disk'
      /\ eol[p] = "start" => out \notin DOMAIN disk
      /\ out \in DOMAIN disk' => disk'[out].closed <=> eol'[p] = "done"
      /\ eol'[p] = "merging" => \A n \in DOMAIN disk : n # out => n \in DOMAIN disk'
  <2>1. eol[p] = "start" => out \notin DOMAIN disk
    BY <1>6 DEF StoreFiles
  <2>2. CASE EolNothing(p)
    <3>1. UNCHANGED disk /\ eol[p] = "start" /\ eol'[p] = "done"
      BY <2>2 DEF EolNothing, MainType
    <3> QED BY <2>1, <3>1
  <2>3. CASE StartEol(p)
    <3>1. disk' = Put(out, {}, FALSE) /\ eol'[p] = "merging"
      BY <2>3 DEF StartEol, MainType
    <3> QED BY <2>1, <3>1 DEF Put
  <2>4. CASE FinishEol(p)
    <3>1. eol'[p] = "done" /\ eol[p] = "merging"
      BY <2>4 DEF FinishEol, MainType
    <3>2. \A n \in eolIn[p] : n.player = p
      BY <3>1 DEF EolInputs
    <3>3. PICK boards : disk' = Delete(Put(out, boards, TRUE), eolIn[p])
      BY <2>4 DEF FinishEol
    <3> QED BY <3>1, <3>2, <3>3 DEF Put, Delete, Restrict
  <2> QED BY <2>2, <2>3, <2>4 DEF PlayerThread
<1>8. WriterFiles'
  BY <1>1, <1>6, <1>7 DEF WriterFiles
<1>9. OutputFiles'
  BY <1>1, <1>6, <1>7 DEF OutputFiles
<1>10. StoreFiles'
  <2>1. ASSUME NEW n \in DOMAIN disk', n.dir = StoreDir
        PROVE  /\ n = StoreFile(n.player)
               /\ eol'[n.player] \in {"merging", "done"}
               /\ disk'[n].closed <=> eol'[n.player] = "done"
    <3>1. CASE n = out
      <4>1. eol'[p] \in {"merging", "done"}
        BY <1>1 DEF MainType
      <4> QED BY <1>6, <1>7, <2>1, <3>1, <4>1
    <3>2. CASE n # out
      <4>1. n \in DOMAIN disk /\ disk'[n] = disk[n] /\ n \in Names /\ n.player \in Players
        BY <1>7, <3>2, NameFields DEF DiskType
      <4>2. n = StoreFile(n.player) /\ n.player # p
        BY <1>6, <2>1, <3>2, <4>1 DEF StoreFiles
      <4>3. eol'[n.player] = eol[n.player]
        BY <1>1, <4>1, <4>2 DEF MainType
      <4> QED BY <2>1, <4>1, <4>2, <4>3 DEF StoreFiles
    <3> QED BY <3>1, <3>2
  <2> QED BY <2>1 DEF StoreFiles, StoreFile
<1>11. EolInputs'
  <2>1. ASSUME NEW q \in Players, eol'[q] \in {"start", "merging"}, NEW n \in eolIn'[q]
        PROVE  Closed(n)' /\ n.player = q /\ n.dir # StoreDir
    <3>1. eol[q] \in {"start", "merging"} /\ n \in eolIn[q]
      BY <1>1, <2>1 DEF MainType
    <3>2. Closed(n) /\ n.player = q /\ n.dir # StoreDir
      BY <3>1 DEF EolInputs
    <3>3. q = p => eol'[p] = "merging"
      BY <1>1, <2>1 DEF MainType
    <3>4. n \in DOMAIN disk' /\ n # out
      BY <1>6, <1>7, <3>2, <3>3 DEF Closed
    <3> QED BY <1>7, <3>2, <3>4 DEF Closed
  <2> QED BY <2>1 DEF EolInputs
<1> QED BY <1>3, <1>4, <1>5, <1>8, <1>9, <1>10, <1>11

(* The user, and steps of nobody, change no file and no place in the code.  *)
LEMMA OtherFileStep ==
  ASSUME FileInv, Interrupt \/ UNCHANGED vars
  PROVE  /\ WriterFiles' /\ OutputFiles' /\ StoreFiles'
         /\ MergeUnderWay' /\ SnapBounded' /\ EolInputs' /\ PhaseOrder'
<1>1. UNCHANGED <<phase, eol, eolIn, pc, side, fileCount, outCount, snap, mergeIn, mergeOut, disk,
                  jobs, feeder>>
  BY DEF Interrupt, vars, mainVars, countVars, mergeVars, feedVars
<1>2. WriterFiles' /\ OutputFiles' /\ StoreFiles'
  BY <1>1 DEF FileInv, WriterFiles, OutputFiles, StoreFiles, StoreFile
<1>3. MergeUnderWay' /\ SnapBounded' /\ EolInputs' /\ PhaseOrder'
  BY <1>1 DEF FileInv, MergeUnderWay, SnapBounded, EolInputs, Closed, ImergeFiles, PhaseOrder, Idle
<1> QED BY <1>2, <1>3

(* Every step keeps what FileInv says of the files.                         *)
LEMMA FileStep ==
  ASSUME FileInv, [Next]_vars
  PROVE  FileInv'
<1> DEFINE Kept == /\ WriterFiles' /\ OutputFiles' /\ StoreFiles'
                   /\ MergeUnderWay' /\ SnapBounded' /\ EolInputs' /\ PhaseOrder'
<1>1. TypeInv'
  BY TypeStep, LockStep DEF FileInv, TypeInv
<1>2. CASE Feeder
  BY <1>1, <1>2, FeederFileStep DEF FileInv
<1>3. ASSUME NEW w \in Writers, Writer(w) PROVE Kept
  <2>1. ASSUME StartTotalFlush(w) \/ \E d \in MergeDirs : StartMerge(w, d) PROVE Kept
    <3>1. TypeInv
      BY DEF FileInv
    <3>2. PICK e \in OutDirs, inputs \in SUBSET DOMAIN disk :
            /\ StartMergeInto(w, e, inputs)
            /\ inputs = Gathered(side[w]) \cup (IF e = StoreMergeDir THEN ImergeFiles(side[w]) ELSE {})
      BY <2>1, <3>1, MergeStarts
    <3> QED BY <3>2, StartMergeStep
  <2>2. CASE OpenStream(w)
    BY <2>2, OpenStep
  <2>3. CASE CloseStream(w)
    BY <2>3, CloseStep
  <2>4. CASE FinishMerge(w)
    BY <2>4, FinishMergeStep
  <2> QED BY <1>3, <2>1, <2>2, <2>3, <2>4, QuietWriterStep DEF Writer
<1>4. CASE Main
  BY <1>1, <1>4, MainFileStep DEF FileInv
<1>5. ASSUME NEW p \in Players, PlayerThread(p) PROVE Kept
  BY <1>5, PlayerFileStep
<1>6. CASE Interrupt \/ Over \/ UNCHANGED vars
  BY <1>1, <1>6, OtherFileStep DEF Over, FileInv
<1> QED BY <1>1, <1>2, <1>3, <1>4, <1>5, <1>6 DEF Next, FileInv

(* FileInv holds in every reachable state.                                  *)
THEOREM FilesCorrect == Spec => []FileInv
<1>1. FileInv /\ [Next]_vars => FileInv'
  BY FileStep
<1> QED BY <1>1, FileInit, PTL DEF Spec

(* The after-close guarantee holds for every number of writers, merge        *)
(* directories and boards and every fan-in: no merge, of whichever thread,   *)
(* ever lists a file that is still being written or is already gone.         *)
THEOREM AfterClose == Spec => []AfterCloseGuarantee
<1>1. FileInv => AfterCloseGuarantee
  <2> SUFFICES ASSUME FileInv PROVE AfterCloseGuarantee
    OBVIOUS
  <2>1. \A n \in DOMAIN disk :
          n.dir \in Writers => (disk[n].closed <=> n.idx < fileCount[n.dir][n.player])
    BY DEF FileInv, WriterFiles
  <2>2. \A n \in mergeIn : Closed(n)
    BY DEF FileInv, MergeUnderWay
  <2>3. \A p \in Players : eol[p] \in {"start", "merging"} => \A n \in eolIn[p] : Closed(n)
    BY DEF FileInv, EolInputs
  <2> QED BY <2>1, <2>2, <2>3 DEF AfterCloseGuarantee
<1> QED BY <1>1, FilesCorrect, PTL

----------------------------------------------------------------------------
(* The capacities: the accumulator never holds more than a merge-writer    *)
(* buffer keeps free.                                                      *)

(* Boards are counted at most once in a union.                             *)
LEMMA SizeUnion ==
  ASSUME NEW a \in [Players -> SUBSET Boards], NEW b \in [Players -> SUBSET Boards]
  PROVE  Size([p \in Players |-> a[p] \cup b[p]]) <= Size(a) + Size(b)
<1> DEFINE c == [p \in Players |-> a[p] \cup b[p]]
<1>1. ASSUME NEW p \in Players
      PROVE  /\ Cardinality(a[p]) \in Nat /\ Cardinality(b[p]) \in Nat
             /\ Cardinality(c[p]) \in Nat
             /\ Cardinality(c[p]) <= Cardinality(a[p]) + Cardinality(b[p])
  <2>1. IsFiniteSet(a[p]) /\ IsFiniteSet(b[p])
    <3>1. a[p] \subseteq Boards /\ b[p] \subseteq Boards
      OBVIOUS
    <3> QED BY <3>1, PipelineAssumption, FS_Subset
  <2>2. Cardinality(a[p]) \in Nat /\ Cardinality(b[p]) \in Nat
    BY <2>1, FS_CardinalityType
  <2>3. /\ IsFiniteSet(a[p] \cup b[p]) /\ IsFiniteSet(a[p] \cap b[p])
        /\ Cardinality(a[p] \cup b[p])
             = Cardinality(a[p]) + Cardinality(b[p]) - Cardinality(a[p] \cap b[p])
    BY <2>1, FS_Union, FS_Intersection
  <2>4. Cardinality(a[p] \cap b[p]) \in Nat /\ Cardinality(a[p] \cup b[p]) \in Nat
    BY <2>3, FS_CardinalityType
  <2>5. c[p] = a[p] \cup b[p]
    OBVIOUS
  <2> QED BY <2>2, <2>3, <2>4, <2>5
<1>2. /\ Cardinality(c[White]) <= Cardinality(a[White]) + Cardinality(b[White])
      /\ Cardinality(c[Black]) <= Cardinality(a[Black]) + Cardinality(b[Black])
      /\ \A p \in Players : /\ Cardinality(a[p]) \in Nat /\ Cardinality(b[p]) \in Nat
                            /\ Cardinality(c[p]) \in Nat
  BY <1>1, Basics
<1> HIDE DEF c
<1>3. Size(c) <= Size(a) + Size(b)
  BY <1>2, Basics DEF Size
<1> QED BY <1>3 DEF c

(* An empty accumulator holds no boards. *)
LEMMA SizeEmpty == Size(Empty) = 0
BY FS_EmptySet, Basics DEF Size, Empty

(* The feeder tests the room for the worst batch before it lets one in.     *)
AccumBounded ==
  /\ Size(acc) <= raw /\ raw <= AccumCapacity
  /\ feeder = "process" => raw + WorstCase <= AccumCapacity

(* A writer that may take a flush has room for a full accumulator and for   *)
(* one more segment of each player.                                         *)
RoomForFlush == \A w \in Writers :
  pc[w] \notin {"stream", "write", "tally"} =>
    /\ used[w] + AccumCapacity <= BufCapacity
    /\ \A p \in Players : segs[w][p] < MaxSegs

BufferInv == TypeInv /\ AccumBounded /\ RoomForFlush /\ BufferBounds

(* The buffers start empty. *)
LEMMA BufferInit == Init => BufferInv
<1> SUFFICES ASSUME Init PROVE BufferInv
  OBVIOUS
<1>1. TypeInv
  BY TypeInit
<1>2. AccumBounded
  BY SizeEmpty, PipelineAssumption DEF Init, AccumBounded
<1>3. RoomForFlush /\ BufferBounds
  BY PipelineAssumption DEF Init, RoomForFlush, BufferBounds, PerWriter
<1> QED BY <1>1, <1>2, <1>3 DEF BufferInv

(* A batch is processed only when it fits the accumulator, or after a      *)
(* reset.                                                                  *)
LEMMA FeederBufferStep ==
  ASSUME BufferInv, Feeder
  PROVE  AccumBounded' /\ RoomForFlush' /\ BufferBounds'
<1> USE PipelineAssumption DEF BufferInv, TypeInv, TypeOK
<1>1. UNCHANGED <<pc, used, segs>>
  BY DEF Feeder, ReadBatch, EndOfInput, FlushEmpty, SubmitFlush, ResetAccumulator, Process, bufVars
<1>2. RoomForFlush' /\ BufferBounds'
  BY <1>1 DEF RoomForFlush, BufferBounds
<1>3. raw \in Nat /\ Size(acc) \in Nat /\ Size(acc') = Size(acc)'
  BY SizeType DEF FeederType, Size
<1>4. CASE ReadBatch \/ EndOfInput \/ SubmitFlush
  <2>1. UNCHANGED <<raw, acc>> /\ (feeder' = "process" => HasRoom)
    BY <1>4 DEF ReadBatch, EndOfInput, SubmitFlush
  <2> QED BY <1>2, <1>3, <2>1 DEF AccumBounded, HasRoom
<1>5. CASE FlushEmpty \/ ResetAccumulator
  <2>1. raw' = 0 /\ acc' = Empty
    BY <1>5 DEF FlushEmpty, ResetAccumulator
  <2> QED BY <1>2, <1>3, <2>1, SizeEmpty DEF AccumBounded
<1>6. ASSUME NEW kids \in Batches, Process(kids) PROVE AccumBounded'
  <2>1. Size(kids) \in Nat /\ Size(kids) <= WorstCase
    BY BatchType, SizeType
  <2>2. /\ feeder = "process" /\ feeder' = "read"
        /\ \E n \in Size(kids)..WorstCase : raw' = raw + n
        /\ acc' = [p \in Players |-> acc[p] \cup kids[p]]
    BY <1>6 DEF Process
  <2>3. Size(acc') <= Size(acc) + Size(kids)
    BY <2>2, BatchType, SizeUnion DEF FeederType
  <2>4. acc' \in [Players -> SUBSET Boards]
    BY <2>2, BatchType DEF FeederType
  <2>5. Size(acc') \in Nat
    BY <2>4, SizeType
  <2> QED BY <1>3, <2>1, <2>2, <2>3, <2>5 DEF AccumBounded
<1> QED BY <1>2, <1>4, <1>5, <1>6 DEF Feeder

(* A writer copies a flush into a buffer that has room for it, and flushes *)
(* when the next one might not fit.                                        *)
LEMMA WriterBufferStep ==
  ASSUME BufferInv, NEW w \in Writers, Writer(w)
  PROVE  AccumBounded' /\ RoomForFlush' /\ BufferBounds'
<1> USE PipelineAssumption DEF BufferInv, TypeInv, TypeOK, WriterType
<1>1. AccumBounded'
  <2>1. UNCHANGED <<raw, acc, feeder>>
    BY DEF Writer, TakeJob, CopyFlush, OpenStream, SkipStream, CloseStream, FinishFlush, EnterMerge,
           LeaveUnneeded, Snapshot, BreakMerge, NothingToMerge, StartTotalFlush, StartMerge,
           StartMergeInto, FinishMerge, feedVars
  <2> QED BY <2>1 DEF AccumBounded, Size
<1>2. CASE CopyFlush(w)
  <2>1. \A p \in Players : NewSegs(w)[p] \in Nat /\ NewSegs(w)[p] <= segs[w][p] + 1
    BY DEF NewSegs, BufferType
  <2>2. Size(acc) \in Nat /\ Size(acc) <= AccumCapacity /\ used[w] \in Nat
    BY SizeType DEF AccumBounded, FeederType, BufferType
  <2>3. /\ pc[w] = "copy"
        /\ used' = [used EXCEPT ![w] = @ + Size(acc)] /\ segs' = [segs EXCEPT ![w] = NewSegs(w)]
        /\ \A v \in Writers \ {w} : pc'[v] = pc[v]
        /\ \/ pc'[w] = "stream"
           \/ /\ ~(used[w] + Size(acc) + AccumCapacity > BufCapacity)
              /\ ~\E p \in Players : NewSegs(w)[p] >= MaxSegs
    BY <1>2 DEF CopyFlush
  <2>4. /\ used'[w] = used[w] + Size(acc) /\ segs'[w] = NewSegs(w)
        /\ \A v \in Writers \ {w} : used'[v] = used[v] /\ segs'[v] = segs[v]
    BY <2>3 DEF BufferType
  <2>5. used[w] + AccumCapacity <= BufCapacity /\ \A p \in Players : segs[w][p] < MaxSegs
    BY <2>3 DEF RoomForFlush
  <2>6. used'[w] <= BufCapacity
    BY <2>2, <2>4, <2>5
  <2>7. \A p \in Players : segs'[w][p] <= MaxSegs
    BY <2>1, <2>4, <2>5 DEF BufferType
  <2>8. pc'[w] # "stream" => /\ used'[w] + AccumCapacity <= BufCapacity
                             /\ \A p \in Players : segs'[w][p] < MaxSegs
    BY <2>1, <2>2, <2>3, <2>4
  <2>9. BufferBounds'
    BY <2>4, <2>6, <2>7 DEF BufferBounds
  <2>10. RoomForFlush'
    BY <2>3, <2>4, <2>8 DEF RoomForFlush
  <2> QED BY <1>1, <2>9, <2>10
<1>3. CASE FinishFlush(w)
  <2>1. /\ used' = [used EXCEPT ![w] = 0] /\ segs' = [segs EXCEPT ![w] = [p \in Players |-> 0]]
        /\ \A v \in Writers \ {w} : pc'[v] = pc[v]
    BY <1>3 DEF FinishFlush
  <2>2. RoomForFlush' /\ BufferBounds'
    BY <2>1 DEF RoomForFlush, BufferBounds, BufferType
  <2> QED BY <1>1, <2>2
<1>4. ASSUME UNCHANGED <<used, segs>>, \A v \in Writers \ {w} : pc'[v] = pc[v],
             pc[w] \notin {"stream", "write"} \/ pc'[w] \in {"stream", "write", "tally"},
             pc[w] # "tally"
      PROVE  RoomForFlush' /\ BufferBounds'
  BY <1>4 DEF RoomForFlush, BufferBounds
<1>5. CASE TakeJob(w) \/ OpenStream(w) \/ SkipStream(w) \/ CloseStream(w)
  BY <1>1, <1>4, <1>5 DEF TakeJob, OpenStream, SkipStream, CloseStream, NextStream, bufVars
<1>6. CASE EnterMerge(w) \/ LeaveUnneeded(w) \/ Snapshot(w) \/ BreakMerge(w) \/ NothingToMerge(w)
           \/ FinishMerge(w)
  BY <1>1, <1>4, <1>6 DEF EnterMerge, LeaveUnneeded, Snapshot, BreakMerge, NothingToMerge,
                          FinishMerge, NextMerge, Leave, bufVars
<1>7. ASSUME NEW d, NEW inputs, StartMergeInto(w, d, inputs) PROVE RoomForFlush' /\ BufferBounds'
  BY <1>4, <1>7 DEF StartMergeInto, bufVars
<1> QED BY <1>1, <1>2, <1>3, <1>5, <1>6, <1>7 DEF Writer, StartMerge, StartTotalFlush

(* Nobody else touches the buffers; the main thread sends an idle writer's  *)
(* buffer to disk.                                                          *)
LEMMA OtherBufferStep ==
  ASSUME BufferInv, Main \/ (\E p \in Players : PlayerThread(p)) \/ Interrupt \/ UNCHANGED vars
  PROVE  AccumBounded' /\ RoomForFlush' /\ BufferBounds'
<1> USE DEF BufferInv, TypeInv, TypeOK, WriterType
<1>1. UNCHANGED <<raw, acc, feeder, used, segs>>
  BY DEF Main, FeederIdle, PoolIdle, FlushDone, Publish, FlushNext, PlayerThread, EolNothing,
         StartEol, FinishEol, Interrupt, vars, feedVars, bufVars
<1>2. \A w \in Writers : pc'[w] \in {pc[w], "stream"}
  BY DEF Main, FeederIdle, PoolIdle, FlushDone, Publish, FlushNext, PlayerThread, EolNothing,
         StartEol, FinishEol, Interrupt, vars
<1>3. AccumBounded'
  BY <1>1 DEF AccumBounded, Size
<1>4. RoomForFlush' /\ BufferBounds'
  BY <1>1, <1>2 DEF RoomForFlush, BufferBounds
<1> QED BY <1>3, <1>4

(* The two stacks of a merge-writer buffer never meet and its segment       *)
(* arrays never overflow, whatever the batches and however the writers are  *)
(* scheduled, as long as one batch fits the accumulator and the accumulator *)
(* fits the buffer.                                                         *)
THEOREM BuffersBounded == Spec => []BufferBounds
<1>1. ASSUME BufferInv, [Next]_vars PROVE BufferInv'
  <2>1. TypeInv'
    BY <1>1, TypeStep, LockStep DEF BufferInv, TypeInv
  <2>2. AccumBounded' /\ RoomForFlush' /\ BufferBounds'
    BY <1>1, FeederBufferStep, WriterBufferStep, OtherBufferStep DEF Next, Over
  <2> QED BY <2>1, <2>2 DEF BufferInv
<1>2. BufferInv /\ [Next]_vars => BufferInv'
  BY <1>1
<1>3. BufferInv => BufferBounds
  BY DEF BufferInv
<1> QED BY <1>2, <1>3, BufferInit, PTL DEF Spec

(* The names under which the steps create files are fresh.                 *)
LEMMA WriterFileFresh ==
  ASSUME FileInv, NEW w \in Writers
  PROVE  /\ WriterFile(w).dir = w /\ WriterFile(w).player = side[w]
         /\ ~Closed(WriterFile(w))
         /\ pc[w] = "stream" => WriterFile(w) \notin DOMAIN disk
<1> USE DEF FileInv, TypeInv, TypeOK, WriterType
<1>1. /\ WriterFile(w).dir = w /\ WriterFile(w).player = side[w]
      /\ WriterFile(w).idx = fileCount[w][side[w]] /\ fileCount[w][side[w]] \in Nat
  BY NameType DEF WriterFile, CountType
<1>2. ~Closed(WriterFile(w))
  BY <1>1 DEF WriterFiles, Closed
<1>3. pc[w] = "stream" => WriterFile(w) \notin DOMAIN disk
  BY <1>1 DEF WriterFiles
<1> QED BY <1>1, <1>2, <1>3

(* The output of an intermediate merge takes a name no file has: the       *)
(* counter of its directory is beyond all its files.                       *)
LEMMA MergeOutFresh ==
  ASSUME FileInv, NEW d \in OutDirs, NEW p \in Players
  PROVE  FileName(d, p, outCount[d][p]) \notin DOMAIN disk
<1>1. outCount[d][p] \in Nat
  BY DEF FileInv, TypeInv, TypeOK, CountType
<1> QED BY <1>1, NameType DEF FileInv, OutputFiles

(* The end-of-level merge creates a file that does not exist yet. *)
LEMMA StoreFileFresh ==
  ASSUME FileInv, NEW p \in Players
  PROVE  /\ StoreFile(p).player = p /\ StoreFile(p).dir = StoreDir
         /\ eol[p] = "start" => StoreFile(p) \notin DOMAIN disk
         /\ eol[p] = "merging" => ~Closed(StoreFile(p))
<1>1. StoreFile(p).player = p /\ StoreFile(p).dir = StoreDir
  BY NameType DEF StoreFile
<1> QED BY <1>1 DEF FileInv, StoreFiles, Closed

(* No step writes a complete file.                                         *)
LEMMA ClosedKept ==
  ASSUME FileInv, [Next]_vars
  PROVE  \A n \in DOMAIN disk \cap DOMAIN disk' : disk[n].closed => disk'[n] = disk[n]
<1> DEFINE Same == \A n \in DOMAIN disk \cap DOMAIN disk' : disk[n].closed => disk'[n] = disk[n]
<1> USE Basics DEF FileInv, TypeInv, TypeOK, WriterType
<1>1. ASSUME UNCHANGED disk PROVE Same
  BY <1>1
<1>2. ASSUME NEW n, NEW boards, NEW closed, NEW names, ~Closed(n),
             disk' \in {Put(n, boards, closed), Delete(disk, {n}), Delete(Put(n, boards, closed), names)}
      PROVE  Same
  BY <1>2 DEF Put, Delete, Restrict, Closed
<1>3. CASE Feeder
  BY <1>1, <1>3 DEF Feeder, ReadBatch, EndOfInput, FlushEmpty, SubmitFlush, ResetAccumulator, Process
<1>4. ASSUME NEW w \in Writers, Writer(w) PROVE Same
  <2>1. ASSUME NEW d \in OutDirs, NEW inputs, StartMergeInto(w, d, inputs) PROVE Same
    <3>1. ~Closed(FileName(d, side[w], outCount[d][side[w]]))
      BY MergeOutFresh DEF Closed
    <3> QED BY <1>2, <2>1, <3>1 DEF StartMergeInto
  <2>2. CASE OpenStream(w) \/ CloseStream(w)
    <3>1. ~Closed(WriterFile(w))
      BY WriterFileFresh
    <3>2. \E boards, closed :
            disk' \in {Put(WriterFile(w), boards, closed), Delete(disk, {WriterFile(w)})}
      BY <2>2 DEF OpenStream, CloseStream
    <3> QED BY <1>2, <3>1, <3>2
  <2>3. CASE FinishMerge(w)
    <3>1. ~Closed(mergeOut)
      BY <2>3 DEF FinishMerge, MergeUnderWay, Closed
    <3>2. PICK out : disk' = Delete(Put(mergeOut, out, TRUE), mergeIn)
      BY <2>3 DEF FinishMerge
    <3> QED BY <1>2, <3>1, <3>2
  <2>4. CASE TakeJob(w) \/ CopyFlush(w) \/ SkipStream(w) \/ FinishFlush(w) \/ EnterMerge(w)
             \/ LeaveUnneeded(w) \/ Snapshot(w) \/ BreakMerge(w) \/ NothingToMerge(w)
    BY <1>1, <2>4 DEF TakeJob, CopyFlush, SkipStream, FinishFlush, EnterMerge, LeaveUnneeded,
                      Snapshot, BreakMerge, NothingToMerge
  <2> QED BY <1>4, <2>1, <2>2, <2>3, <2>4 DEF Writer, StartMerge, StartTotalFlush
<1>5. CASE Main
  BY <1>1, <1>5 DEF Main, FeederIdle, PoolIdle, FlushDone, Publish, FlushNext
<1>6. ASSUME NEW p \in Players, PlayerThread(p) PROVE Same
  <2>1. eol[p] = "start" => ~Closed(StoreFile(p))
    BY StoreFileFresh DEF Closed
  <2>2. CASE EolNothing(p)
    BY <1>1, <2>2 DEF EolNothing
  <2>3. CASE StartEol(p)
    BY <1>2, <2>1, <2>3 DEF StartEol
  <2>4. CASE FinishEol(p)
    <3>1. PICK out : disk' = Delete(Put(StoreFile(p), out, TRUE), eolIn[p])
      BY <2>4 DEF FinishEol
    <3>2. ~Closed(StoreFile(p))
      BY <2>4, StoreFileFresh DEF FinishEol
    <3> QED BY <1>2, <3>1, <3>2
  <2> QED BY <1>6, <2>2, <2>3, <2>4 DEF PlayerThread
<1>7. CASE Interrupt \/ Over \/ UNCHANGED vars
  BY <1>1, <1>7 DEF Interrupt, Over, vars
<1> QED BY <1>3, <1>4, <1>5, <1>6, <1>7 DEF Next

(* A file whose trailer is on disk is never opened for writing again, with  *)
(* any number of writers and although counters restart and indices are      *)
(* used twice.                                                              *)
THEOREM Immutable == Spec => ClosedFilesImmutable
<1>1. FileInv /\ [Next]_vars =>
        [\A n \in DOMAIN disk \cap DOMAIN disk' : disk[n].closed => disk'[n] = disk[n]]_vars
  BY ClosedKept
<1> QED BY <1>1, FilesCorrect, PTL DEF Spec, ClosedFilesImmutable

----------------------------------------------------------------------------
(* Where the boards are. That no board is lost is not inductive either: a   *)
(* buffer may be given up because its boards are in complete files, and the *)
(* accumulator because they are in a buffer or already beyond it.           *)

(* Where a board of player p can be once it has left the accumulator.       *)
Kept(p) == Held(p) \cup OnDisk(p)

AccCopied == feeder = "wait" /\ copied => \A p \in Players : acc[p] \subseteq Kept(p)

(* Black goes to disk first: it is there while white is written, and both   *)
(* are when the segments are forgotten.                                     *)
Streamed == \A w \in Writers :
  /\ pc[w] \in {"stream", "write"} /\ side[w] = White => held[w][Black] \subseteq OnDisk(Black)
  /\ pc[w] = "tally" => \A p \in Players : held[w][p] \subseteq OnDisk(p)

SegsHold == \A w \in Writers, p \in Players : segs[w][p] = 0 => held[w][p] = {}

SideRests == \A w \in Writers : pc[w] \in {"idle", "copy"} => side[w] = Black

BoardInv ==
  /\ FileInv /\ SegsHold /\ SideRests
  /\ NothingLost
  /\ ~terminate => AccCopied /\ Streamed

(* Before the first batch there is no board to lose. *)
LEMMA BoardInit == Init => BoardInv
<1> SUFFICES ASSUME Init PROVE BoardInv
  OBVIOUS
<1>1. FileInv
  BY FileInit
<1>2. SegsHold /\ SideRests
  BY DEF Init, SegsHold, SideRests, PerWriter
<1>3. \A p \in Players : acc[p] = {} /\ generated[p] = {} /\ Held(p) = {} /\ OnDisk(p) = {}
  BY DEF Init, Empty, PerWriter, Held, OnDisk
<1>4. NothingLost
  BY <1>3 DEF NothingLost
<1>5. AccCopied /\ Streamed
  BY Basics DEF Init, AccCopied, Streamed
<1> QED BY <1>1, <1>2, <1>4, <1>5 DEF BoardInv

(* A board of player p is on disk when some complete file of p holds it.    *)
LEMMA OnDiskMember ==
  \A p, b : b \in OnDisk(p) <=>
              \E n \in DOMAIN disk : n.player = p /\ Closed(n) /\ b \in disk[n].boards
BY DEF OnDisk

(* Creating a file that is still open moves no board.                       *)
LEMMA OpenKeeps ==
  ASSUME NEW n, n \notin DOMAIN disk, disk' = Put(n, {}, FALSE), NEW p
  PROVE  OnDisk(p)' = OnDisk(p)
<1>1. \A m : Closed(m)' <=> Closed(m)
  BY DEF Put, Closed
<1>2. \A m : Closed(m) => disk'[m] = disk[m]
  BY DEF Put, Closed
<1>3. \A m \in DOMAIN disk' : Closed(m)' => m \in DOMAIN disk
  BY <1>1 DEF Closed
<1>4. \A m \in DOMAIN disk : Closed(m) => m \in DOMAIN disk'
  BY <1>1 DEF Closed
<1>5. {disk'[m].boards : m \in {k \in DOMAIN disk' : k.player = p /\ Closed(k)'}}
        = {disk[m].boards : m \in {k \in DOMAIN disk : k.player = p /\ Closed(k)}}
  BY <1>1, <1>2, <1>3, <1>4
<1> QED BY <1>5 DEF OnDisk

(* An uninterrupted merge moves the boards of its inputs to its output.     *)
LEMMA MergeKeeps ==
  ASSUME NEW out, NEW ins, ~Closed(out),
         \A n \in ins : Closed(n) /\ n.player = out.player,
         disk' = Delete(Put(out, Merged(ins), TRUE), ins), NEW p
  PROVE  OnDisk(p)' = OnDisk(p)
<1>1. out \notin ins
  OBVIOUS
<1>2. /\ DOMAIN disk' = (DOMAIN disk \cup {out}) \ ins
      /\ out \in DOMAIN disk'
      /\ disk'[out].boards = Merged(ins) /\ disk'[out].closed
      /\ \A n \in DOMAIN disk' : n # out => disk'[n] = disk[n]
  BY <1>1 DEF Put, Delete, Restrict
<1>3. \A b : b \in Merged(ins) <=> \E n \in ins : b \in disk[n].boards
  BY DEF Merged
<1>4. \A b : b \in OnDisk(p)' <=> b \in OnDisk(p)
  <2>1. ASSUME NEW b \in OnDisk(p)' PROVE b \in OnDisk(p)
    <3>1. PICK n \in DOMAIN disk' : n.player = p /\ Closed(n)' /\ b \in disk'[n].boards
      BY DEF OnDisk
    <3>2. CASE n = out
      <4>1. PICK m \in ins : b \in disk[m].boards
        BY <1>2, <1>3, <3>1, <3>2
      <4>2. m \in DOMAIN disk /\ Closed(m) /\ m.player = p
        BY <3>1, <3>2, <4>1 DEF Closed
      <4> QED BY <4>1, <4>2, OnDiskMember
    <3>3. CASE n # out
      <4>1. n \in DOMAIN disk /\ Closed(n) /\ b \in disk[n].boards
        BY <1>2, <3>1, <3>3 DEF Closed
      <4> QED BY <3>1, <4>1, OnDiskMember
    <3> QED BY <3>2, <3>3
  <2>2. ASSUME NEW b \in OnDisk(p) PROVE b \in OnDisk(p)'
    <3>1. PICK n \in DOMAIN disk : n.player = p /\ Closed(n) /\ b \in disk[n].boards
      BY OnDiskMember
    <3>2. CASE n \in ins
      <4>1. out \in DOMAIN disk' /\ out.player = p /\ Closed(out)' /\ b \in disk'[out].boards
        BY <1>2, <1>3, <3>1, <3>2 DEF Closed
      <4> QED BY <4>1 DEF OnDisk
    <3>3. CASE n \notin ins
      <4>1. n \in DOMAIN disk' /\ n # out /\ Closed(n)' /\ b \in disk'[n].boards
        BY <1>2, <3>1, <3>3 DEF Closed
      <4> QED BY <3>1, <4>1 DEF OnDisk
    <3> QED BY <3>2, <3>3
  <2> QED BY <2>1, <2>2
<1> QED BY <1>4

(* Closing a file adds its boards.                                          *)
LEMMA CloseAdds ==
  ASSUME NEW n, ~Closed(n), NEW boards,
         IF boards = {} THEN disk' = Delete(disk, {n}) ELSE disk' = Put(n, boards, TRUE)
  PROVE  /\ OnDisk(n.player)' = OnDisk(n.player) \cup boards
         /\ \A p : p # n.player => OnDisk(p)' = OnDisk(p)
<1>1. /\ \A m : m # n => (Closed(m)' <=> Closed(m)) /\ (Closed(m) => disk'[m] = disk[m])
      /\ Closed(n)' => boards # {} /\ disk'[n].boards = boards
      /\ boards # {} => Closed(n)' /\ n \in DOMAIN disk'
  BY DEF Put, Delete, Restrict, Closed
<1>2. ASSUME NEW p PROVE \A b : b \in OnDisk(p)' <=> b \in OnDisk(p) \/ (p = n.player /\ b \in boards)
  <2>1. ASSUME NEW b \in OnDisk(p)' PROVE b \in OnDisk(p) \/ (p = n.player /\ b \in boards)
    <3>1. PICK m \in DOMAIN disk' : m.player = p /\ Closed(m)' /\ b \in disk'[m].boards
      BY DEF OnDisk
    <3>2. CASE m = n
      BY <1>1, <3>1, <3>2
    <3>3. CASE m # n
      <4>1. m \in DOMAIN disk /\ Closed(m) /\ b \in disk[m].boards
        BY <1>1, <3>1, <3>3 DEF Closed
      <4> QED BY <3>1, <4>1, OnDiskMember
    <3> QED BY <3>2, <3>3
  <2>2. ASSUME NEW b \in OnDisk(p) PROVE b \in OnDisk(p)'
    <3>1. PICK m \in DOMAIN disk : m.player = p /\ Closed(m) /\ b \in disk[m].boards
      BY OnDiskMember
    <3>2. m \in DOMAIN disk' /\ Closed(m)' /\ b \in disk'[m].boards
      BY <1>1, <3>1 DEF Closed
    <3> QED BY <3>1, <3>2 DEF OnDisk
  <2>3. ASSUME p = n.player, NEW b \in boards PROVE b \in OnDisk(p)'
    BY <1>1, <2>3 DEF OnDisk
  <2> QED BY <2>1, <2>2, <2>3
<1>3. \A b : b \in OnDisk(n.player)' <=> b \in OnDisk(n.player) \/ b \in boards
  BY <1>2
<1>4. ASSUME NEW p, p # n.player PROVE OnDisk(p)' = OnDisk(p)
  <2>1. \A b : b \in OnDisk(p)' <=> b \in OnDisk(p)
    BY <1>2, <1>4
  <2> QED BY <2>1
<1> QED BY <1>3, <1>4

(* The feeder gives up the accumulator only after the copy.                 *)
LEMMA FeederBoardStep ==
  ASSUME BoardInv, Feeder
  PROVE  /\ SegsHold' /\ SideRests' /\ NothingLost'
         /\ ~terminate' => AccCopied' /\ Streamed'
<1>1. UNCHANGED <<held, segs, disk, pc, side, terminate>>
  BY DEF Feeder, ReadBatch, EndOfInput, FlushEmpty, SubmitFlush, ResetAccumulator, Process, bufVars
<1>2. \A p : Held(p)' = Held(p) /\ OnDisk(p)' = OnDisk(p)
  BY <1>1 DEF Held, OnDisk, Closed
<1>3. SegsHold' /\ SideRests'
  BY <1>1 DEF BoardInv, SegsHold, SideRests
<1>4. ~terminate' => Streamed'
  BY <1>1, <1>2, Basics DEF BoardInv, Streamed
<1>5. NothingLost' /\ AccCopied'
  <2>1. CASE ReadBatch \/ EndOfInput \/ FlushEmpty \/ SubmitFlush
    <3>1. UNCHANGED <<acc, generated>> /\ (feeder' # "wait" \/ ~copied')
      BY <2>1 DEF ReadBatch, EndOfInput, FlushEmpty, SubmitFlush, AfterFlush
    <3> QED BY <1>1, <1>2, <3>1 DEF BoardInv, NothingLost, AccCopied
  <2>2. CASE ResetAccumulator
    <3>1. /\ feeder = "wait" /\ copied /\ feeder' # "wait"
          /\ UNCHANGED generated /\ \A p \in Players : acc'[p] = {}
      BY <2>2 DEF ResetAccumulator, AfterFlush, Empty
    <3>2. ~terminate => \A p \in Players : acc[p] \subseteq Kept(p)
      BY <3>1 DEF BoardInv, AccCopied
    <3> QED BY <1>1, <1>2, <3>1, <3>2 DEF BoardInv, NothingLost, AccCopied, Kept
  <2>3. ASSUME NEW kids \in Batches, Process(kids) PROVE NothingLost' /\ AccCopied'
    <3>1. /\ feeder' = "read"
          /\ \A p \in Players : /\ acc'[p] = acc[p] \cup kids[p]
                                /\ generated'[p] = generated[p] \cup kids[p]
      BY <2>3 DEF Process
    <3> QED BY <1>1, <1>2, <3>1 DEF BoardInv, NothingLost, AccCopied
  <2> QED BY <2>1, <2>2, <2>3 DEF Feeder
<1> QED BY <1>3, <1>4, <1>5

(* Steps that leave every board where it is, of a writer that neither       *)
(* begins to stream white nor ends a flush.                                 *)
LEMMA UnmovedKept ==
  ASSUME BoardInv, NEW w \in Writers,
         UNCHANGED <<held, segs, acc, generated, feeder, copied, terminate>>,
         \A p \in Players : OnDisk(p)' = OnDisk(p),
         \A v \in Writers \ {w} : pc'[v] = pc[v] /\ side'[v] = side[v],
         pc'[w] \in {"stream", "write"} /\ side'[w] = White
            => pc[w] \in {"stream", "write"} /\ side[w] = White,
         pc'[w] # "tally",
         pc'[w] \in {"idle", "copy"} => side'[w] = Black
  PROVE  /\ SegsHold' /\ SideRests' /\ NothingLost'
         /\ ~terminate' => AccCopied' /\ Streamed'
<1>1. \A p : Held(p)' = Held(p)
  BY DEF Held
<1>2. SegsHold' /\ SideRests'
  BY DEF BoardInv, SegsHold, SideRests
<1>3. NothingLost'
  BY <1>1 DEF BoardInv, NothingLost
<1>4. ~terminate' => AccCopied'
  BY <1>1 DEF BoardInv, AccCopied, Kept
<1>5. ~terminate' => Streamed'
  BY Basics DEF BoardInv, Streamed
<1> QED BY <1>2, <1>3, <1>4, <1>5

(* The flush of the GPU reaches the buffer.                                 *)
LEMMA CopyBoardStep ==
  ASSUME BoardInv, NEW w \in Writers, CopyFlush(w)
  PROVE  /\ SegsHold' /\ SideRests' /\ NothingLost'
         /\ ~terminate' => AccCopied' /\ Streamed'
<1> USE Basics DEF FileInv, TypeInv, TypeOK, WriterType
<1>1. /\ UNCHANGED <<disk, acc, generated, feeder, terminate>>
      /\ pc[w] = "copy"
      /\ held' = [held EXCEPT ![w] = [p \in Players |-> @[p] \cup acc[p]]]
      /\ segs' = [segs EXCEPT ![w] = NewSegs(w)]
      /\ \A v \in Writers \ {w} : pc'[v] = pc[v] /\ side'[v] = side[v]
      /\ pc'[w] \in {"stream", "idle"} /\ side'[w] = Black
  BY DEF CopyFlush, BoardInv, SideRests, feedVars
<1>2. /\ \A v \in Writers, p \in Players : v # w => held'[v][p] = held[v][p]
      /\ \A p \in Players : held'[w][p] = held[w][p] \cup acc[p]
  BY <1>1 DEF BoardInv, BufferType
<1>3. \A p \in Players : Held(p)' = Held(p) \cup acc[p] /\ OnDisk(p)' = OnDisk(p)
  BY <1>1, <1>2 DEF Held, OnDisk, Closed
<1>4. SegsHold'
  <2>1. ASSUME NEW p \in Players, segs'[w][p] = 0 PROVE held'[w][p] = {}
    <3>1. segs[w][p] \in Nat /\ segs'[w][p] = IF acc[p] = {} THEN segs[w][p] ELSE segs[w][p] + 1
      BY <1>1 DEF BoardInv, BufferType, NewSegs
    <3>2. acc[p] = {} /\ segs[w][p] = 0
      BY <2>1, <3>1
    <3> QED BY <1>2, <3>2 DEF BoardInv, SegsHold
  <2>2. \A v \in Writers, p \in Players : v # w => segs'[v][p] = segs[v][p]
    BY <1>1 DEF BoardInv, BufferType
  <2> QED BY <1>2, <2>1, <2>2 DEF BoardInv, SegsHold
<1>5. SideRests'
  BY <1>1 DEF BoardInv, SideRests
<1>6. NothingLost' /\ AccCopied'
  BY <1>1, <1>3 DEF BoardInv, NothingLost, AccCopied, Kept
<1>7. ~terminate' => Streamed'
  BY <1>1, <1>2, <1>3 DEF BoardInv, Streamed
<1> QED BY <1>4, <1>5, <1>6, <1>7

(* Nothing to write for this player: the segments say so.                   *)
LEMMA SkipBoardStep ==
  ASSUME BoardInv, NEW w \in Writers, SkipStream(w)
  PROVE  /\ SegsHold' /\ SideRests' /\ NothingLost'
         /\ ~terminate' => AccCopied' /\ Streamed'
<1> USE Basics DEF FileInv, TypeInv, TypeOK, WriterType
<1>1. /\ UNCHANGED <<disk, held, segs, acc, generated, feeder, copied, terminate>>
      /\ pc[w] = "stream" /\ segs[w][side[w]] = 0
      /\ \A v \in Writers \ {w} : pc'[v] = pc[v] /\ side'[v] = side[v]
      /\ IF side[w] = Black THEN pc'[w] = "stream" /\ side'[w] = White
                            ELSE pc'[w] = "tally"
  BY DEF SkipStream, NextStream, BoardInv, bufVars, feedVars
<1>2. \A p : Held(p)' = Held(p) /\ OnDisk(p)' = OnDisk(p)
  BY <1>1 DEF Held, OnDisk, Closed
<1>3. held[w][side[w]] = {}
  BY <1>1 DEF BoardInv, SegsHold
<1>4. SegsHold' /\ SideRests'
  BY <1>1 DEF BoardInv, SegsHold, SideRests
<1>5. NothingLost' /\ (~terminate' => AccCopied')
  BY <1>1, <1>2 DEF BoardInv, NothingLost, AccCopied, Kept
<1>6. ~terminate' => Streamed'
  BY <1>1, <1>2, <1>3 DEF BoardInv, Streamed
<1> QED BY <1>4, <1>5, <1>6

(* A stream that was not interrupted leaves all its boards in the file.     *)
LEMMA CloseBoardStep ==
  ASSUME BoardInv, NEW w \in Writers, CloseStream(w)
  PROVE  /\ SegsHold' /\ SideRests' /\ NothingLost'
         /\ ~terminate' => AccCopied' /\ Streamed'
<1> USE Basics DEF FileInv, TypeInv, TypeOK, WriterType
<1>1. /\ UNCHANGED <<held, segs, acc, generated, feeder, copied, terminate>>
      /\ pc[w] = "write"
      /\ \A v \in Writers \ {w} : pc'[v] = pc[v] /\ side'[v] = side[v]
      /\ IF side[w] = Black THEN pc'[w] = "stream" /\ side'[w] = White
                            ELSE pc'[w] = "tally"
  BY DEF CloseStream, NextStream, BoardInv, bufVars, feedVars
<1>2. SegsHold' /\ SideRests'
  BY <1>1 DEF BoardInv, SegsHold, SideRests
<1>3. \A p : Held(p)' = Held(p)
  BY <1>1 DEF Held
<1>4. ASSUME ~terminate
      PROVE  \A p : /\ p = side[w] => OnDisk(p)' = OnDisk(p) \cup held[w][p]
                    /\ p # side[w] => OnDisk(p)' = OnDisk(p)
  <2>1. ~Closed(WriterFile(w)) /\ WriterFile(w).player = side[w]
    BY WriterFileFresh DEF BoardInv
  <2>2. IF held[w][side[w]] = {} THEN disk' = Delete(disk, {WriterFile(w)})
                                 ELSE disk' = Put(WriterFile(w), held[w][side[w]], TRUE)
    BY <1>4 DEF CloseStream, Written
  <2>3. PICK n, boards, q : n = WriterFile(w) /\ boards = held[w][side[w]] /\ q = side[w]
    OBVIOUS
  <2>4. /\ OnDisk(n.player)' = OnDisk(n.player) \cup boards
        /\ \A p : p # n.player => OnDisk(p)' = OnDisk(p)
    BY <2>1, <2>2, <2>3, CloseAdds
  <2>5. OnDisk(q)' = OnDisk(q) \cup boards /\ \A p : p # q => OnDisk(p)' = OnDisk(p)
    BY <2>1, <2>3, <2>4
  <2> QED BY <2>3, <2>5
<1>5. ~terminate => \A p \in Players : /\ OnDisk(p) \subseteq OnDisk(p)'
                                       /\ OnDisk(p)' \subseteq OnDisk(p) \cup Held(p)
  <2>1. \A p \in Players : held[w][p] \subseteq Held(p)
    BY DEF Held
  <2> QED BY <1>4, <2>1
<1>6. NothingLost'
  BY <1>1, <1>3, <1>5 DEF BoardInv, NothingLost
<1>7. ~terminate' => AccCopied'
  BY <1>1, <1>3, <1>5 DEF BoardInv, AccCopied, Kept
<1>8. ~terminate' => Streamed'
  <2> SUFFICES ASSUME ~terminate PROVE Streamed'
    BY <1>1
  <2>1. \A v \in Writers \ {w} :
          /\ pc'[v] \in {"stream", "write"} /\ side'[v] = White => held'[v][Black] \subseteq OnDisk(Black)'
          /\ pc'[v] = "tally" => \A p \in Players : held'[v][p] \subseteq OnDisk(p)'
    BY <1>1, <1>5 DEF BoardInv, Streamed
  <2>2. \A p \in Players : p = side[w] => held[w][p] \subseteq OnDisk(p)'
    BY <1>4
  <2>3. side[w] = White => held[w][Black] \subseteq OnDisk(Black)'
    BY <1>1, <1>5 DEF BoardInv, Streamed
  <2>4. side[w] \in Players
    BY DEF BoardInv
  <2> QED BY <1>1, <2>1, <2>2, <2>3, <2>4 DEF Streamed
<1> QED BY <1>2, <1>6, <1>7, <1>8

(* The segments are forgotten once both players' boards are on disk.        *)
LEMMA FinishFlushBoardStep ==
  ASSUME BoardInv, NEW w \in Writers, FinishFlush(w)
  PROVE  /\ SegsHold' /\ SideRests' /\ NothingLost'
         /\ ~terminate' => AccCopied' /\ Streamed'
<1> USE Basics DEF FileInv, TypeInv, TypeOK, WriterType
<1>1. /\ UNCHANGED <<disk, acc, generated, feeder, copied, terminate>>
      /\ pc[w] = "tally" /\ pc'[w] \in {"enter", "idle"} /\ side'[w] = Black
      /\ held' = [held EXCEPT ![w] = Empty]
      /\ segs' = [segs EXCEPT ![w] = [p \in Players |-> 0]]
      /\ \A v \in Writers \ {w} : pc'[v] = pc[v] /\ side'[v] = side[v]
  BY DEF FinishFlush, BoardInv, feedVars
<1>2. /\ \A v \in Writers, p \in Players : v # w => held'[v][p] = held[v][p] /\ segs'[v][p] = segs[v][p]
      /\ \A p \in Players : held'[w][p] = {}
  BY <1>1 DEF BoardInv, BufferType, Empty
<1>3. \A p : OnDisk(p)' = OnDisk(p)
  BY <1>1 DEF OnDisk, Closed
<1>4. SegsHold' /\ SideRests'
  BY <1>1, <1>2 DEF BoardInv, SegsHold, SideRests
<1>5. ~terminate => \A p \in Players : Kept(p)' = Kept(p)
  <2>1. ASSUME ~terminate, NEW p \in Players PROVE Kept(p)' = Kept(p)
    <3>1. held[w][p] \subseteq OnDisk(p)
      BY <1>1, <2>1 DEF BoardInv, Streamed
    <3>2. Held(p)' \subseteq Held(p) /\ Held(p) \subseteq Held(p)' \cup held[w][p]
      BY <1>2 DEF Held
    <3> QED BY <1>3, <3>1, <3>2 DEF Kept
  <2> QED BY <2>1
<1>6. NothingLost' /\ (~terminate' => AccCopied')
  BY <1>1, <1>5 DEF BoardInv, NothingLost, AccCopied, Kept
<1>7. ~terminate' => Streamed'
  BY <1>1, <1>2, <1>3 DEF BoardInv, Streamed
<1> QED BY <1>4, <1>6, <1>7

(* Starting a merge creates a file without boards; finishing it moves the   *)
(* boards of its inputs.                                                    *)
LEMMA StartMergeBoardStep ==
  ASSUME BoardInv, NEW w \in Writers, NEW d \in OutDirs, NEW inputs, StartMergeInto(w, d, inputs)
  PROVE  /\ SegsHold' /\ SideRests' /\ NothingLost'
         /\ ~terminate' => AccCopied' /\ Streamed'
<1>1. PICK out : out = FileName(d, side[w], outCount[d][side[w]])
  OBVIOUS
<1>2. out \notin DOMAIN disk
  BY <1>1, MergeOutFresh DEF BoardInv, FileInv, TypeInv, TypeOK, WriterType
<1>3. disk' = Put(out, {}, FALSE)
  BY <1>1 DEF StartMergeInto
<1>4. \A p \in Players : OnDisk(p)' = OnDisk(p)
  BY <1>2, <1>3, OpenKeeps
<1>5. /\ UNCHANGED <<held, segs, acc, generated, feeder, copied, terminate, side>>
      /\ pc' = [pc EXCEPT ![w] = "merge"]
  BY DEF StartMergeInto, bufVars, feedVars
<1> QED BY <1>4, <1>5, UnmovedKept DEF BoardInv, FileInv, TypeInv, TypeOK, WriterType

(* The inputs of a merge are deleted when the output holds their boards. *)
LEMMA FinishMergeBoardStep ==
  ASSUME BoardInv, NEW w \in Writers, FinishMerge(w)
  PROVE  /\ SegsHold' /\ SideRests' /\ NothingLost'
         /\ ~terminate' => AccCopied' /\ Streamed'
<1> USE DEF FileInv, TypeInv, TypeOK, WriterType
<1>1. /\ UNCHANGED <<held, segs, acc, generated, feeder, copied, terminate>>
      /\ pc[w] = "merge"
      /\ \A v \in Writers \ {w} : pc'[v] = pc[v] /\ side'[v] = side[v]
      /\ pc'[w] \in {"gather", "idle"} /\ side'[w] = Black
  BY Basics DEF FinishMerge, NextMerge, Leave, BoardInv, bufVars, feedVars
<1>2. ~terminate => \A p \in Players : OnDisk(p)' = OnDisk(p)
  <2> SUFFICES ASSUME ~terminate PROVE \A p \in Players : OnDisk(p)' = OnDisk(p)
    OBVIOUS
  <2>1. PICK out, ins : out = mergeOut /\ ins = mergeIn
    OBVIOUS
  <2>2. /\ out \in DOMAIN disk /\ ~Closed(out)
        /\ \A n \in ins : Closed(n) /\ n.player = out.player
    BY <1>1, <2>1 DEF BoardInv, MergeUnderWay, MergeLock, Closed
  <2>3. disk' = Delete(Put(out, Merged(ins), TRUE), ins)
    BY <2>1 DEF FinishMerge, Written
  <2> QED BY <2>2, <2>3, MergeKeeps
<1>3. CASE terminate
  BY <1>1, <1>3 DEF BoardInv, NothingLost, SegsHold, SideRests
<1>4. CASE ~terminate
  BY <1>1, <1>2, <1>4, UnmovedKept, Basics
<1> QED BY <1>3, <1>4

(* The other steps of a writer: no board moves.                             *)
LEMMA OpenBoardStep ==
  ASSUME BoardInv, NEW w \in Writers, OpenStream(w)
  PROVE  /\ SegsHold' /\ SideRests' /\ NothingLost'
         /\ ~terminate' => AccCopied' /\ Streamed'
<1>1. PICK n : n = WriterFile(w)
  OBVIOUS
<1>2. n \notin DOMAIN disk /\ disk' = Put(n, {}, FALSE)
  BY <1>1, WriterFileFresh DEF BoardInv, OpenStream
<1>3. \A p \in Players : OnDisk(p)' = OnDisk(p)
  BY <1>2, OpenKeeps
<1>4. /\ UNCHANGED <<held, segs, acc, generated, feeder, copied, terminate, side>>
      /\ pc[w] = "stream" /\ pc' = [pc EXCEPT ![w] = "write"]
  BY DEF OpenStream, bufVars, feedVars
<1> QED BY <1>3, <1>4, UnmovedKept DEF BoardInv, FileInv, TypeInv, TypeOK, WriterType

(* The steps of a writer that only move control: no board moves. *)
LEMMA OtherWriterBoardStep ==
  ASSUME BoardInv, NEW w \in Writers,
         \/ TakeJob(w) \/ EnterMerge(w) \/ LeaveUnneeded(w)
         \/ Snapshot(w) \/ BreakMerge(w) \/ NothingToMerge(w)
  PROVE  /\ SegsHold' /\ SideRests' /\ NothingLost'
         /\ ~terminate' => AccCopied' /\ Streamed'
<1>1. UNCHANGED <<held, segs, acc, generated, feeder, copied, terminate, disk>>
  BY DEF TakeJob, EnterMerge, LeaveUnneeded, Snapshot, BreakMerge, NothingToMerge, bufVars, feedVars
<1>2. \A p \in Players : OnDisk(p)' = OnDisk(p)
  BY <1>1 DEF OnDisk, Closed
<1>3. /\ \A v \in Writers \ {w} : pc'[v] = pc[v] /\ side'[v] = side[v]
      /\ pc'[w] \in {"idle", "copy", "recheck", "gather"}
      /\ pc'[w] \in {"idle", "copy"} => side'[w] = Black
  BY Basics DEF BoardInv, SideRests, FileInv, TypeInv, TypeOK, WriterType, TakeJob, EnterMerge,
                LeaveUnneeded, Snapshot, BreakMerge, NothingToMerge, NextMerge, Leave
<1> QED BY <1>1, <1>2, <1>3, UnmovedKept

(* Every step of a merge writer keeps every board somewhere. *)
LEMMA WriterBoardStep ==
  ASSUME BoardInv, NEW w \in Writers, Writer(w)
  PROVE  /\ SegsHold' /\ SideRests' /\ NothingLost'
         /\ ~terminate' => AccCopied' /\ Streamed'
<1>1. CASE StartTotalFlush(w) \/ \E d \in MergeDirs : StartMerge(w, d)
  <2>1. TypeInv
    BY DEF BoardInv, FileInv
  <2>2. PICK e \in OutDirs, inputs \in SUBSET DOMAIN disk : StartMergeInto(w, e, inputs)
    BY <1>1, <2>1, MergeStarts
  <2> QED BY <2>2, StartMergeBoardStep
<1> QED BY <1>1, OpenBoardStep, CopyBoardStep, SkipBoardStep, CloseBoardStep, FinishFlushBoardStep,
           FinishMergeBoardStep, OtherWriterBoardStep DEF Writer

(* The main thread starts the flush of a writer with the black stream.      *)
LEMMA MainBoardStep ==
  ASSUME BoardInv, Main
  PROVE  /\ SegsHold' /\ SideRests' /\ NothingLost'
         /\ ~terminate' => AccCopied' /\ Streamed'
<1>1. UNCHANGED <<held, segs, acc, generated, feeder, copied, terminate, disk, side>>
  BY DEF Main, FeederIdle, PoolIdle, FlushDone, Publish, FlushNext, bufVars, feedVars
<1>2. \A p \in Players : OnDisk(p)' = OnDisk(p)
  BY <1>1 DEF OnDisk, Closed
<1>3. ASSUME NEW w \in Writers, FlushNext(w)
      PROVE  /\ SegsHold' /\ SideRests' /\ NothingLost'
             /\ ~terminate' => AccCopied' /\ Streamed'
  <2>1. /\ pc[w] = "idle" /\ side[w] = Black
        /\ pc' = pc \/ pc' = [pc EXCEPT ![w] = "stream"]
    BY <1>3 DEF FlushNext, Idle, BoardInv, SideRests
  <2> QED BY <1>1, <1>2, <2>1, UnmovedKept, Basics DEF BoardInv, FileInv, TypeInv, TypeOK, WriterType
<1>4. ASSUME UNCHANGED pc
      PROVE  /\ SegsHold' /\ SideRests' /\ NothingLost'
             /\ ~terminate' => AccCopied' /\ Streamed'
  <2>1. \A p \in Players : Held(p)' = Held(p)
    BY <1>1 DEF Held
  <2>2. SegsHold' /\ SideRests'
    BY <1>1, <1>4 DEF BoardInv, SegsHold, SideRests
  <2> QED BY <1>1, <1>2, <1>4, <2>1, <2>2, Basics
         DEF BoardInv, NothingLost, AccCopied, Streamed, Kept
<1> QED BY <1>3, <1>4 DEF Main, FeederIdle, PoolIdle, FlushDone, Publish

(* The player threads move the boards of a player to the store.             *)
LEMMA PlayerBoardStep ==
  ASSUME BoardInv, NEW q \in Players, PlayerThread(q)
  PROVE  /\ SegsHold' /\ SideRests' /\ NothingLost'
         /\ ~terminate' => AccCopied' /\ Streamed'
<1>1. UNCHANGED <<held, segs, acc, generated, feeder, copied, terminate, pc, side>>
  BY DEF PlayerThread, EolNothing, StartEol, FinishEol, bufVars, feedVars
<1>2. ~terminate => \A p \in Players : OnDisk(p)' = OnDisk(p)
  <2> SUFFICES ASSUME ~terminate PROVE \A p \in Players : OnDisk(p)' = OnDisk(p)
    OBVIOUS
  <2>1. PICK out : out = StoreFile(q)
    OBVIOUS
  <2>2. CASE EolNothing(q)
    BY <2>2 DEF EolNothing, OnDisk, Closed
  <2>3. CASE StartEol(q)
    <3>1. out \notin DOMAIN disk /\ disk' = Put(out, {}, FALSE)
      BY <2>1, <2>3, StoreFileFresh DEF StartEol, BoardInv
    <3> QED BY <3>1, OpenKeeps
  <2>4. CASE FinishEol(q)
    <3>1. PICK ins : ins = eolIn[q]
      OBVIOUS
    <3>2. ~Closed(out) /\ out.player = q
      BY <2>1, <2>4, StoreFileFresh DEF FinishEol, BoardInv
    <3>3. \A n \in ins : Closed(n) /\ n.player = out.player
      BY <2>4, <3>1, <3>2 DEF FinishEol, BoardInv, FileInv, EolInputs
    <3>4. disk' = Delete(Put(out, Merged(ins), TRUE), ins)
      BY <2>1, <2>4, <3>1 DEF FinishEol, Written
    <3> QED BY <3>2, <3>3, <3>4, MergeKeeps
  <2> QED BY <2>2, <2>3, <2>4 DEF PlayerThread
<1>3. \A p \in Players : Held(p)' = Held(p)
  BY <1>1 DEF Held
<1>4. SegsHold' /\ SideRests'
  BY <1>1 DEF BoardInv, SegsHold, SideRests
<1>5. NothingLost' /\ (~terminate' => AccCopied')
  BY <1>1, <1>2, <1>3 DEF BoardInv, NothingLost, AccCopied, Kept
<1>6. ~terminate' => Streamed'
  BY <1>1, <1>2, Basics DEF BoardInv, Streamed
<1> QED BY <1>4, <1>5, <1>6

(* After Ctrl+C nothing is promised any more; other steps change nothing.   *)
LEMMA OtherBoardStep ==
  ASSUME BoardInv, Interrupt \/ UNCHANGED vars
  PROVE  /\ SegsHold' /\ SideRests' /\ NothingLost'
         /\ ~terminate' => AccCopied' /\ Streamed'
<1>1. UNCHANGED <<held, segs, acc, generated, feeder, copied, disk, pc, side>>
  BY DEF Interrupt, vars, bufVars, feedVars, mainVars
<1>2. \A p \in Players : OnDisk(p)' = OnDisk(p) /\ Held(p)' = Held(p)
  BY <1>1 DEF Held, OnDisk, Closed
<1>3. terminate' \/ terminate' = terminate
  BY DEF Interrupt, vars
<1>4. SegsHold' /\ SideRests'
  BY <1>1 DEF BoardInv, SegsHold, SideRests
<1>5. CASE terminate'
  BY <1>4, <1>5 DEF NothingLost
<1>6. CASE terminate' = terminate
  BY <1>1, <1>2, <1>4, <1>6, Basics DEF BoardInv, NothingLost, AccCopied, Streamed, Kept
<1> QED BY <1>3, <1>5, <1>6

(* Every step keeps every board somewhere.                                  *)
LEMMA BoardStep ==
  ASSUME BoardInv, [Next]_vars
  PROVE  BoardInv'
<1>1. FileInv'
  BY FileStep DEF BoardInv
<1>2. /\ SegsHold' /\ SideRests' /\ NothingLost'
      /\ ~terminate' => AccCopied' /\ Streamed'
  <2>1. CASE Interrupt \/ Over \/ UNCHANGED vars
    BY <2>1, OtherBoardStep DEF Over
  <2> QED BY <2>1, FeederBoardStep, WriterBoardStep, MainBoardStep, PlayerBoardStep DEF Next
<1> QED BY <1>1, <1>2 DEF BoardInv

(* BoardInv holds in every reachable state.                                 *)
THEOREM BoardsCorrect == Spec => []BoardInv
<1>1. BoardInv /\ [Next]_vars => BoardInv'
  BY BoardStep
<1> QED BY <1>1, BoardInit, PTL DEF Spec

(* Until the user interrupts, no generated board is ever lost between the   *)
(* accumulator, the buffers and the complete files, and none is invented,   *)
(* for any number of writers, any batches and any buffer sizes.             *)
THEOREM NoBoardLost == Spec => []NothingLost
<1>1. BoardInv => NothingLost
  BY DEF BoardInv
<1> QED BY <1>1, BoardsCorrect, PTL

----------------------------------------------------------------------------
(* The backlog. A writer looks at it once per flush, so what others write   *)
(* before they look as well is what may exceed the fan-in: one file per     *)
(* writer that has written since its last look and has not left the merge.  *)

Waiting(from, to, p) == Sum([w \in Writers |-> to[w][p] - from[w][p]], Writers)

(* w may have written a file of player p and has not been through the      *)
(* merge test, or the merge, since.                                         *)
Wrote(w, p) ==
  \/ pc[w] \in {"tally", "enter", "recheck", "gather", "merge"}
  \/ p = Black /\ pc[w] \in {"stream", "write"} /\ side[w] = White

Debtors(p) == {w \in Writers : Wrote(w, p)}

(* Merges consume up to the snapshot, white first.                          *)
ConsumedBySnap ==
  /\ \A v \in Writers, p \in Players : consumed[v][p] <= fileCount[v][p]
  /\ \A w \in Writers : pc[w] \in {"gather", "merge"} =>
       \A v \in Writers : /\ \A p \in Players : consumed[v][p] <= snap[v][p]
                          /\ side[w] = Black => consumed[v][White] = snap[v][White]

DebtBounds == ~terminate => \A p \in Players :
  /\ Waiting(consumed, fileCount, p) < MaxFanin + Cardinality(Debtors(p))
  /\ \A w \in Writers : pc[w] \in {"gather", "merge"} =>
       Waiting(snap, fileCount, p) < MaxFanin + Cardinality(Debtors(p) \ {w})

BacklogInv == BoardInv /\ ConsumedBySnap /\ DebtBounds

(* Two vectors of counters, and how many files lie between them.            *)
LEMMA WaitingType ==
  ASSUME NEW from \in [Writers -> [Players -> Nat]], NEW to \in [Writers -> [Players -> Nat]],
         NEW p \in Players
  PROVE  Waiting(from, to, p) \in Int
<1>1. \A w \in Writers : [v \in Writers |-> to[v][p] - from[v][p]][w] \in Int
  OBVIOUS
<1> QED BY <1>1, SumIsInt, PipelineAssumption DEF Waiting

(* The farther the beginning, the fewer the files.                          *)
LEMMA WaitingShrinks ==
  ASSUME NEW from \in [Writers -> [Players -> Nat]], NEW to \in [Writers -> [Players -> Nat]],
         NEW new \in [Writers -> [Players -> Nat]], NEW p \in Players,
         \A w \in Writers : from[w][p] <= new[w][p]
  PROVE  Waiting(new, to, p) <= Waiting(from, to, p)
<1> DEFINE f == [v \in Writers |-> to[v][p] - new[v][p]]
           e == [v \in Writers |-> to[v][p] - from[v][p]]
<1>1. \A w \in Writers : f[w] \in Int /\ e[w] \in Int /\ f[w] <= e[w]
  OBVIOUS
<1> HIDE DEF f, e
<1>2. Sum(f, Writers) <= Sum(e, Writers)
  BY <1>1, SumMonotone, PipelineAssumption
<1> QED BY <1>2 DEF Waiting, f, e

(* Only the counters of player p matter.                                    *)
LEMMA WaitingSame ==
  ASSUME NEW from, NEW to, NEW old, NEW new, NEW p \in Players,
         \A w \in Writers : from[w][p] = old[w][p] /\ to[w][p] = new[w][p]
  PROVE  Waiting(from, to, p) = Waiting(old, new, p)
<1> DEFINE f == [v \in Writers |-> to[v][p] - from[v][p]]
           e == [v \in Writers |-> new[v][p] - old[v][p]]
<1>1. \A w \in Writers : f[w] = e[w]
  OBVIOUS
<1> HIDE DEF f, e
<1>2. Sum(f, Writers) = Sum(e, Writers)
  BY <1>1, SumSame, PipelineAssumption
<1> QED BY <1>2 DEF Waiting, f, e

(* Right after a snapshot nothing has been added to it.                     *)
LEMMA WaitingNone ==
  ASSUME NEW to \in [Writers -> [Players -> Nat]], NEW p \in Players
  PROVE  Waiting(to, to, p) = 0
<1> DEFINE f == [v \in Writers |-> to[v][p] - to[v][p]]
           e == [v \in Writers |-> f[v] + f[v]]
<1>1. \A w \in Writers : f[w] = 0
  OBVIOUS
<1>2. \A w \in Writers : f[w] \in Int /\ e[w] = f[w]
  BY <1>1
<1> HIDE DEF f
<1>3. Sum(e, Writers) = Sum(f, Writers) + Sum(f, Writers)
  BY <1>2, SumPlus, PipelineAssumption
<1> HIDE DEF e
<1>4. Sum(e, Writers) = Sum(f, Writers)
  BY <1>2, SumSame, PipelineAssumption
<1>5. Sum(f, Writers) \in Int
  BY <1>2, SumIsInt, PipelineAssumption
<1>6. PICK n \in Int : n = Sum(f, Writers)
  BY <1>5
<1>7. n = n + n
  BY <1>3, <1>4, <1>6
<1>8. n = 0
  BY <1>7
<1> QED BY <1>6, <1>8 DEF Waiting, f

(* One more file of one writer.                                             *)
LEMMA WaitingGrows ==
  ASSUME NEW from \in [Writers -> [Players -> Nat]], NEW to \in [Writers -> [Players -> Nat]],
         NEW new \in [Writers -> [Players -> Nat]], NEW p \in Players, NEW w \in Writers,
         new[w][p] <= to[w][p] + 1, \A v \in Writers \ {w} : new[v][p] = to[v][p]
  PROVE  Waiting(from, new, p) <= Waiting(from, to, p) + 1
<1> DEFINE f == [v \in Writers |-> to[v][p] - from[v][p]]
           e == [v \in Writers |-> new[v][p] - from[v][p]]
<1>1. /\ \A v \in Writers : f[v] \in Int /\ e[v] \in Int
      /\ \A v \in Writers \ {w} : e[v] = f[v]
      /\ e[w] <= f[w] + 1
  OBVIOUS
<1> HIDE DEF f, e
<1>2. Sum(e, Writers) = Sum(f, Writers) - f[w] + e[w]
  BY <1>1, SumChange, PipelineAssumption
<1>3. Sum(f, Writers) \in Int
  BY <1>1, SumIsInt, PipelineAssumption
<1>4. Sum(e, Writers) <= Sum(f, Writers) + 1
  BY <1>1, <1>2, <1>3
<1> QED BY <1>4 DEF Waiting, f, e

(* The backlog of the code is the difference of its counters.               *)
LEMMA BacklogIsWaiting == \A p : Backlog(p) = Waiting(consumed, fileCount, p)
BY DEF Backlog, Waiting, Sum, SumFunction

(* A merge test that finds no full backlog finds fewer files than the       *)
(* fan-in.                                                                  *)
LEMMA NotFull ==
  ASSUME TypeInv, ~BacklogFull
  PROVE  \A p \in Players : Waiting(consumed, fileCount, p) < MaxFanin
<1>1. \A p \in Players : Waiting(consumed, fileCount, p) \in Int
  BY WaitingType DEF TypeInv, TypeOK, CountType
<1>2. MaxFanin \in Int
  BY PipelineAssumption
<1>3. \A p \in Players : ~(Waiting(consumed, fileCount, p) >= MaxFanin)
  BY BacklogIsWaiting DEF BacklogFull
<1> QED BY <1>1, <1>2, <1>3

(* The fan-in is a positive number.                                         *)
LEMMA FaninType == MaxFanin \in Nat /\ MaxFanin \in Int /\ MaxFanin > 0
<1>1. MaxFanin \in Nat \ {0}
  BY PipelineAssumption
<1> QED BY <1>1

(* The counters are numbers.                                                *)
LEMMA CounterTypes ==
  ASSUME TypeInv
  PROVE  /\ fileCount \in [Writers -> [Players -> Nat]] /\ consumed \in [Writers -> [Players -> Nat]]
         /\ snap \in [Writers -> [Players -> Nat]]
BY DEF TypeInv, TypeOK, CountType, MergeType

(* Sets of writers have a size.                                             *)
LEMMA WritersCount ==
  ASSUME NEW A, NEW B, A \subseteq B, B \subseteq Writers
  PROVE  Cardinality(A) \in Nat /\ Cardinality(B) \in Nat /\ Cardinality(A) <= Cardinality(B)
<1>1. IsFiniteSet(B) /\ IsFiniteSet(A)
  BY PipelineAssumption, FS_Subset
<1> QED BY <1>1, FS_Subset, FS_CardinalityType

(* One writer more.                                                         *)
LEMMA OneMoreWriter ==
  ASSUME NEW A, NEW B, A \subseteq B, B \subseteq Writers, NEW w \in B, w \notin A
  PROVE  Cardinality(A) + 1 <= Cardinality(B)
<1>1. A \cup {w} \subseteq B
  OBVIOUS
<1>2. IsFiniteSet(A) /\ Cardinality(A \cup {w}) = Cardinality(A) + 1
  BY PipelineAssumption, FS_Subset, FS_AddElement
<1>3. Cardinality(A \cup {w}) <= Cardinality(B)
  BY <1>1, WritersCount
<1> QED BY <1>2, <1>3

(* Before the first batch nobody owes a look.                               *)
LEMMA BacklogInit == Init => ConsumedBySnap /\ DebtBounds
<1> SUFFICES ASSUME Init PROVE ConsumedBySnap /\ DebtBounds
  OBVIOUS
<1>1. consumed = fileCount /\ fileCount \in [Writers -> [Players -> Nat]]
  BY DEF Init, PerWriter
<1>2. \A p \in Players : Waiting(consumed, fileCount, p) = 0
  BY <1>1, WaitingNone
<1>3. \A p \in Players : Cardinality(Debtors(p)) \in Nat
  BY WritersCount DEF Debtors
<1>4. \A w \in Writers : pc[w] = "idle"
  BY DEF Init
<1>5. MaxFanin \in Nat \ {0}
  BY PipelineAssumption
<1>6. DebtBounds
  BY <1>2, <1>3, <1>4, <1>5 DEF DebtBounds
<1>7. ConsumedBySnap
  BY <1>1, <1>4 DEF ConsumedBySnap
<1> QED BY <1>6, <1>7

(* Steps that write no file, take no snapshot and let nobody off.           *)
LEMMA BacklogFrame ==
  ASSUME BacklogInv,
         UNCHANGED <<fileCount, consumed, snap>>, terminate => terminate',
         \A v \in Writers, p \in Players : Wrote(v, p) => Wrote(v, p)',
         \A v \in Writers : pc'[v] \in {"gather", "merge"} =>
                              pc[v] \in {"gather", "merge"} /\ side'[v] = side[v]
  PROVE  ConsumedBySnap' /\ DebtBounds'
<1>1. ConsumedBySnap'
  BY DEF BacklogInv, ConsumedBySnap
<1>2. ASSUME ~terminate', NEW p \in Players
      PROVE  /\ Waiting(consumed', fileCount', p) < MaxFanin + Cardinality(Debtors(p)')
             /\ \A w \in Writers : pc'[w] \in {"gather", "merge"} =>
                  Waiting(snap', fileCount', p) < MaxFanin + Cardinality(Debtors(p)' \ {w})
  <2>1. PICK A, B : A = Debtors(p) /\ B = Debtors(p)'
    OBVIOUS
  <2>2. A \subseteq B /\ B \subseteq Writers
    BY <2>1 DEF Debtors
  <2>3. Cardinality(A) \in Nat /\ Cardinality(B) \in Nat /\ Cardinality(A) <= Cardinality(B)
    BY <2>2, WritersCount
  <2>4. Waiting(consumed, fileCount, p) \in Int /\ Waiting(snap, fileCount, p) \in Int
    BY WaitingType DEF BacklogInv, BoardInv, FileInv, TypeInv, TypeOK, CountType, MergeType
  <2>5. MaxFanin \in Int
    BY PipelineAssumption
  <2>6. Waiting(consumed, fileCount, p) < MaxFanin + Cardinality(A)
    BY <1>2, <2>1 DEF BacklogInv, DebtBounds
  <2>7. Waiting(consumed, fileCount, p) < MaxFanin + Cardinality(B)
    BY <2>3, <2>4, <2>5, <2>6
  <2>8. ASSUME NEW w \in Writers, pc'[w] \in {"gather", "merge"}
        PROVE  Waiting(snap, fileCount, p) < MaxFanin + Cardinality(B \ {w})
    <3>1. Waiting(snap, fileCount, p) < MaxFanin + Cardinality(A \ {w})
      BY <1>2, <2>1, <2>8 DEF BacklogInv, DebtBounds
    <3>2. A \ {w} \subseteq B \ {w} /\ B \ {w} \subseteq Writers
      BY <2>2
    <3>3. /\ Cardinality(A \ {w}) \in Nat /\ Cardinality(B \ {w}) \in Nat
          /\ Cardinality(A \ {w}) <= Cardinality(B \ {w})
      BY <3>2, WritersCount
    <3> QED BY <2>4, <2>5, <3>1, <3>3
  <2> QED BY <2>1, <2>7, <2>8
<1>3. DebtBounds'
  BY <1>2 DEF DebtBounds
<1> QED BY <1>1, <1>3

(* A writer closes a file and owes a look at the backlog.                   *)
LEMMA CloseBacklogStep ==
  ASSUME BacklogInv, NEW w \in Writers, CloseStream(w)
  PROVE  ConsumedBySnap' /\ DebtBounds'
<1> USE DEF BacklogInv, BoardInv, FileInv, TypeInv, TypeOK, WriterType
<1>1. /\ UNCHANGED <<consumed, snap, terminate>>
      /\ pc[w] = "write"
      /\ \A v \in Writers \ {w} : pc'[v] = pc[v] /\ side'[v] = side[v]
      /\ IF side[w] = Black THEN pc'[w] = "stream" /\ side'[w] = White
                            ELSE pc'[w] = "tally" /\ side'[w] = side[w]
      /\ fileCount' = fileCount \/ fileCount' = [fileCount EXCEPT ![w][side[w]] = @ + 1]
  BY DEF CloseStream, NextStream, mergeVars
<1>2. /\ fileCount \in [Writers -> [Players -> Nat]] /\ consumed \in [Writers -> [Players -> Nat]]
      /\ snap \in [Writers -> [Players -> Nat]] /\ side[w] \in Players
  BY CounterTypes
<1>3. /\ fileCount' \in [Writers -> [Players -> Nat]]
      /\ \A p \in Players : fileCount'[w][p] <= fileCount[w][p] + 1
      /\ \A p \in Players : p # side[w] => fileCount'[w][p] = fileCount[w][p]
      /\ \A v \in Writers \ {w} : \A p \in Players : fileCount'[v][p] = fileCount[v][p]
      /\ \A v \in Writers, p \in Players : fileCount[v][p] <= fileCount'[v][p]
  <2>1. CASE fileCount' = fileCount
    BY <1>2, <2>1
  <2>2. CASE fileCount' = [fileCount EXCEPT ![w][side[w]] = @ + 1]
    <3>1. PICK q \in Players : q = side[w]
      BY <1>2
    <3>2. fileCount' = [fileCount EXCEPT ![w] = [fileCount[w] EXCEPT ![q] = fileCount[w][q] + 1]]
      BY <2>2, <3>1
    <3>3. /\ fileCount[w] \in [Players -> Nat]
          /\ [fileCount[w] EXCEPT ![q] = fileCount[w][q] + 1] \in [Players -> Nat]
          /\ fileCount[w][q] + 1 \in Nat
      BY <1>2
    <3>4. fileCount'[w] = [fileCount[w] EXCEPT ![q] = fileCount[w][q] + 1]
      BY <1>2, <3>2
    <3>5. \A v \in Writers \ {w} : fileCount'[v] = fileCount[v]
      BY <1>2, <3>2
    <3>6. fileCount' \in [Writers -> [Players -> Nat]]
      BY <1>2, <3>2, <3>3
    <3>7. \A p \in Players : p # q => fileCount'[w][p] = fileCount[w][p]
      BY <3>3, <3>4
    <3>8. fileCount'[w][q] = fileCount[w][q] + 1
      BY <3>3, <3>4
    <3>9. \A v \in Writers, p \in Players : fileCount[v][p] <= fileCount'[v][p]
      BY <1>2, <3>5, <3>7, <3>8
    <3>10. \A p \in Players : fileCount'[w][p] <= fileCount[w][p] + 1
      BY <1>2, <3>7, <3>8
    <3> QED BY <3>1, <3>5, <3>6, <3>7, <3>9, <3>10
  <2> QED BY <1>1, <2>1, <2>2
<1>4. ConsumedBySnap'
  <2>1. ASSUME NEW v \in Writers, NEW p \in Players PROVE consumed[v][p] <= fileCount'[v][p]
    <3>1. consumed[v][p] <= fileCount[v][p] /\ fileCount[v][p] <= fileCount'[v][p]
      BY <1>3 DEF ConsumedBySnap
    <3>2. consumed[v][p] \in Int /\ fileCount[v][p] \in Int /\ fileCount'[v][p] \in Int
      BY <1>2, <1>3
    <3> QED BY <3>1, <3>2
  <2> QED BY <1>1, <2>1 DEF ConsumedBySnap
<1>5. ASSUME ~terminate, NEW p \in Players
      PROVE  /\ Waiting(consumed, fileCount', p) < MaxFanin + Cardinality(Debtors(p)')
             /\ \A u \in Writers : pc'[u] \in {"gather", "merge"} =>
                  Waiting(snap, fileCount', p) < MaxFanin + Cardinality(Debtors(p)' \ {u})
  <2>1. PICK A, B : A = Debtors(p) /\ B = Debtors(p)'
    OBVIOUS
  <2>2. /\ A \subseteq B /\ B \subseteq Writers
        /\ p = side[w] => w \notin A /\ w \in B
    BY <1>1, <1>2, <2>1, Basics DEF Debtors, Wrote
  <2>3. /\ Waiting(consumed, fileCount, p) \in Int /\ Waiting(consumed, fileCount', p) \in Int
        /\ Waiting(snap, fileCount, p) \in Int /\ Waiting(snap, fileCount', p) \in Int
        /\ MaxFanin \in Int
    BY <1>2, <1>3, WaitingType, FaninType
  <2>4. /\ Waiting(consumed, fileCount', p) <= Waiting(consumed, fileCount, p) + 1
        /\ Waiting(snap, fileCount', p) <= Waiting(snap, fileCount, p) + 1
    <3>1. fileCount'[w][p] <= fileCount[w][p] + 1 /\ \A v \in Writers \ {w} : fileCount'[v][p] = fileCount[v][p]
      BY <1>3
    <3> QED BY <1>2, <1>3, <3>1, WaitingGrows
  <2>5. p # side[w] => /\ Waiting(consumed, fileCount', p) = Waiting(consumed, fileCount, p)
                       /\ Waiting(snap, fileCount', p) = Waiting(snap, fileCount, p)
    <3>1. p # side[w] => \A v \in Writers : fileCount'[v][p] = fileCount[v][p]
      BY <1>3
    <3> QED BY <3>1, WaitingSame
  <2>6. Waiting(consumed, fileCount, p) < MaxFanin + Cardinality(A)
    BY <1>5, <2>1 DEF DebtBounds
  <2>7. Waiting(consumed, fileCount', p) < MaxFanin + Cardinality(B)
    BY <2>2, <2>3, <2>4, <2>5, <2>6, OneMoreWriter, WritersCount
  <2>8. ASSUME NEW u \in Writers, pc'[u] \in {"gather", "merge"}
        PROVE  Waiting(snap, fileCount', p) < MaxFanin + Cardinality(B \ {u})
    <3>1. u # w /\ pc[u] \in {"gather", "merge"}
      BY <1>1, <2>8
    <3>2. Waiting(snap, fileCount, p) < MaxFanin + Cardinality(A \ {u})
      BY <1>5, <2>1, <3>1 DEF DebtBounds
    <3>3. /\ A \ {u} \subseteq B \ {u} /\ B \ {u} \subseteq Writers
          /\ p = side[w] => w \notin A \ {u} /\ w \in B \ {u}
      BY <2>2, <3>1
    <3> QED BY <2>3, <2>4, <2>5, <3>2, <3>3, OneMoreWriter, WritersCount
  <2> QED BY <2>1, <2>7, <2>8
<1>6. DebtBounds'
  BY <1>1, <1>5 DEF DebtBounds
<1> QED BY <1>4, <1>6

(* The writer finds no full backlog and is let off, or goes to the merge.   *)
LEMMA FinishFlushBacklogStep ==
  ASSUME BacklogInv, NEW w \in Writers, FinishFlush(w)
  PROVE  ConsumedBySnap' /\ DebtBounds'
<1> USE DEF BacklogInv, BoardInv, FileInv, TypeInv, TypeOK, WriterType
<1>1. /\ UNCHANGED <<fileCount, consumed, snap, terminate>>
      /\ pc[w] = "tally"
      /\ \A v \in Writers \ {w} : pc'[v] = pc[v] /\ side'[v] = side[v]
      /\ pc'[w] = "enter" \/ (pc'[w] = "idle" /\ ~BacklogFull)
  <2>1. \/ pc' = [pc EXCEPT ![w] = "enter"]
        \/ pc' = [pc EXCEPT ![w] = "idle"] /\ ~BacklogFull
    BY DEF FinishFlush
  <2>2. /\ UNCHANGED <<fileCount, consumed, snap, terminate>>
        /\ pc[w] = "tally" /\ side' = [side EXCEPT ![w] = Black]
    BY DEF FinishFlush, mergeVars, countVars
  <2>3. \A v \in Writers \ {w} : pc'[v] = pc[v] /\ side'[v] = side[v]
    BY <2>1, <2>2
  <2>4. pc'[w] = "enter" \/ (pc'[w] = "idle" /\ ~BacklogFull)
    BY <2>1
  <2> QED BY <2>2, <2>3, <2>4
<1>2. CASE pc'[w] = "enter"
  <2>1. \A v \in Writers, p \in Players : Wrote(v, p) => Wrote(v, p)'
    BY <1>1, <1>2 DEF Wrote
  <2>2. \A v \in Writers : pc'[v] \in {"gather", "merge"} =>
                           pc[v] \in {"gather", "merge"} /\ side'[v] = side[v]
    BY <1>1, <1>2
  <2> QED BY <1>1, <2>1, <2>2, BacklogFrame
<1>3. CASE pc'[w] = "idle" /\ ~BacklogFull
  <2>1. ConsumedBySnap'
    BY <1>1, <1>3 DEF ConsumedBySnap
  <2>2. ASSUME NEW p \in Players
        PROVE  /\ Waiting(consumed, fileCount, p) < MaxFanin + Cardinality(Debtors(p)')
               /\ \A u \in Writers : pc'[u] \in {"gather", "merge"} =>
                    Waiting(snap, fileCount, p) < MaxFanin + Cardinality(Debtors(p)' \ {u})
    <3>1. PICK B : B = Debtors(p)'
      OBVIOUS
    <3>2. Waiting(consumed, fileCount, p) < MaxFanin
      BY <1>3, NotFull
    <3>3. /\ Waiting(consumed, fileCount, p) \in Int /\ Waiting(snap, fileCount, p) \in Int
          /\ MaxFanin \in Int
      BY WaitingType, CounterTypes, FaninType
    <3>4. B \subseteq Writers
      BY <3>1 DEF Debtors
    <3>5. ASSUME NEW u \in Writers, pc'[u] \in {"gather", "merge"}
          PROVE  Waiting(snap, fileCount, p) < MaxFanin + Cardinality(B \ {u})
      <4>1. \A v \in Writers : consumed[v][p] <= snap[v][p]
        BY <1>1, <1>3, <3>5 DEF ConsumedBySnap
      <4>2. Waiting(snap, fileCount, p) <= Waiting(consumed, fileCount, p)
        BY <4>1, WaitingShrinks DEF CountType, MergeType
      <4>3. Cardinality(B \ {u}) \in Nat
        BY <3>4, WritersCount
      <4> QED BY <3>2, <3>3, <4>2, <4>3
    <3>6. Cardinality(B) \in Nat
      BY <3>4, WritersCount
    <3>7. Waiting(consumed, fileCount, p) < MaxFanin + Cardinality(B)
      BY <3>2, <3>3, <3>6
    <3> QED BY <3>1, <3>5, <3>7
  <2>3. DebtBounds'
    BY <1>1, <2>2 DEF DebtBounds
  <2> QED BY <2>1, <2>3
<1> QED BY <1>1, <1>2, <1>3

(* The owner re-checks under the lock, takes the snapshot, or is stopped.   *)
LEMMA OwnerBacklogStep ==
  ASSUME BacklogInv, NEW w \in Writers, LeaveUnneeded(w) \/ Snapshot(w) \/ BreakMerge(w)
  PROVE  ConsumedBySnap' /\ DebtBounds'
<1> USE DEF BacklogInv, BoardInv, FileInv, TypeInv, TypeOK, WriterType
<1>1. /\ UNCHANGED <<fileCount, consumed, terminate>>
      /\ pc[w] \in {"recheck", "gather"}
      /\ \A v \in Writers \ {w} : pc'[v] = pc[v] /\ side'[v] = side[v]
      /\ \/ pc'[w] = "idle" /\ (terminate \/ ~BacklogFull)
         \/ pc'[w] = "gather" /\ side'[w] = White /\ snap' = fileCount /\ pc[w] = "recheck"
  BY DEF LeaveUnneeded, Snapshot, BreakMerge, Leave, countVars
<1>2. \A v \in Writers \ {w} : pc'[v] \notin {"gather", "merge"}
  BY <1>1 DEF MergeLock
<1>3. ConsumedBySnap'
  BY <1>1, <1>2, Basics DEF ConsumedBySnap
<1>4. ASSUME ~terminate, NEW p \in Players
      PROVE  /\ Waiting(consumed, fileCount, p) < MaxFanin + Cardinality(Debtors(p)')
             /\ \A u \in Writers : pc'[u] \in {"gather", "merge"} =>
                  Waiting(snap', fileCount, p) < MaxFanin + Cardinality(Debtors(p)' \ {u})
  <2>1. PICK A, B : A = Debtors(p) /\ B = Debtors(p)'
    OBVIOUS
  <2>2. A \subseteq Writers /\ B \subseteq Writers
    BY <2>1 DEF Debtors
  <2>3. Waiting(consumed, fileCount, p) \in Int /\ MaxFanin \in Nat \ {0}
    BY WaitingType, PipelineAssumption DEF CountType
  <2>4. CASE pc'[w] = "idle" /\ ~BacklogFull
    <3>1. Waiting(consumed, fileCount, p) < MaxFanin
      BY <2>4, NotFull
    <3>2. Cardinality(B) \in Nat
      BY <2>2, WritersCount
    <3>3. Waiting(consumed, fileCount, p) < MaxFanin + Cardinality(B)
      BY <2>3, <3>1, <3>2
    <3>4. \A u \in Writers : pc'[u] \notin {"gather", "merge"}
      BY <1>2, <2>4
    <3> QED BY <2>1, <3>3, <3>4
  <2>5. CASE pc'[w] = "gather" /\ snap' = fileCount /\ pc[w] = "recheck"
    <3>1. A = B
      BY <1>1, <2>1, <2>5 DEF Debtors, Wrote
    <3>2. Waiting(consumed, fileCount, p) < MaxFanin + Cardinality(B)
      BY <1>4, <2>1, <3>1 DEF DebtBounds
    <3>3. Waiting(snap', fileCount, p) = 0
      BY <2>5, WaitingNone DEF CountType
    <3>4. \A u \in Writers : Waiting(snap', fileCount, p) < MaxFanin + Cardinality(B \ {u})
      <4>1. \A u \in Writers : Cardinality(B \ {u}) \in Nat
        BY <2>2, WritersCount
      <4> QED BY <2>3, <3>3, <4>1
    <3> QED BY <2>1, <3>2, <3>4
  <2> QED BY <1>1, <1>4, <2>4, <2>5
<1>5. DebtBounds'
  BY <1>1, <1>4 DEF DebtBounds
<1> QED BY <1>3, <1>5

(* One player's files are merged: they no longer wait. After black the      *)
(* owner leaves, and what waits then was written after the snapshot.        *)
LEMMA MergedBacklogStep ==
  ASSUME BacklogInv, NEW w \in Writers, NothingToMerge(w) \/ FinishMerge(w)
  PROVE  ConsumedBySnap' /\ DebtBounds'
<1> USE DEF BacklogInv, BoardInv, FileInv, TypeInv, TypeOK, WriterType
<1>1. /\ UNCHANGED <<fileCount, terminate>>
      /\ pc[w] \in {"gather", "merge"}
      /\ \A v \in Writers \ {w} : pc'[v] = pc[v] /\ side'[v] = side[v]
      /\ consumed' = [v \in Writers |-> [consumed[v] EXCEPT ![side[w]] = snap[v][side[w]]]]
      /\ \/ side[w] = White /\ pc'[w] = "gather" /\ side'[w] = Black /\ snap' = snap
         \/ side[w] = Black /\ pc'[w] = "idle"
  BY Basics DEF NothingToMerge, FinishMerge, NextMerge, Leave
<1>2. \A v \in Writers \ {w} : pc'[v] \notin {"gather", "merge"}
  BY <1>1 DEF MergeLock
<1>3. /\ fileCount \in [Writers -> [Players -> Nat]] /\ consumed \in [Writers -> [Players -> Nat]]
      /\ snap \in [Writers -> [Players -> Nat]] /\ side[w] \in Players
  BY DEF CountType, MergeType
<1>4. /\ consumed' \in [Writers -> [Players -> Nat]]
      /\ \A v \in Writers : /\ consumed'[v][side[w]] = snap[v][side[w]]
                             /\ \A p \in Players : p # side[w] => consumed'[v][p] = consumed[v][p]
  BY <1>1, <1>3
<1>5. \A v \in Writers, p \in Players : /\ consumed[v][p] <= snap[v][p]
                                       /\ consumed[v][p] <= consumed'[v][p]
                                       /\ consumed'[v][p] <= snap[v][p]
                                       /\ snap[v][p] <= fileCount[v][p]
  BY <1>1, <1>3, <1>4 DEF ConsumedBySnap, SnapBounded
<1>6. ConsumedBySnap'
  <2>1. \A v \in Writers, p \in Players : consumed'[v][p] <= fileCount[v][p]
    BY <1>3, <1>4, <1>5
  <2>2. side[w] = White => \A v \in Writers : consumed'[v][White] = snap[v][White]
    BY <1>4
  <2> QED BY <1>1, <1>2, <1>5, <2>1, <2>2, Basics DEF ConsumedBySnap
<1>7. ASSUME ~terminate, NEW p \in Players
      PROVE  /\ Waiting(consumed', fileCount, p) < MaxFanin + Cardinality(Debtors(p)')
             /\ \A u \in Writers : pc'[u] \in {"gather", "merge"} =>
                  Waiting(snap', fileCount, p) < MaxFanin + Cardinality(Debtors(p)' \ {u})
  <2>1. PICK A, B : A = Debtors(p) /\ B = Debtors(p)'
    OBVIOUS
  <2>2. A \subseteq Writers /\ B \subseteq Writers
    BY <2>1 DEF Debtors
  <2>3. /\ Waiting(consumed, fileCount, p) < MaxFanin + Cardinality(A)
        /\ Waiting(snap, fileCount, p) < MaxFanin + Cardinality(A \ {w})
    BY <1>1, <1>7, <2>1 DEF DebtBounds
  <2>4. CASE side[w] = White /\ pc'[w] = "gather" /\ snap' = snap
    <3>1. A = B
      BY <1>1, <2>1, <2>4 DEF Debtors, Wrote
    <3>2. Waiting(consumed', fileCount, p) <= Waiting(consumed, fileCount, p)
      BY <1>3, <1>4, <1>5, WaitingShrinks
    <3>3. /\ Waiting(consumed, fileCount, p) \in Int /\ Waiting(consumed', fileCount, p) \in Int
          /\ MaxFanin \in Int /\ Cardinality(A) \in Int
      <4>1. Waiting(consumed', fileCount, p) \in Int /\ Waiting(consumed, fileCount, p) \in Int
        BY <1>3, <1>4, WaitingType
      <4>2. Cardinality(A) \in Nat
        BY <2>2, WritersCount
      <4> QED BY <4>1, <4>2, FaninType
    <3>4. Waiting(consumed', fileCount, p) < MaxFanin + Cardinality(B)
      BY <2>3, <3>1, <3>2, <3>3
    <3> QED BY <1>2, <2>1, <2>3, <2>4, <3>1, <3>4
  <2>5. CASE side[w] = Black /\ pc'[w] = "idle"
    <3>1. A \ {w} \subseteq B
      BY <1>1, <2>1, <2>5 DEF Debtors, Wrote
    <3>2. \A v \in Writers : consumed'[v][p] = snap[v][p]
      BY <1>1, <1>4, <2>5, Basics DEF ConsumedBySnap
    <3>3. Waiting(consumed', fileCount, p) = Waiting(snap, fileCount, p)
      BY <3>2, WaitingSame
    <3>4. /\ Waiting(snap, fileCount, p) \in Int /\ MaxFanin \in Int
          /\ Cardinality(A \ {w}) \in Nat /\ Cardinality(B) \in Nat
          /\ Cardinality(A \ {w}) <= Cardinality(B)
      BY <1>3, <2>2, <3>1, WaitingType, WritersCount, FaninType
    <3>5. Waiting(consumed', fileCount, p) < MaxFanin + Cardinality(B)
      BY <2>3, <3>3, <3>4
    <3> QED BY <1>2, <2>1, <2>5, <3>5
  <2> QED BY <1>1, <2>4, <2>5
<1>8. DebtBounds'
  BY <1>1, <1>7 DEF DebtBounds
<1> QED BY <1>6, <1>8

(* Every step keeps the bounds on the backlog.                              *)
LEMMA BacklogStep ==
  ASSUME BacklogInv, [Next]_vars
  PROVE  ConsumedBySnap' /\ DebtBounds'
<1> USE DEF BacklogInv, BoardInv, FileInv, TypeInv, TypeOK, WriterType
<1>1. ASSUME UNCHANGED <<fileCount, consumed, snap, pc, side>>, terminate => terminate'
      PROVE  ConsumedBySnap' /\ DebtBounds'
  <2>1. \A v \in Writers, p \in Players : Wrote(v, p) => Wrote(v, p)'
    BY <1>1 DEF Wrote
  <2> QED BY <1>1, <2>1, BacklogFrame
<1>2. CASE Feeder
  BY <1>1, <1>2 DEF Feeder, ReadBatch, EndOfInput, FlushEmpty, SubmitFlush, ResetAccumulator, Process,
                    countVars, mergeVars
<1>3. ASSUME NEW w \in Writers, Writer(w) PROVE ConsumedBySnap' /\ DebtBounds'
  <2>1. ASSUME UNCHANGED <<fileCount, consumed, snap, terminate>>,
               \A v \in Writers \ {w} : pc'[v] = pc[v] /\ side'[v] = side[v],
               \A p \in Players : Wrote(w, p) => Wrote(w, p)',
               pc'[w] \in {"gather", "merge"} => pc[w] \in {"gather", "merge"} /\ side'[w] = side[w]
        PROVE  ConsumedBySnap' /\ DebtBounds'
    <3>1. \A v \in Writers, p \in Players : Wrote(v, p) => Wrote(v, p)'
      BY <2>1 DEF Wrote
    <3> QED BY <2>1, <3>1, BacklogFrame
  <2>2. CASE TakeJob(w) \/ CopyFlush(w) \/ OpenStream(w) \/ SkipStream(w) \/ EnterMerge(w)
    BY <2>1, <2>2, Basics DEF TakeJob, CopyFlush, OpenStream, SkipStream, NextStream, EnterMerge, Wrote,
                              countVars, mergeVars
  <2>3. ASSUME NEW d, NEW inputs, StartMergeInto(w, d, inputs) PROVE ConsumedBySnap' /\ DebtBounds'
    BY <2>1, <2>3 DEF StartMergeInto, Wrote
  <2> QED BY <1>3, <2>2, <2>3, CloseBacklogStep, FinishFlushBacklogStep, OwnerBacklogStep,
             MergedBacklogStep DEF Writer, StartMerge, StartTotalFlush
<1>4. CASE Main
  <2>1. ASSUME NEW w \in Writers, FlushNext(w) PROVE ConsumedBySnap' /\ DebtBounds'
    <3>1. /\ UNCHANGED <<fileCount, consumed, snap, terminate, side>> /\ pc[w] = "idle"
          /\ pc' = pc \/ pc' = [pc EXCEPT ![w] = "stream"]
      BY <2>1 DEF FlushNext, Idle, countVars, mergeVars
    <3>2. \A v \in Writers, p \in Players : Wrote(v, p) => Wrote(v, p)'
      BY <3>1 DEF Wrote
    <3>3. \A v \in Writers : pc'[v] \in {"gather", "merge"} => pc[v] \in {"gather", "merge"}
      BY <3>1
    <3> QED BY <3>1, <3>2, <3>3, BacklogFrame
  <2> QED BY <1>1, <1>4, <2>1 DEF Main, FeederIdle, PoolIdle, FlushDone, Publish, countVars, mergeVars
<1>5. ASSUME NEW p \in Players, PlayerThread(p) PROVE ConsumedBySnap' /\ DebtBounds'
  BY <1>1, <1>5 DEF PlayerThread, EolNothing, StartEol, FinishEol, countVars, mergeVars
<1>6. CASE Interrupt \/ Over \/ UNCHANGED vars
  BY <1>1, <1>6 DEF Interrupt, Over, vars, countVars, mergeVars
<1> QED BY <1>2, <1>3, <1>4, <1>5, <1>6 DEF Next

(* The files that wait for an intermediate merge are fewer than the fan-in  *)
(* and one per writer, for any number of writers and any fan-in: the        *)
(* gathering loop never meets a backlog it cannot list.                     *)
THEOREM BacklogStaysBounded == Spec => []BacklogBounded
<1>1. ASSUME BacklogInv, [Next]_vars PROVE BacklogInv'
  BY <1>1, BoardStep, BacklogStep DEF BacklogInv
<1>2. BacklogInv /\ [Next]_vars => BacklogInv'
  BY <1>1
<1>3. Init => BacklogInv
  BY BoardInit, BacklogInit DEF BacklogInv
<1>4. ASSUME BacklogInv PROVE BacklogBounded
  <2>1. ASSUME ~terminate, NEW p \in Players PROVE Backlog(p) < MaxFanin + Cardinality(Writers)
    <3>1. PICK A : A = Debtors(p)
      OBVIOUS
    <3>2. A \subseteq Writers
      BY <3>1 DEF Debtors
    <3>3. /\ Cardinality(A) \in Nat /\ Cardinality(Writers) \in Nat
          /\ Cardinality(A) <= Cardinality(Writers)
      BY <3>2, WritersCount
    <3>4. Waiting(consumed, fileCount, p) < MaxFanin + Cardinality(A)
      BY <1>4, <2>1, <3>1 DEF BacklogInv, DebtBounds
    <3>5. Waiting(consumed, fileCount, p) \in Int /\ MaxFanin \in Int
      BY <1>4, WaitingType, CounterTypes, FaninType DEF BacklogInv, BoardInv, FileInv
    <3> QED BY <3>3, <3>4, <3>5, BacklogIsWaiting
  <2> QED BY <2>1 DEF BacklogBounded
<1>5. BacklogInv => BacklogBounded
  BY <1>4
<1> QED BY <1>2, <1>3, <1>5, PTL DEF Spec
----------------------------------------------------------------------------
(* The level as a whole: LevelPipeline implements LevelSpec when the user    *)
(* leaves the end-of-level merge alone. What the store receives is what was  *)
(* generated because nothing is left anywhere else by then: the feeder has   *)
(* emptied the accumulator, the main thread has emptied every buffer, and    *)
(* the lists of the end-of-level merge name every complete file.             *)

(* The main loop asks the flag for the last time before the end-of-level     *)
(* merge and publishes whatever that merge wrote: Ctrl+C in it is excluded.  *)
Calm == "eol" \notin InterruptPhases
Unhurried == phase = "eol" => ~terminate

FeederEmptied == feeder = "done" /\ ~terminate => acc = Empty

QueueDrained == phase \in {"flush", "eol"} => jobs = 0 /\ \A w \in Writers : pc[w] # "copy"

BuffersEmptied ==
  /\ phase = "flush" => \A w \in Writers \ todo, p \in Players :
        pc[w] \notin {"stream", "write", "tally"} => segs[w][p] = 0
  /\ phase = "eol" => \A w \in Writers, p \in Players : segs[w][p] = 0

Collected == phase \in {"eol", "complete"} => \A p \in Players :
  /\ eol[p] # "idle" /\ (phase = "complete" => eol[p] = "done")
  /\ eol[p] \in {"start", "merging"} =>
       \A n \in DOMAIN disk : n.player = p /\ Closed(n) => n \in eolIn[p]
  /\ eol[p] = "done" => \A n \in DOMAIN disk : n.player = p /\ Closed(n) => n = StoreFile(p)

LevelInv ==
  /\ BoardInv /\ Unhurried /\ FeederEmptied /\ QueueDrained /\ BuffersEmptied
  /\ Collected /\ CompleteIsWhole

(* Before the first batch the level is far from its end.                     *)
LEMMA LevelInit == Init => LevelInv
<1> SUFFICES ASSUME Init PROVE LevelInv
  OBVIOUS
<1>1. BoardInv
  BY BoardInit
<1>2. phase = "solve" /\ feeder = "read"
  BY DEF Init
<1> QED BY <1>1, <1>2 DEF LevelInv, Unhurried, FeederEmptied, QueueDrained, BuffersEmptied,
           Collected, CompleteIsWhole

(* The feeder works in the first phase only and ends with nothing left.      *)
LEMMA FeederLevelStep ==
  ASSUME LevelInv, Feeder
  PROVE  /\ phase = "solve" /\ UNCHANGED phase
         /\ Unhurried' /\ FeederEmptied' /\ QueueDrained' /\ BuffersEmptied'
         /\ Collected' /\ CompleteIsWhole'
<1>1. feeder # "done" /\ UNCHANGED <<phase, terminate>>
  BY DEF Feeder, ReadBatch, EndOfInput, FlushEmpty, SubmitFlush, ResetAccumulator, Process, mainVars
<1>2. phase = "solve"
  BY <1>1 DEF LevelInv, BoardInv, FileInv, PhaseOrder
<1>3. feeder' = "done" => terminate' \/ acc' = Empty
  BY DEF Feeder, ReadBatch, EndOfInput, FlushEmpty, SubmitFlush, ResetAccumulator, Process
<1> QED BY <1>1, <1>2, <1>3 DEF Unhurried, FeederEmptied, QueueDrained, BuffersEmptied,
           Collected, CompleteIsWhole

(* What a writer's step leaves alone, and where it can be after it.          *)
LEMMA WriterMoves ==
  ASSUME FileInv, NEW w \in Writers, Writer(w)
  PROVE  /\ pc[w] # "idle" \/ jobs > 0
         /\ UNCHANGED <<phase, todo, eol, eolIn, terminate, feeder, acc, generated>>
         /\ \A v \in Writers \ {w} : pc'[v] = pc[v] /\ segs'[v] = segs[v]
         /\ \/ TakeJob(w) \/ CopyFlush(w)
            \/ /\ UNCHANGED jobs /\ pc'[w] # "copy"
               /\ \/ segs' = segs /\ pc'[w] \in {"stream", "write", "tally"}
                  \/ segs' = segs /\ pc[w] \notin {"stream", "write", "tally"}
                  \/ \A p \in Players : segs'[w][p] = 0
<1> USE DEF FileInv, TypeInv, TypeOK, WriterType, BufferType, mainVars, feedVars, bufVars
<1>1. ASSUME NEW d \in OutDirs, NEW inputs, StartMergeInto(w, d, inputs)
      PROVE  /\ pc[w] = "gather" /\ pc'[w] = "merge"
             /\ UNCHANGED <<phase, todo, eol, eolIn, terminate, feeder, acc, generated, jobs, segs>>
             /\ \A v \in Writers \ {w} : pc'[v] = pc[v]
  BY <1>1 DEF StartMergeInto
<1>2. CASE StartTotalFlush(w) \/ \E d \in MergeDirs : StartMerge(w, d)
  <2>1. TypeInv
    OBVIOUS
  <2>2. PICK e \in OutDirs, inputs \in SUBSET DOMAIN disk : StartMergeInto(w, e, inputs)
    BY <1>2, <2>1, MergeStarts
  <2> QED BY <1>1, <2>2
<1>3. CASE TakeJob(w) \/ CopyFlush(w)
  BY <1>3 DEF TakeJob, CopyFlush
<1>4. CASE OpenStream(w) \/ SkipStream(w) \/ CloseStream(w)
  BY <1>4 DEF OpenStream, SkipStream, CloseStream, NextStream
<1>5. CASE FinishFlush(w)
  <2>1. \A p \in Players : segs'[w][p] = 0
    BY <1>5 DEF FinishFlush
  <2> QED BY <1>5, <2>1 DEF FinishFlush
<1>6. CASE EnterMerge(w) \/ LeaveUnneeded(w) \/ Snapshot(w) \/ BreakMerge(w)
           \/ NothingToMerge(w) \/ FinishMerge(w)
  BY <1>6 DEF EnterMerge, LeaveUnneeded, Snapshot, BreakMerge, NothingToMerge, FinishMerge,
              NextMerge, Leave
<1> QED BY <1>2, <1>3, <1>4, <1>5, <1>6 DEF Writer

(* A writer is not at work once the end-of-level merge has begun.            *)
LEMMA WriterLevelStep ==
  ASSUME LevelInv, NEW w \in Writers, Writer(w)
  PROVE  /\ phase \notin {"eol", "complete"} /\ UNCHANGED phase
         /\ Unhurried' /\ FeederEmptied' /\ QueueDrained' /\ BuffersEmptied'
         /\ Collected' /\ CompleteIsWhole'
<1>1. FileInv /\ jobs \in Nat
  BY DEF LevelInv, BoardInv, FileInv, TypeInv, TypeOK, QueueType
<1>2. pc[w] # "idle" \/ jobs > 0
  BY <1>1, WriterMoves
<1>3. phase \notin {"eol", "complete"}
  BY <1>1, <1>2, WriterActive
<1>4. /\ UNCHANGED <<phase, todo, eol, eolIn, terminate, feeder, acc, generated>>
      /\ \A v \in Writers \ {w} : pc'[v] = pc[v] /\ segs'[v] = segs[v]
  BY <1>1, WriterMoves
<1>5. Unhurried' /\ FeederEmptied' /\ Collected' /\ CompleteIsWhole'
  BY <1>3, <1>4 DEF LevelInv, Unhurried, FeederEmptied, Collected, CompleteIsWhole
<1>6. ASSUME phase = "flush"
      PROVE  /\ UNCHANGED jobs /\ pc'[w] # "copy"
             /\ \/ segs' = segs /\ pc'[w] \in {"stream", "write", "tally"}
                \/ segs' = segs /\ pc[w] \notin {"stream", "write", "tally"}
                \/ \A p \in Players : segs'[w][p] = 0
  <2>1. ~TakeJob(w) /\ ~CopyFlush(w)
    BY <1>1, <1>6 DEF LevelInv, QueueDrained, TakeJob, CopyFlush
  <2> QED BY <1>1, <2>1, WriterMoves
<1>7. QueueDrained'
  BY <1>3, <1>4, <1>6 DEF LevelInv, QueueDrained
<1>8. BuffersEmptied'
  BY <1>3, <1>4, <1>6 DEF LevelInv, BuffersEmptied
<1> QED BY <1>3, <1>4, <1>5, <1>7, <1>8

(* When both players are merged, the complete files are the store's, and no  *)
(* board is anywhere else.                                                   *)
LEMMA WholeStored ==
  ASSUME LevelInv, phase = "eol", \A p \in Players : eol[p] = "done"
  PROVE  generated = [p \in Players |-> UNION {disk[n].boards : n \in DOMAIN disk \cap {StoreFile(p)}}]
<1> DEFINE InStore(p) == UNION {disk[n].boards : n \in DOMAIN disk \cap {StoreFile(p)}}
<1> USE DEF LevelInv, BoardInv, FileInv
<1>1. ~terminate /\ feeder = "done"
  BY DEF Unhurried, PhaseOrder
<1>2. \A p \in Players : acc[p] = {}
  BY <1>1 DEF FeederEmptied, Empty
<1>3. \A p \in Players : Held(p) = {}
  BY DEF BuffersEmptied, SegsHold, Held
<1>4. ASSUME NEW p \in Players PROVE OnDisk(p) = InStore(p)
  <2>1. StoreFile(p).player = p /\ StoreFile(p).dir = StoreDir
    BY StoreFileFresh
  <2>2. StoreFile(p) \in DOMAIN disk => Closed(StoreFile(p))
    BY <2>1 DEF StoreFiles, Closed
  <2>3. \A n \in DOMAIN disk : n.player = p /\ Closed(n) => n = StoreFile(p)
    BY DEF Collected
  <2>4. {m \in DOMAIN disk : m.player = p /\ Closed(m)} = DOMAIN disk \cap {StoreFile(p)}
    BY <2>1, <2>2, <2>3
  <2> QED BY <2>4 DEF OnDisk
<1>5. \A p \in Players : generated[p] = InStore(p)
  BY <1>1, <1>2, <1>3, <1>4 DEF NothingLost
<1>6. generated = [p \in Players |-> generated[p]]
  BY DEF TypeInv, TypeOK, FeederType
<1> QED BY <1>5, <1>6

(* The main thread: each phase begins when the one before has left nothing.  *)
LEMMA MainLevelStep ==
  ASSUME LevelInv, Main
  PROVE  /\ Unhurried' /\ FeederEmptied' /\ QueueDrained' /\ BuffersEmptied'
         /\ Collected' /\ CompleteIsWhole'
<1> USE Basics DEF LevelInv, BoardInv, FileInv
<1>1. /\ UNCHANGED <<terminate, feeder, acc, generated, jobs, segs, disk>>
      /\ FeederEmptied'
  BY DEF Main, FeederIdle, PoolIdle, FlushNext, FlushDone, Publish, feedVars, bufVars, FeederEmptied
<1>2. CASE FeederIdle
  BY <1>1, <1>2 DEF FeederIdle, Unhurried, QueueDrained, BuffersEmptied, Collected, CompleteIsWhole
<1>3. CASE PoolIdle
  <2>1. /\ phase' \in {"stopped", "flush"} /\ Idle /\ UNCHANGED pc
        /\ phase' = "flush" => todo' = Writers
    BY <1>3 DEF PoolIdle
  <2> QED BY <1>1, <2>1 DEF Unhurried, QueueDrained, BuffersEmptied, Collected, CompleteIsWhole, Idle
<1>4. ASSUME NEW w \in Writers, FlushNext(w)
      PROVE  /\ Unhurried' /\ QueueDrained' /\ BuffersEmptied' /\ Collected' /\ CompleteIsWhole'
  <2>1. phase' = "flush" /\ phase = "flush" /\ Idle /\ todo' = todo \ {w}
    BY <1>4 DEF FlushNext
  <2>2. QueueDrained'
    BY <1>1, <1>4, <2>1 DEF FlushNext, Idle, QueueDrained, TypeInv, TypeOK, WriterType
  <2>3. BuffersEmptied'
    <3>1. ASSUME NEW v \in Writers \ todo', NEW p \in Players,
                 pc'[v] \notin {"stream", "write", "tally"}
          PROVE  segs'[v][p] = 0
      <4>1. CASE v = w
        <5>1. ~\E q \in Players : segs[w][q] > 0
          BY <1>4, <3>1, <4>1 DEF FlushNext, TypeInv, TypeOK, WriterType
        <5>2. segs[w][p] \in Nat
          BY DEF TypeInv, TypeOK, BufferType
        <5> QED BY <1>1, <4>1, <5>1, <5>2
      <4>2. CASE v # w
        <5>1. v \in Writers \ todo /\ pc[v] = "idle"
          BY <2>1, <3>1, <4>2 DEF Idle
        <5> QED BY <1>1, <2>1, <5>1 DEF BuffersEmptied
      <4> QED BY <4>1, <4>2
    <3> QED BY <2>1, <3>1 DEF BuffersEmptied
  <2> QED BY <2>1, <2>2, <2>3 DEF Unhurried, Collected, CompleteIsWhole
<1>5. CASE FlushDone
  <2>1. /\ phase' \in {"stopped", "eol"} /\ phase = "flush" /\ Idle /\ todo = {} /\ UNCHANGED pc
        /\ phase' = "eol" => /\ ~terminate
                             /\ eol' = [p \in Players |-> "start"]
                             /\ eolIn' = [p \in Players |-> LevelFiles(p)]
    BY <1>5 DEF FlushDone
  <2>2. Unhurried' /\ CompleteIsWhole'
    BY <1>1, <2>1 DEF Unhurried, CompleteIsWhole
  <2>3. QueueDrained'
    BY <1>1, <2>1 DEF QueueDrained, Idle
  <2>4. BuffersEmptied'
    BY <1>1, <2>1 DEF BuffersEmptied, Idle
  <2>5. Collected'
    <3>1. ASSUME NEW n \in DOMAIN disk, NEW p \in Players, n.player = p PROVE n.dir # StoreDir
      BY <2>1, <3>1 DEF PhaseOrder, StoreFiles
    <3> QED BY <1>1, <2>1, <3>1 DEF Collected, LevelFiles
  <2> QED BY <1>1, <2>2, <2>3, <2>4, <2>5
<1>6. CASE Publish
  <2>1. /\ phase = "eol" /\ phase' = "complete" /\ \A p \in Players : eol[p] = "done"
        /\ UNCHANGED <<eol, eolIn>>
    BY <1>6 DEF Publish
  <2>2. Unhurried' /\ QueueDrained' /\ BuffersEmptied'
    BY <2>1 DEF Unhurried, QueueDrained, BuffersEmptied
  <2>3. Collected'
    BY <1>1, <2>1 DEF Collected, Closed, StoreFile
  <2>4. CompleteIsWhole'
    BY <1>1, <2>1, WholeStored DEF CompleteIsWhole, Stored, StoreFile
  <2> QED BY <1>1, <2>2, <2>3, <2>4
<1> QED BY <1>1, <1>2, <1>3, <1>4, <1>5, <1>6 DEF Main

(* A player's thread leaves one complete file of the player, the store's.    *)
LEMMA PlayerLevelStep ==
  ASSUME LevelInv, NEW q \in Players, PlayerThread(q)
  PROVE  /\ phase = "eol" /\ UNCHANGED phase
         /\ Unhurried' /\ FeederEmptied' /\ QueueDrained' /\ BuffersEmptied'
         /\ Collected' /\ CompleteIsWhole'
<1> USE DEF LevelInv, BoardInv, FileInv
<1>1. /\ UNCHANGED <<phase, eolIn, terminate, feeder, acc, jobs, pc, segs>>
      /\ eol[q] \in {"start", "merging"}
  BY DEF PlayerThread, EolNothing, StartEol, FinishEol, feedVars, bufVars
<1>2. phase = "eol"
  BY <1>1 DEF PhaseOrder, Collected
<1>3. Unhurried' /\ FeederEmptied' /\ QueueDrained' /\ BuffersEmptied' /\ CompleteIsWhole'
  BY <1>1, <1>2 DEF Unhurried, FeederEmptied, QueueDrained, BuffersEmptied, CompleteIsWhole
<1>4. ASSUME NEW n \in DOMAIN disk, n.player = q, Closed(n) PROVE n \in eolIn[q]
  BY <1>1, <1>2, <1>4 DEF Collected
<1>5. PICK out : out = StoreFile(q) /\ out.player = q
  BY StoreFileFresh
<1>6. \A p \in Players : StoreFile(p)' = StoreFile(p)
  BY DEF StoreFile
<1>7. ASSUME NEW x, eol' = [eol EXCEPT ![q] = x], x \in {"merging", "done"},
             \A m : m # out => (Closed(m)' => Closed(m)),
             x = "merging" => ~Closed(out)',
             x = "done" => \A m \in eolIn[q] : m # out => ~Closed(m)'
      PROVE  Collected'
  <2>1. ASSUME NEW p \in Players, p # q
        PROVE  /\ eol'[p] = eol[p] /\ \A m : m.player = p /\ Closed(m)' => Closed(m)
    BY <1>5, <1>7, <2>1 DEF TypeInv, TypeOK, MainType
  <2>2. eol'[q] = x
    BY <1>7 DEF TypeInv, TypeOK, MainType
  <2>3. \A m : Closed(m) => m \in DOMAIN disk
    BY DEF Closed
  <2>4. ASSUME NEW p \in Players, p # q
        PROVE  /\ eol'[p] # "idle"
               /\ eol'[p] \in {"start", "merging"} =>
                    \A n \in DOMAIN disk' : n.player = p /\ Closed(n)' => n \in eolIn'[p]
               /\ eol'[p] = "done" =>
                    \A n \in DOMAIN disk' : n.player = p /\ Closed(n)' => n = StoreFile(p)
    BY <1>1, <1>2, <2>1, <2>3, <2>4 DEF Collected
  <2>5. /\ eol'[q] # "idle"
        /\ eol'[q] \in {"start", "merging"} =>
             \A n \in DOMAIN disk' : n.player = q /\ Closed(n)' => n \in eolIn'[q]
        /\ eol'[q] = "done" =>
             \A n \in DOMAIN disk' : n.player = q /\ Closed(n)' => n = StoreFile(q)
    BY <1>1, <1>4, <1>5, <1>7, <2>2, <2>3
  <2> QED BY <1>1, <1>2, <1>6, <2>4, <2>5 DEF Collected
<1>8. CASE EolNothing(q)
  <2>1. eol' = [eol EXCEPT ![q] = "done"] /\ eolIn[q] = {} /\ UNCHANGED disk
    BY <1>8 DEF EolNothing
  <2>2. \A m : Closed(m)' => Closed(m)
    BY <2>1 DEF Closed
  <2> QED BY <1>1, <1>2, <1>3, <1>7, <2>1, <2>2
<1>9. CASE StartEol(q)
  <2>1. eol' = [eol EXCEPT ![q] = "merging"] /\ disk' = Put(out, {}, FALSE)
    BY <1>5, <1>9 DEF StartEol
  <2>2. (\A m : m # out => (Closed(m)' => Closed(m))) /\ ~Closed(out)'
    BY <2>1 DEF Put, Closed
  <2> QED BY <1>1, <1>2, <1>3, <1>7, <2>1, <2>2
<1>10. CASE FinishEol(q)
  <2>1. PICK boards : disk' = Delete(Put(out, boards, TRUE), eolIn[q])
    BY <1>5, <1>10 DEF FinishEol
  <2>2. /\ \A m : m # out => (Closed(m)' => Closed(m))
        /\ \A m \in eolIn[q] : ~Closed(m)'
    BY <2>1 DEF Put, Delete, Restrict, Closed
  <2>3. eol' = [eol EXCEPT ![q] = "done"]
    BY <1>10 DEF FinishEol
  <2> QED BY <1>1, <1>2, <1>3, <1>7, <2>2, <2>3
<1> QED BY <1>1, <1>2, <1>3, <1>8, <1>9, <1>10 DEF PlayerThread

(* Ctrl+C before the end-of-level merge, and steps of nobody.                *)
LEMMA OtherLevelStep ==
  ASSUME Calm, LevelInv, Interrupt \/ UNCHANGED vars
  PROVE  /\ UNCHANGED phase
         /\ Unhurried' /\ FeederEmptied' /\ QueueDrained' /\ BuffersEmptied'
         /\ Collected' /\ CompleteIsWhole'
<1>1. /\ UNCHANGED <<phase, todo, eol, eolIn, feeder, acc, generated, jobs, pc, segs, disk>>
      /\ terminate' = terminate \/ (terminate' = TRUE /\ phase # "eol")
  BY DEF Calm, Interrupt, vars, mainVars, feedVars, bufVars
<1>2. Unhurried' /\ FeederEmptied' /\ QueueDrained' /\ BuffersEmptied'
  BY <1>1 DEF LevelInv, Unhurried, FeederEmptied, QueueDrained, BuffersEmptied
<1>3. Collected' /\ CompleteIsWhole'
  BY <1>1 DEF LevelInv, Collected, Closed, CompleteIsWhole, Stored, StoreFile
<1> QED BY <1>1, <1>2, <1>3

(* LevelInv is inductive when nobody interrupts the end-of-level merge.      *)
LEMMA LevelStep ==
  ASSUME Calm, LevelInv, [Next]_vars
  PROVE  LevelInv'
<1>1. BoardInv'
  BY BoardStep DEF LevelInv
<1>2. CASE Interrupt \/ Over \/ UNCHANGED vars
  BY <1>1, <1>2, OtherLevelStep DEF Over, LevelInv
<1> QED BY <1>1, <1>2, FeederLevelStep, WriterLevelStep, MainLevelStep, PlayerLevelStep
       DEF Next, LevelInv

(* A level that is published as complete holds exactly what was generated,   *)
(* for any number of writers, unless the user interrupts the last merge.     *)
THEOREM PublishedIsWhole == Calm => (Spec => []CompleteIsWhole)
<1> SUFFICES ASSUME Calm PROVE Spec => []CompleteIsWhole
  OBVIOUS
<1>1. LevelInv /\ [Next]_vars => LevelInv'
  BY LevelStep
<1>2. LevelInv => CompleteIsWhole
  BY DEF LevelInv
<1> QED BY <1>1, <1>2, LevelInit, PTL DEF Spec

(* The store shows nothing of the level before it is published.              *)
LEMMA NothingStored == LevelInv /\ phase # "complete" => Stored = Empty
<1> SUFFICES ASSUME LevelInv, phase # "complete" PROVE Stored = Empty
  OBVIOUS
<1>1. CASE phase # "stopped"
  BY <1>1 DEF Stored
<1>2. CASE phase = "stopped"
  <2>1. ASSUME NEW p \in Players PROVE StoreFile(p) \notin DOMAIN disk
    <3>1. eol[p] = "idle" /\ StoreFile(p).player = p /\ StoreFile(p).dir = StoreDir
      BY <1>2, StoreFileFresh DEF LevelInv, BoardInv, FileInv, PhaseOrder
    <3> QED BY <3>1 DEF LevelInv, BoardInv, FileInv, StoreFiles
  <2>2. \A p \in Players : UNION {disk[n].boards : n \in DOMAIN disk \cap {StoreFile(p)}} = {}
    BY <2>1
  <2> QED BY <1>2, <2>2 DEF Stored, Empty
<1> QED BY <1>1, <1>2

(* Every step is a batch expanded, the level completed or stopped, or        *)
(* nothing LevelSpec sees.                                                   *)
LEMMA LevelSimulation ==
  ASSUME Calm, LevelInv, LevelInv', [Next]_vars
  PROVE  [Level!Next]_(Level!vars)
<1> DEFINE status == IF phase \in {"complete", "stopped"} THEN phase ELSE "solving"
<1>0. phase' # "complete" => Stored' = Empty
  <2>1. (LevelInv /\ phase # "complete" => Stored = Empty)'
    BY NothingStored, PTL
  <2> QED BY <2>1 DEF Empty
<1>1. ASSUME UNCHANGED <<generated, phase>>, phase # "complete"
      PROVE  UNCHANGED Level!vars
  BY <1>0, <1>1, NothingStored DEF Level!vars
<1>2. ASSUME UNCHANGED <<generated, phase, disk>>
      PROVE  UNCHANGED Level!vars
  BY <1>2 DEF Level!vars, Stored, StoreFile, Empty
<1>3. CASE Feeder
  <2>1. phase = "solve" /\ UNCHANGED phase
    BY <1>3, FeederLevelStep
  <2>2. Stored = Empty /\ Stored' = Empty
    BY <1>0, <2>1, NothingStored
  <2>3. ASSUME NEW kids \in Batches, Process(kids) PROVE Level!Expand(kids)
    BY <2>1, <2>2, <2>3 DEF Process, Level!Expand
  <2>4. CASE ReadBatch \/ EndOfInput \/ FlushEmpty \/ SubmitFlush \/ ResetAccumulator
    BY <1>1, <2>1, <2>4 DEF ReadBatch, EndOfInput, FlushEmpty, SubmitFlush, ResetAccumulator
  <2> QED BY <1>3, <2>3, <2>4 DEF Feeder, Level!Next
<1>4. ASSUME NEW w \in Writers, Writer(w) PROVE UNCHANGED Level!vars
  <2>1. FileInv
    BY DEF LevelInv, BoardInv
  <2> QED BY <1>1, <1>4, <2>1, WriterMoves, WriterLevelStep
<1>5. CASE Main
  <2>1. UNCHANGED <<generated, disk>>
    BY <1>5 DEF Main, FeederIdle, PoolIdle, FlushNext, FlushDone, Publish, feedVars
  <2>2. CASE phase' \notin {"stopped", "complete"}
    <3>1. phase \notin {"stopped", "complete"}
      BY <1>5 DEF Main, FeederIdle, PoolIdle, FlushNext, FlushDone, Publish
    <3> QED BY <2>1, <2>2, <3>1 DEF Level!vars, Stored
  <2>3. CASE phase' = "stopped"
    <3>1. phase \notin {"stopped", "complete"}
      BY <1>5, <2>3 DEF Main, FeederIdle, PoolIdle, FlushNext, FlushDone, Publish
    <3>2. Stored = Empty /\ Stored' = Empty
      BY <1>0, <2>3, <3>1, NothingStored
    <3>3. Level!Stop
      BY <2>1, <2>3, <3>1, <3>2 DEF Level!Stop
    <3> QED BY <3>3 DEF Level!Next
  <2>4. CASE phase' = "complete"
    <3>1. phase \notin {"stopped", "complete"}
      BY <1>5, <2>4 DEF Main, FeederIdle, PoolIdle, FlushNext, FlushDone, Publish
    <3>2. Stored' = generated
      BY <2>1, <2>4 DEF LevelInv, CompleteIsWhole
    <3>3. Level!Complete
      BY <2>1, <2>4, <3>1, <3>2 DEF Level!Complete
    <3> QED BY <3>3 DEF Level!Next
  <2> QED BY <2>2, <2>3, <2>4
<1>6. ASSUME NEW p \in Players, PlayerThread(p) PROVE UNCHANGED Level!vars
  <2>1. phase = "eol" /\ UNCHANGED phase
    BY <1>6, PlayerLevelStep
  <2>2. UNCHANGED generated
    BY <1>6 DEF PlayerThread, EolNothing, StartEol, FinishEol, feedVars
  <2> QED BY <1>1, <2>1, <2>2
<1>7. CASE Interrupt \/ Over \/ UNCHANGED vars
  BY <1>2, <1>7 DEF Interrupt, Over, vars, mainVars, feedVars
<1> QED BY <1>3, <1>4, <1>5, <1>6, <1>7 DEF Next

(* The pipeline does what a level promises, as far as safety goes: batches   *)
(* are expanded, and then the store receives, in one step, exactly the       *)
(* boards that were generated, or nothing when the user stops the level; for *)
(* any number of threads, directories, files and boards, unless the user     *)
(* interrupts the end-of-level merge itself.                                 *)
THEOREM PipelineRefinesLevel == Calm => (Spec => Level!Init /\ [][Level!Next]_(Level!vars))
<1> SUFFICES ASSUME Calm PROVE Spec => Level!Init /\ [][Level!Next]_(Level!vars)
  OBVIOUS
<1>1. Init => Level!Init
  BY DEF Init, Level!Init, Level!None, Stored, Empty
<1>2. LevelInv /\ [Next]_vars => LevelInv'
  BY LevelStep
<1>3. LevelInv /\ LevelInv' /\ [Next]_vars => [Level!Next]_(Level!vars)
  BY LevelSimulation
<1> QED BY <1>1, <1>2, <1>3, LevelInit, PTL DEF Spec
=============================================================================
