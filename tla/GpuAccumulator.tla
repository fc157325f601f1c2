--------------------------- MODULE GpuAccumulator ---------------------------
(***************************************************************************)
(* The GPU accumulator: one array filled from both ends by the threads of  *)
(* the expansion kernel, black children from the bottom and white children *)
(* from the top, then sorted, compacted and read back by the merge writer. *)
(*                                                                         *)
(* Arrays are numbered from 0, as in the source. The feeder that calls it  *)
(* is reduced to its protocol: a batch is launched when there is room or   *)
(* just after a reset; a flush is prepare, one read per player, reset.     *)
(***************************************************************************)
EXTENDS Integers, Sequences, FiniteSets, FiniteSetsExt, Functions

CONSTANTS
  Parents,      \* the boards of the level being expanded
  Expansion,    \* per parent: its kind and the children the kernel makes of it
  BatchSize,    \* boards of a full batch
  MaxMoves,     \* moves a board can have at most
  Capacity      \* slots of the accumulator

White == 0
Black == 1
Players == {White, Black}

\* A board's key is its two 64-bit words. A flush makes room for any batch, and no
\* board has more than MaxMoves moves: the sizes GpuInfo.cu and computeState choose
\* for a real device.
ASSUME AccumulatorAssumption ==
  /\ IsFiniteSet(Parents)
  /\ Expansion \in [Parents -> [kind : {"move", "pass", "terminal"},
                               children : Seq([player : Players, key : Int \X Int])]]
  /\ {BatchSize, MaxMoves, Capacity} \subseteq Nat \ {0}
  /\ BatchSize * MaxMoves <= Capacity
  /\ \A b \in Parents :
       /\ Expansion[b].kind = "terminal" <=> Expansion[b].children = <<>>
       /\ Len(Expansion[b].children) <= MaxMoves

Children(b) == Expansion[b].children
Keys == UNION {{c.key : c \in Range(Children(b))} : b \in Parents}
Junk == <<-1, -1>>   \* what a slot holds before the first board
Slots == 0..Capacity - 1

VARIABLES
  unread,        \* parents not yet read from the level's files
  batch,         \* parents read, not yet given to the GPU
  phase,         \* "read", "kernel" or "prepared"
  accum,         \* d_accum
  writePos,      \* d_blackWritePos and d_whiteWritePos
  writeOffset,   \* blackWriteOffset and whiteWriteOffset
  threads,       \* the running kernel: one thread per board of the batch
  batchStats,    \* d_batchStats
  gather,        \* d_gather
  unique,        \* uniqueBlackCount and uniqueWhiteCount
  hostStats,     \* h_batchStats
  received,      \* what the merge writer has read of this flush
  window         \* history: parents launched since the last reset

device == <<accum, writePos, threads, batchStats, gather>>
host == <<writeOffset, unique, hostStats>>
feeder == <<unread, batch, phase, received, window>>
vars == <<device, host, feeder>>

Zeros == [p \in Players |-> 0]
NoStats == [pass |-> 0, terminal |-> 0, maxMoves |-> 0]
Nothing == [p \in Players |-> <<>>]

Init ==
  /\ unread = Parents /\ batch = {} /\ phase = "read"
  /\ accum = [i \in Slots |-> Junk] /\ gather = [i \in Slots |-> Junk]
  /\ writePos = Zeros /\ writeOffset = Zeros /\ unique = Zeros
  /\ threads = <<>> /\ batchStats = NoStats /\ hostStats = NoStats
  /\ received = Nothing /\ window = {}

-----------------------------------------------------------------------------
(* The kernel. A thread owns one board; its children go to the end of the  *)
(* array their player bit names, one atomicAdd and one store each.         *)

\* Mutant: the other player's boards are not counted.
HasRoomPerStack(n) ==
  \A p \in Players : writeOffset[p] + n * MaxMoves <= Capacity
HasRoom(n) ==
  writeOffset[Black] + writeOffset[White] + n * MaxMoves <= Capacity

\* GpuProcessBatch up to the launch: the counters start at the host's offsets.
ProcessBatch ==
  /\ phase = "read" /\ batch # {}
  /\ HasRoom(Cardinality(batch)) \/ window = {}
  /\ writePos' = writeOffset
  /\ threads' = [b \in batch |-> [pc |-> "start", made |-> 0, slot |-> -1]]
  /\ phase' = "kernel" /\ batch' = {} /\ window' = window \cup batch
  /\ UNCHANGED <<host, unread, received, accum, batchStats, gather>>

\* A thread looks at its board: no moves for its player is a pass, none for
\* either is a terminal board and ends the thread.
Look(b) ==
  /\ threads[b].pc = "start"
  /\ LET kind == Expansion[b].kind
     IN  /\ batchStats' = CASE kind = "pass"     -> [batchStats EXCEPT !.pass = @ + 1]
                            [] kind = "terminal" -> [batchStats EXCEPT !.terminal = @ + 1]
                            [] OTHER             -> batchStats
         /\ threads' = [threads EXCEPT ![b].pc = IF kind = "terminal" THEN "done"
                                                                      ELSE "claim"]
  /\ UNCHANGED <<host, feeder, accum, writePos, gather>>

Kid(b) == Children(b)[threads[b].made + 1]

\* atomicAdd on the counter of the child's player.
Claim(b) ==
  /\ threads[b].pc = "claim" /\ threads[b].made < Len(Children(b))
  /\ LET p == Kid(b).player
     IN  /\ threads' = [threads EXCEPT ![b].pc = "store", ![b].slot = writePos[p]]
         /\ writePos' = [writePos EXCEPT ![p] = @ + 1]
  /\ UNCHANGED <<host, feeder, accum, batchStats, gather>>

SlotOf(player, pos) == IF player = Black THEN pos ELSE Capacity - 1 - pos

\* The store; a position beyond the array is dropped.
Store(b) ==
  /\ threads[b].pc = "store"
  /\ accum' = IF threads[b].slot < Capacity
                THEN [accum EXCEPT ![SlotOf(Kid(b).player, threads[b].slot)] = Kid(b).key]
                ELSE accum
  /\ threads' = [threads EXCEPT ![b].pc = "claim", ![b].made = @ + 1]
  /\ UNCHANGED <<host, feeder, writePos, batchStats, gather>>

Larger(m, n) == IF m < n THEN n ELSE m

\* Mutant: atomicAdd for atomicMax.
FinishAdds(b) ==
  /\ threads[b].pc = "claim" /\ threads[b].made = Len(Children(b))
  /\ batchStats' = [batchStats EXCEPT !.maxMoves = @ + threads[b].made]
  /\ threads' = [threads EXCEPT ![b].pc = "done"]
  /\ UNCHANGED <<host, feeder, accum, writePos, gather>>
\* The end of a thread: atomicMax on the number of moves.
Finish(b) ==
  /\ threads[b].pc = "claim" /\ threads[b].made = Len(Children(b))
  /\ batchStats' = [batchStats EXCEPT !.maxMoves = Larger(@, threads[b].made)]
  /\ threads' = [threads EXCEPT ![b].pc = "done"]
  /\ UNCHANGED <<host, feeder, accum, writePos, gather>>

\* GpuProcessBatch after the synchronisation: the counters come back.
BatchDone ==
  /\ phase = "kernel"
  /\ \A b \in DOMAIN threads : threads[b].pc = "done"
  /\ writeOffset' = writePos
  /\ phase' = "read" /\ threads' = <<>>
  /\ UNCHANGED <<unread, batch, received, window, accum, writePos, batchStats, gather,
                 unique, hostStats>>

-----------------------------------------------------------------------------
(* Sorting and compaction of one region of N records. *)

Region(N) == 0..N - 1

\* cub::DeviceRadixSort::SortPairs, a stable sort of vals by keys.
SortPairs(keys, vals, N) ==
  LET rank(i) == Cardinality({j \in Region(N) : \/ keys[j] < keys[i]
                                                \/ keys[j] = keys[i] /\ j < i})
  IN  [r \in Region(N) |-> vals[CHOOSE i \in Region(N) : rank(i) = r]]

\* A sort key read off the region directly, or through a permutation.
ExtractField(base, N, field) == [i \in Region(N) |-> base[i][field]]
GatherField(base, perm, N, field) == [i \in Region(N) |-> base[perm[i]][field]]
InitIndices(N) == [i \in Region(N) |-> i]

\* Mutant: the passes swapped, so the colors decide first.
SortedOrderByColor(base, N) ==
  LET byCells == SortPairs(ExtractField(base, N, 1), InitIndices(N), N)
  IN  SortPairs(GatherField(base, byCells, N, 2), byCells, N)
\* The two passes, colors first; the second reads through the permutation.
SortedOrder(base, N) ==
  LET byColor == SortPairs(ExtractField(base, N, 2), InitIndices(N), N)
  IN  SortPairs(GatherField(base, byColor, N, 1), byColor, N)

MarkDupFlags(base, perm, N) ==
  [i \in Region(N) |-> i > 0 /\ base[perm[i - 1]] = base[perm[i]]]

\* InvertFlagsKernel and cub::DeviceScan::ExclusiveSum: unique records before i.
OutPos(flags, i) == Cardinality({j \in Region(i) : ~flags[j]})

Compact(base, perm, flags, N, out, gatherOffset) ==
  [k \in Slots |->
     IF \E i \in Region(N) : ~flags[i] /\ gatherOffset + OutPos(flags, i) = k
     THEN base[perm[CHOOSE i \in Region(N) : /\ ~flags[i]
                                             /\ gatherOffset + OutPos(flags, i) = k]]
     ELSE out[k]]

SortAndDedupRegion(base, N, out, gatherOffset) ==
  LET perm  == SortedOrder(base, N)
      flags == MarkDupFlags(base, perm, N)
  IN  [out |-> Compact(base, perm, flags, N, out, gatherOffset),
       count |-> OutPos(flags, N)]

Smaller(m, n) == IF m < n THEN m ELSE n

\* GpuFlushPrepare: black region, then white region behind it; the host learns
\* the counts and the statistics.
FlushPrepare ==
  /\ phase = "read" /\ window # {}
  /\ \/ batch # {} /\ ~HasRoom(Cardinality(batch))
     \/ batch = {} /\ unread = {}
  /\ LET B == Smaller(writeOffset[Black], Capacity)
         W == Smaller(writeOffset[White], Capacity - B)
         black == SortAndDedupRegion(accum, B, gather, 0)
         white == SortAndDedupRegion([i \in Region(W) |-> accum[Capacity - W + i]],
                                     W, black.out, black.count)
     IN  /\ gather' = white.out
         /\ unique' = [p \in Players |-> IF p = Black THEN black.count ELSE white.count]
  /\ hostStats' = batchStats
  /\ phase' = "prepared"
  /\ UNCHANGED <<unread, batch, received, window, accum, writePos, threads, batchStats,
                 writeOffset>>

-----------------------------------------------------------------------------
(* Reading back and reset. *)

\* GpuFlushRead: at most maxCount records of one player, from offset on.
Read(player, offset, maxCount) ==
  LET base == IF player = Black THEN 0 ELSE unique[Black]
      got  == Smaller(unique[player] - offset, maxCount)
  IN  [i \in 1..got |-> gather[base + offset + i - 1]]

\* The merge writer reads a player's records in one call, when there are any.
FlushRead(p) ==
  /\ phase = "prepared" /\ unique[p] > 0 /\ received[p] = <<>>
  /\ received' = [received EXCEPT ![p] = Read(p, 0, unique[p])]
  /\ UNCHANGED <<device, host, unread, batch, phase, window>>

\* Mutant: the statistics on the device are not cleared.
FlushResetKeepsStats ==
  /\ phase = "prepared"
  /\ \A p \in Players : Len(received[p]) = unique[p]
  /\ writePos' = Zeros
  /\ writeOffset' = Zeros /\ unique' = Zeros /\ hostStats' = NoStats
  /\ phase' = "read" /\ received' = Nothing /\ window' = {}
  /\ UNCHANGED <<unread, batch, accum, threads, gather, batchStats>>
\* GpuFlushReset, after both reads.
FlushReset ==
  /\ phase = "prepared"
  /\ \A p \in Players : Len(received[p]) = unique[p]
  /\ writePos' = Zeros /\ batchStats' = NoStats
  /\ writeOffset' = Zeros /\ unique' = Zeros /\ hostStats' = NoStats
  /\ phase' = "read" /\ received' = Nothing /\ window' = {}
  /\ UNCHANGED <<unread, batch, accum, threads, gather>>

\* BLFRead of the next batch.
ReadBatch ==
  /\ phase = "read" /\ batch = {}
  /\ \E bs \in SUBSET unread :
       /\ Cardinality(bs) \in 1..BatchSize
       /\ batch' = bs /\ unread' = unread \ bs
  /\ UNCHANGED <<device, host, phase, received, window>>

Next ==
  \/ ReadBatch \/ ProcessBatch \/ BatchDone
  \/ \E b \in DOMAIN threads : Look(b) \/ Claim(b) \/ Store(b) \/ Finish(b)
  \/ FlushPrepare \/ (\E p \in Players : FlushRead(p)) \/ FlushReset

Spec == Init /\ [][Next]_vars

-----------------------------------------------------------------------------
(* Properties. *)

\* The device counters and the offsets the host keeps of them stay within the
\* array; counts and statistics fit the flush.
TypeOK ==
  /\ unread \subseteq Parents /\ batch \subseteq Parents /\ window \subseteq Parents
  /\ phase \in {"read", "kernel", "prepared"}
  /\ accum \in [Slots -> Keys \cup {Junk}] /\ gather \in [Slots -> Keys \cup {Junk}]
  /\ {writePos, writeOffset, unique} \subseteq [Players -> 0..Capacity]
  /\ \A b \in DOMAIN threads :
       /\ threads[b].pc \in {"start", "claim", "store", "done"}
       /\ threads[b].made \in 0..Len(Children(b))
       /\ threads[b].slot \in Slots \cup {-1}
  /\ {batchStats, hostStats} \subseteq
       [pass : Nat, terminal : Nat, maxMoves : 0..MaxMoves]

Writing == {b \in DOMAIN threads : threads[b].pc = "store"}
TargetOf(b) == SlotOf(Kid(b).player, threads[b].slot)

\* Each slot has one writer and no slot holding a board of this flush is written
\* again: the two stacks, neither of which looks at the other (ExpandKernel
\* guards a position only by the capacity), never meet because
\* GpuAccumulatorHasRoom counted the worst case of the batch before it started.
StacksApart ==
  /\ writePos[Black] + writePos[White] <= Capacity
  /\ \A b \in Writing :
       /\ \A c \in Writing \ {b} : TargetOf(b) # TargetOf(c)
       /\ \A p \in Players : \A i \in 0..writeOffset[p] - 1 : TargetOf(b) # SlotOf(p, i)

OfKind(kind) == {b \in window : Expansion[b].kind = kind}

\* A flush reports the passes, the terminal boards and the largest number of
\* moves of exactly the boards expanded since the previous reset, whatever
\* order the threads added to the counters in (d_batchStats, GpuFlushReset).
StatsExact ==
  phase = "prepared" =>
    hostStats = [pass |-> Cardinality(OfKind("pass")),
                 terminal |-> Cardinality(OfKind("terminal")),
                 maxMoves |-> Max({0} \cup {Len(Children(b)) : b \in window})]

KidsOf(S) ==
  [p \in Players |->
     {c.key : c \in {k \in UNION {Range(Children(b)) : b \in S} : k.player = p}}]

AllBatches == {KidsOf(S) : S \in {T \in SUBSET Parents : Cardinality(T) <= BatchSize}}

Stored(p) ==
  LET busy == {threads[b].slot : b \in {c \in Writing : Kid(c).player = p}}
  IN  {accum[SlotOf(p, i)] : i \in (0..Smaller(writePos[p], Capacity) - 1) \ busy}

Pending(p) ==
  UNION {{Children(b)[i].key : i \in {j \in threads[b].made + 1..Len(Children(b)) :
                                        Children(b)[j].player = p}}
          : b \in DOMAIN threads}

\* The accumulator implements a pair of sorted sets: what the merge writer reads
\* back are the children of every batch since the reset, in ascending order and
\* without duplicates, and nothing of an earlier flush (GpuProcessBatch,
\* SortAndDedupRegion, GpuFlushRead, GpuFlushReset).
Abstract == INSTANCE SortedSets WITH
  Batches <- AllBatches,
  wanted <- [p \in Players |-> Stored(p) \cup Pending(p)],
  result <- received

DeliversSortedSets == Abstract!Spec
=============================================================================
