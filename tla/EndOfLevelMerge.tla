-------------------------- MODULE EndOfLevelMerge --------------------------
(***************************************************************************)
(* DoEndOfLevelMerge in detail: two player threads reduce the files a      *)
(* level left on all drives to one store file each, in cascades of at most *)
(* MaxFanin inputs, on drives whose free space is a shared ledger.         *)
(*                                                                         *)
(* A drive is named by its letter and carries one directory. Bytes are     *)
(* counted in records; a file's trailer adds Trailer. How well boards      *)
(* compress is left open: a compressed file may be smaller or larger than  *)
(* the files it is merged from. Ledgers are modelled as DriveLedger.h      *)
(* keeps them: what is left above the safety buffer, or less than nothing. *)
(***************************************************************************)
EXTENDS Integers, Sequences, FiniteSets, FiniteSetsExt, Functions

CONSTANTS
  Levels,       \* input files a level may leave, per player, in the order the
                \* scan finds them: writer, merge and store merge directories
  Rooms,        \* per drive, what the ledgers may say when the merge begins
  TempDrives,   \* sequence: merge drives, then the store drive
  StoreDrive,   \* storeDrive
  MaxFanin,     \* MAX_MERGE_FANIN
  MaxHandles,   \* files the process may hold open besides (_setmaxstdio)
  Trailer,      \* bytes of a trailer
  Packed        \* bytes the records of a compressed file may take

White == "white"
Black == "black"
Players == {White, Black}

Drives == UNION {DOMAIN room : room \in Rooms}

ASSUME EolAssumption ==
  /\ MaxFanin \in Nat /\ MaxFanin >= 2
  /\ MaxHandles \in Nat /\ Trailer \in Nat \ {0} /\ Packed \subseteq Nat
  /\ \A room \in Rooms : room \in [Drives -> Nat]
  /\ StoreDrive \in Drives /\ TempDrives \in Seq(Drives)
  /\ Len(TempDrives) > 0 /\ TempDrives[Len(TempDrives)] = StoreDrive
  /\ \A level \in Levels, p \in Players : level[p] \in Seq(Range(level[p]))
  /\ \A level \in Levels, p \in Players : \A i \in DOMAIN level[p] :
       /\ level[p][i].drive \in Drives /\ level[p][i].packed \in Nat
       /\ level[p][i].boards # {} /\ IsFiniteSet(level[p][i].boards)

\* File names: the level's inputs, cascade_<player>_<n>, and the level's output.
Input(p, i) == [player |-> p, kind |-> "input", idx |-> i]
Temp(p, i) == [player |-> p, kind |-> "temp", idx |-> i]
Store(p) == [player |-> p, kind |-> "store", idx |-> 0]

VARIABLES
  compress,    \* compressMode: "none", "store" (COMPRESS_STORE_ONLY) or "all"
  phase,       \* "reserve", "merge", "done" or "fatal"
  terminate,   \* terminateThreads
  ledger,      \* driveLedger
  limit,       \* history: what the level may put on each drive
  disk,        \* files that exist: drive, boards, bytes and a trailer or none;
               \* history: over, the bytes beyond those granted for the file
  pc,          \* where each player thread is
  inputs,      \* inputPaths, shrinking as they are deleted at the end
  reserved,    \* storeReservation
  early,       \* yInputsPreReclaimed
  stack,       \* calls of CascadingMerge, the innermost last
  probe,       \* the temp drive looked at and the files that fit on it
  queue,       \* KWayMergeFiles: inputs not yet opened,
  readers,     \* inputs open,
  target,      \* and the output's name
  tempCount    \* tempCount

ledgerVars == <<ledger, limit>>
kwayVars == <<queue, readers, target>>
planVars == <<inputs, reserved, early>>
vars == <<compress, phase, terminate, ledgerVars, disk, pc, planVars, stack,
          probe, kwayVars, tempCount>>

Bytes(n) == disk[n].bytes
BytesOf(names) == SumFunctionOnSet([n \in names |-> Bytes(n)], names)
OnDrive(d) == {n \in DOMAIN disk : disk[n].drive = d}
InputNames(level, p) == {Input(p, i) : i \in DOMAIN level[p]}

PlainBytes(boards) == Cardinality(boards) + Trailer

Modes == {"none", "store", "all"}

\* The writers compress the level's files in COMPRESS_ALL only.
InBytes(file) ==
  IF compress = "all" THEN file.packed + Trailer ELSE PlainBytes(file.boards)

Init ==
  /\ compress \in Modes
  /\ phase = "reserve" /\ terminate = FALSE
  /\ ledger \in Rooms
  /\ \E level \in Levels :
       /\ disk = [n \in UNION {InputNames(level, p) : p \in Players} |->
                    LET file == level[n.player][n.idx]
                    IN  [drive |-> file.drive, boards |-> file.boards,
                         bytes |-> InBytes(file), closed |-> TRUE, over |-> 0]]
       /\ inputs = [p \in Players |-> [i \in DOMAIN level[p] |-> Input(p, i)]]
  /\ limit = [d \in Drives |-> ledger[d] + BytesOf(OnDrive(d))]
  /\ pc = [p \in Players |-> "begin"]
  /\ reserved = [p \in Players |-> 0] /\ early = [p \in Players |-> FALSE]
  /\ stack = [p \in Players |-> <<>>]
  /\ probe = [p \in Players |-> [at |-> 1, count |-> 0]]
  /\ queue = [p \in Players |-> <<>>] /\ readers = [p \in Players |-> {}]
  /\ target = [p \in Players |-> Store(p)]
  /\ tempCount = [p \in Players |-> 0]

Goto(p, place) == pc' = [pc EXCEPT ![p] = place]

Depth(p) == Len(stack[p])
Top(p) == stack[p][Depth(p)]
SetTop(p, call) == stack' = [stack EXCEPT ![p][Depth(p)] = call]

-----------------------------------------------------------------------------
(* DriveLedger.h. A reservation succeeds only if the ledger covers it. *)

DriveAvailable(d) == ledger[d]
DriveReserve(d, bytes) ==
  ledger[d] >= bytes /\ ledger' = [ledger EXCEPT ![d] = @ - bytes]
DriveReclaim(d, bytes) == ledger' = [ledger EXCEPT ![d] = @ + bytes]

-----------------------------------------------------------------------------
(* Phase 1b: the main thread alone. The inputs on the store drive are      *)
(* reclaimed before they are deleted, then each player's worst case is     *)
(* reserved there, white first.                                            *)

OnStore(p) == {n \in Range(inputs[p]) : disk[n].drive = StoreDrive}
StoreNeeded(p) == BytesOf(Range(inputs[p]))

ReserveOutputs ==
  LET yBytes == BytesOf(OnStore(White)) + BytesOf(OnStore(Black))
      needed == StoreNeeded(White) + StoreNeeded(Black)
  IN  /\ phase = "reserve"
      /\ IF needed <= ledger[StoreDrive] + yBytes
         THEN /\ ledger' = [ledger EXCEPT ![StoreDrive] = @ + yBytes - needed]
              /\ phase' = "merge"
         ELSE phase' = "fatal" /\ UNCHANGED ledger
      /\ reserved' = [p \in Players |-> StoreNeeded(p)]
      /\ early' = [p \in Players |-> BytesOf(OnStore(p)) > 0]
      /\ UNCHANGED <<compress, terminate, limit, disk, pc, inputs, stack, probe,
                     kwayVars, tempCount>>

-----------------------------------------------------------------------------
(* KWayMergeFiles *)

BeginKWay(p, names, output) ==
  /\ queue' = [queue EXCEPT ![p] = names]
  /\ target' = [target EXCEPT ![p] = output]
  /\ Goto(p, "open")

Writing == {p \in Players : pc[p] = "write"}
OpenFiles == Cardinality(readers[White]) + Cardinality(readers[Black]) + Cardinality(Writing)

\* A reader that cannot be opened is skipped with a warning; one without boards
\* is closed at once.
OpenInput(p) ==
  /\ pc[p] = "open" /\ queue[p] # <<>>
  /\ LET n == Head(queue[p])
     IN  readers' = IF OpenFiles < MaxHandles /\ disk[n].boards # {}
                    THEN [readers EXCEPT ![p] = @ \cup {n}] ELSE readers
  /\ queue' = [queue EXCEPT ![p] = Tail(@)]
  /\ UNCHANGED <<compress, phase, terminate, ledgerVars, disk, pc, planVars,
                 stack, probe, target, tempCount>>

\* The drive of a cascade's temporary is the one the group was granted.
TargetDrive(p) ==
  IF target[p] = Store(p) THEN StoreDrive ELSE TempDrives[probe[p].at]

\* Create or truncate; a writer that cannot be opened ends the program.
CreateOutput(p) ==
  /\ pc[p] = "open" /\ queue[p] = <<>>
  /\ IF OpenFiles < MaxHandles
     THEN /\ disk' = [n \in DOMAIN disk \cup {target[p]} |->
                        IF n = target[p]
                        THEN [drive |-> TargetDrive(p), boards |-> {},
                              bytes |-> 0, closed |-> FALSE, over |-> 0]
                        ELSE disk[n]]
          /\ Goto(p, "write")
          /\ UNCHANGED phase
     ELSE phase' = "fatal" /\ UNCHANGED <<disk, pc>>
  /\ UNCHANGED <<compress, terminate, ledgerVars, planVars, stack, probe,
                 kwayVars, tempCount>>

\* Both modes that compress write the cascade's temporaries and the output
\* compressed, whatever the inputs are.
OutSizes(boards) ==
  IF compress = "none" THEN {PlainBytes(boards)} ELSE {k + Trailer : k \in Packed}

\* What the ledger gave for the output: a nested call's temporary has no ledger.
Granted(p) == IF target[p] = Store(p) THEN reserved[p] ELSE Top(p).granted
Beyond(bytes, grant) == IF bytes > grant THEN bytes - grant ELSE 0
Overrun(p, bytes) ==
  IF target[p] # Store(p) /\ Depth(p) > 1 THEN 0 ELSE Beyond(bytes, Granted(p))

\* The merge of the open readers, cut short by the flag.
WriteOutput(p) ==
  /\ pc[p] = "write"
  /\ \E out \in SUBSET UNION {disk[n].boards : n \in readers[p]} :
       /\ terminate \/ out = UNION {disk[n].boards : n \in readers[p]}
       /\ \E bytes \in OutSizes(out) :
            disk' = [disk EXCEPT ![target[p]] =
                       [@ EXCEPT !.boards = out, !.bytes = bytes, !.closed = TRUE,
                                 !.over = Overrun(p, bytes)]]
  /\ readers' = [readers EXCEPT ![p] = {}]
  /\ Goto(p, IF target[p].kind = "temp" THEN "temp"
             ELSE IF stack[p] = <<>> THEN "single" ELSE "unwind")
  /\ UNCHANGED <<compress, phase, terminate, ledgerVars, planVars, stack, probe,
                 queue, target, tempCount>>

-----------------------------------------------------------------------------
(* mergePlayer: no file, one file, several files. *)

NoFiles(p) ==
  /\ phase = "merge" /\ pc[p] = "begin" /\ inputs[p] = <<>>
  /\ Goto(p, "done")
  /\ UNCHANGED <<compress, phase, terminate, ledgerVars, disk, planVars, stack,
                 probe, kwayVars, tempCount>>

\* MoveFileEx renames the only file, across drives if need be.
MoveSingle(p) ==
  /\ phase = "merge" /\ pc[p] = "begin" /\ Len(inputs[p]) = 1 /\ compress = "none"
  /\ LET only == inputs[p][1]
     IN  disk' = [n \in (DOMAIN disk \ {only}) \cup {Store(p)} |->
                    IF n = Store(p) THEN [disk[only] EXCEPT !.drive = StoreDrive]
                                    ELSE disk[n]]
  /\ ledger' = LET n == inputs[p][1]
                   back == [ledger EXCEPT ![StoreDrive] = @ + reserved[p] - Bytes(n)]
               IN  IF early[p] THEN back
                   ELSE [back EXCEPT ![disk[n].drive] = @ + Bytes(n)]
  /\ reserved' = [reserved EXCEPT ![p] = 0]
  /\ inputs' = [inputs EXCEPT ![p] = <<>>]
  /\ Goto(p, "done")
  /\ UNCHANGED <<compress, phase, terminate, limit, early, stack, probe, kwayVars,
                 tempCount>>

RecompressSingle(p) ==
  /\ phase = "merge" /\ pc[p] = "begin" /\ Len(inputs[p]) = 1 /\ compress # "none"
  /\ BeginKWay(p, inputs[p], Store(p))
  /\ UNCHANGED <<compress, phase, terminate, ledgerVars, disk, planVars, stack,
                 probe, readers, tempCount>>

\* The input is deleted, then both reclaims.
FinishSingle(p) ==
  /\ pc[p] = "single"
  /\ LET only == inputs[p][1]
         back == [ledger EXCEPT ![StoreDrive] = @ + reserved[p] - Bytes(Store(p))]
     IN  /\ disk' = Restrict(disk, DOMAIN disk \ {only})
         /\ ledger' = IF early[p] THEN back
                      ELSE [back EXCEPT ![disk[only].drive] = @ + Bytes(only)]
  /\ reserved' = [reserved EXCEPT ![p] = 0]
  /\ inputs' = [inputs EXCEPT ![p] = <<>>]
  /\ Goto(p, "done")
  /\ UNCHANGED <<compress, phase, terminate, limit, early, stack, probe, kwayVars,
                 tempCount>>

Call(names) == [ins |-> names, pos |-> 0, temps |-> <<>>, granted |-> 0]

MergeSeveral(p) ==
  /\ phase = "merge" /\ pc[p] = "begin" /\ Len(inputs[p]) > 1
  /\ stack' = [stack EXCEPT ![p] = <<Call(inputs[p])>>]
  /\ Goto(p, "cascade")
  /\ UNCHANGED <<compress, phase, terminate, ledgerVars, disk, planVars, probe,
                 kwayVars, tempCount>>

-----------------------------------------------------------------------------
(* CascadingMerge. Only the outermost call has a context, hence a ledger.  *)

Smaller(a, b) == IF a < b THEN a ELSE b
Window(p) == Smaller(MaxFanin, Len(Top(p).ins) - Top(p).pos)
Group(p, count) == SubSeq(Top(p).ins, Top(p).pos + 1, Top(p).pos + count)
GroupBytes(p, count) == BytesOf(Range(Group(p, count)))

\* Few enough inputs: straight to the store file.
Direct(p) ==
  /\ pc[p] = "cascade" /\ Len(Top(p).ins) <= MaxFanin
  /\ BeginKWay(p, Top(p).ins, Store(p))
  /\ UNCHANGED <<compress, phase, terminate, ledgerVars, disk, planVars, stack,
                 probe, readers, tempCount>>

MoreGroups(p) ==
  /\ pc[p] = "cascade" /\ Len(Top(p).ins) > MaxFanin
  /\ Top(p).pos < Len(Top(p).ins) /\ ~terminate

NextGroup(p) ==
  /\ MoreGroups(p) /\ Depth(p) = 1
  /\ probe' = [probe EXCEPT ![p] = [at |-> 1, count |-> 0]]
  /\ Goto(p, "probe")
  /\ UNCHANGED <<compress, phase, terminate, ledgerVars, disk, planVars, stack,
                 kwayVars, tempCount>>

\* How many of the next files fit on this drive right now.
Fitting(p, d) ==
  Max({0} \cup {k \in 1..Window(p) : GroupBytes(p, k) <= DriveAvailable(d)})

TryNextDrivePastLast(p) ==
  IF probe[p].at <= Len(TempDrives)
  THEN /\ probe' = [probe EXCEPT ![p] = [at |-> @.at + 1, count |-> 0]]
       /\ Goto(p, "probe") /\ UNCHANGED phase
  ELSE phase' = "fatal" /\ UNCHANGED <<probe, pc>>
\* The next drive, or no drive has room for even one file.
TryNextDrive(p) ==
  IF probe[p].at < Len(TempDrives)
  THEN /\ probe' = [probe EXCEPT ![p] = [at |-> @.at + 1, count |-> 0]]
       /\ Goto(p, "probe") /\ UNCHANGED phase
  ELSE phase' = "fatal" /\ UNCHANGED <<probe, pc>>

Probe(p) ==
  /\ pc[p] = "probe"
  /\ LET count == Fitting(p, TempDrives[probe[p].at])
     IN  IF count = 0 THEN TryNextDrive(p)
         ELSE /\ probe' = [probe EXCEPT ![p].count = count]
              /\ Goto(p, "claim") /\ UNCHANGED phase
  /\ UNCHANGED <<compress, terminate, ledgerVars, disk, planVars, stack,
                 kwayVars, tempCount>>

BeginTemp(p, count) ==
  /\ BeginKWay(p, Group(p, count), Temp(p, tempCount[p]))
  /\ tempCount' = [tempCount EXCEPT ![p] = @ + 1]

ClaimUnchecked(p) ==
  /\ pc[p] = "claim"
  /\ LET d == TempDrives[probe[p].at]
         bytes == GroupBytes(p, probe[p].count)
     IN  /\ ledger' = [ledger EXCEPT ![d] = @ - bytes]
         /\ SetTop(p, [Top(p) EXCEPT !.granted = bytes])
         /\ BeginTemp(p, probe[p].count)
         /\ UNCHANGED <<phase, probe>>
  /\ UNCHANGED <<compress, terminate, limit, disk, planVars, readers>>
\* The other player may have taken the room in between: then the next drive.
Claim(p) ==
  /\ pc[p] = "claim"
  /\ LET d == TempDrives[probe[p].at]
         bytes == GroupBytes(p, probe[p].count)
     IN  \/ /\ DriveReserve(d, bytes)
            /\ SetTop(p, [Top(p) EXCEPT !.granted = bytes])
            /\ BeginTemp(p, probe[p].count)
            /\ UNCHANGED <<phase, probe>>
         \/ /\ ledger[d] < bytes
            /\ TryNextDrive(p)
            /\ UNCHANGED <<ledger, stack, queue, target, tempCount>>
  /\ UNCHANGED <<compress, terminate, limit, disk, planVars, readers>>

\* A nested call takes a full window to the first drive and reserves nothing.
NestedGroup(p) ==
  /\ MoreGroups(p) /\ Depth(p) > 1
  /\ probe' = [probe EXCEPT ![p] = [at |-> 1, count |-> Window(p)]]
  /\ BeginTemp(p, Window(p))
  /\ UNCHANGED <<compress, phase, terminate, ledgerVars, disk, planVars, stack,
                 readers>>

FinishTempSkips(p) ==
  /\ pc[p] = "temp"
  /\ IF Depth(p) = 1
     THEN DriveReclaim(TempDrives[probe[p].at], Top(p).granted - Bytes(target[p]))
     ELSE UNCHANGED ledger
  /\ SetTop(p, [Top(p) EXCEPT !.pos = @ + Window(p),
                              !.temps = Append(@, target[p]),
                              !.granted = 0])
  /\ Goto(p, "cascade")
  /\ UNCHANGED <<compress, phase, terminate, limit, disk, planVars, probe,
                 kwayVars, tempCount>>
\* What the group did not need goes back to the ledger.
FinishTemp(p) ==
  /\ pc[p] = "temp"
  /\ IF Depth(p) = 1
     THEN DriveReclaim(TempDrives[probe[p].at], Top(p).granted - Bytes(target[p]))
     ELSE UNCHANGED ledger
  /\ SetTop(p, [Top(p) EXCEPT !.pos = @ + probe[p].count,
                              !.temps = Append(@, target[p]),
                              !.granted = 0])
  /\ Goto(p, "cascade")
  /\ UNCHANGED <<compress, phase, terminate, limit, disk, planVars, probe,
                 kwayVars, tempCount>>

\* All groups are written: merge the temporaries, in the same way.
Descend(p) ==
  /\ pc[p] = "cascade" /\ Len(Top(p).ins) > MaxFanin
  /\ Top(p).pos = Len(Top(p).ins) \/ terminate
  /\ stack' = [stack EXCEPT ![p] = Append(@, Call(Top(p).temps))]
  /\ UNCHANGED <<compress, phase, terminate, ledgerVars, disk, pc, planVars,
                 probe, kwayVars, tempCount>>

\* The calls return innermost first, each through with its temporaries: at the
\* outermost one reclaim, then delete.
Return(p) ==
  /\ pc[p] = "unwind" /\ Top(p).temps = <<>>
  /\ stack' = [stack EXCEPT ![p] = SubSeq(@, 1, Len(@) - 1)]
  /\ Goto(p, IF Depth(p) = 1 THEN "settle" ELSE "unwind")
  /\ UNCHANGED <<compress, phase, terminate, ledgerVars, disk, planVars, probe,
                 kwayVars, tempCount>>

ReclaimTemp(p) ==
  /\ pc[p] = "unwind" /\ Top(p).temps # <<>>
  /\ LET n == Head(Top(p).temps)
     IN  IF Depth(p) = 1 THEN DriveReclaim(disk[n].drive, Bytes(n)) ELSE UNCHANGED ledger
  /\ Goto(p, "deleteTemp")
  /\ UNCHANGED <<compress, phase, terminate, limit, disk, planVars, stack, probe,
                 kwayVars, tempCount>>

DeleteTemp(p) ==
  /\ pc[p] = "deleteTemp"
  /\ disk' = Restrict(disk, DOMAIN disk \ {Head(Top(p).temps)})
  /\ SetTop(p, [Top(p) EXCEPT !.temps = Tail(@)])
  /\ Goto(p, "unwind")
  /\ UNCHANGED <<compress, phase, terminate, ledgerVars, planVars, probe,
                 kwayVars, tempCount>>

-----------------------------------------------------------------------------
(* mergePlayer, after the cascade: the overestimate and the inputs.        *)

\* An uncompressed output without boards counts no trailer.
Uncounted(p) == compress = "none" /\ disk[Store(p)].boards = {}
Counted(p) == IF Uncounted(p) THEN 0 ELSE Bytes(Store(p))

Settle(p) ==
  /\ pc[p] = "settle"
  /\ DriveReclaim(StoreDrive, reserved[p] - Counted(p))
  /\ reserved' = [reserved EXCEPT ![p] = 0]
  /\ Goto(p, "inputs")
  /\ UNCHANGED <<compress, phase, terminate, limit, disk, inputs, early, stack,
                 probe, kwayVars, tempCount>>

ReclaimInputTwice(p) ==
  /\ pc[p] = "inputs" /\ inputs[p] # <<>>
  /\ LET n == Head(inputs[p]) IN DriveReclaim(disk[n].drive, Bytes(n))
  /\ Goto(p, "deleteInput")
  /\ UNCHANGED <<compress, phase, terminate, limit, disk, planVars, stack, probe,
                 kwayVars, tempCount>>
ReclaimInput(p) ==
  /\ pc[p] = "inputs" /\ inputs[p] # <<>>
  /\ LET n == Head(inputs[p])
     IN  IF early[p] /\ disk[n].drive = StoreDrive THEN UNCHANGED ledger
         ELSE DriveReclaim(disk[n].drive, Bytes(n))
  /\ Goto(p, "deleteInput")
  /\ UNCHANGED <<compress, phase, terminate, limit, disk, planVars, stack, probe,
                 kwayVars, tempCount>>

DeleteInput(p) ==
  /\ pc[p] = "deleteInput"
  /\ disk' = Restrict(disk, DOMAIN disk \ {Head(inputs[p])})
  /\ inputs' = [inputs EXCEPT ![p] = Tail(@)]
  /\ Goto(p, "inputs")
  /\ UNCHANGED <<compress, phase, terminate, ledgerVars, reserved, early, stack,
                 probe, kwayVars, tempCount>>

FinishPlayer(p) ==
  /\ pc[p] = "inputs" /\ inputs[p] = <<>>
  /\ Goto(p, "done")
  /\ UNCHANGED <<compress, phase, terminate, ledgerVars, disk, planVars, stack,
                 probe, kwayVars, tempCount>>

JoinThreads ==
  /\ phase = "merge" /\ \A p \in Players : pc[p] = "done"
  /\ phase' = "done"
  /\ UNCHANGED <<compress, terminate, ledgerVars, disk, pc, planVars, stack,
                 probe, kwayVars, tempCount>>

\* Ctrl+C while the player threads run.
Interrupt ==
  /\ phase = "merge" /\ ~terminate
  /\ terminate' = TRUE
  /\ UNCHANGED <<compress, phase, ledgerVars, disk, pc, planVars, stack, probe,
                 kwayVars, tempCount>>

-----------------------------------------------------------------------------

KWayMergeFiles(p) == OpenInput(p) \/ CreateOutput(p) \/ WriteOutput(p)

CascadingMerge(p) ==
  \/ Direct(p) \/ NextGroup(p) \/ Probe(p) \/ Claim(p) \/ NestedGroup(p)
  \/ FinishTemp(p) \/ Descend(p) \/ Return(p) \/ ReclaimTemp(p) \/ DeleteTemp(p)

mergePlayer(p) ==
  \/ NoFiles(p) \/ MoveSingle(p) \/ RecompressSingle(p) \/ FinishSingle(p)
  \/ MergeSeveral(p) \/ Settle(p) \/ ReclaimInput(p) \/ DeleteInput(p)
  \/ FinishPlayer(p)

Over == phase \in {"done", "fatal"} /\ UNCHANGED vars

\* A fatal error in either thread ends the process.
Next ==
  \/ ReserveOutputs
  \/ \E p \in Players :
       phase = "merge" /\ (mergePlayer(p) \/ CascadingMerge(p) \/ KWayMergeFiles(p))
  \/ JoinThreads
  \/ Interrupt
  \/ Over

Spec == Init /\ [][Next]_vars

-----------------------------------------------------------------------------
(* Properties *)

Places == {"begin", "cascade", "probe", "claim", "open", "write", "temp", "single",
           "unwind", "deleteTemp", "settle", "inputs", "deleteInput", "done"}

\* Each variable keeps to its values, and a cascade never looks past its last
\* drive. A ledger may be overdrawn: see OvershootBounded.
TypeOK ==
  /\ compress \in Modes /\ terminate \in BOOLEAN
  /\ phase \in {"reserve", "merge", "done", "fatal"}
  /\ ledger \in [Drives -> Int] /\ limit \in [Drives -> Nat]
  /\ \A n \in DOMAIN disk :
       /\ disk[n].drive \in Drives /\ disk[n].closed \in BOOLEAN
       /\ disk[n].bytes \in Nat /\ disk[n].over \in Nat
  /\ pc \in [Players -> Places]
  /\ reserved \in [Players -> Nat] /\ early \in [Players -> BOOLEAN]
  /\ \A p \in Players : probe[p].at \in DOMAIN TempDrives

\* Files on drive d that no ledger knows of: inputs of the store drive that were
\* reclaimed ahead, the files of nested calls, a file about to be deleted, and an
\* output without boards, whose trailer is not counted.
Unledgered(d) ==
  UNION {{n \in OnDrive(d) :
            /\ n.player = p
            /\ \/ n.kind = "input" /\ d = StoreDrive
               \/ n.kind = "temp" /\ stack[p] # <<>> /\ \A call \in {stack[p][1]} :
                    /\ n \notin Range(call.temps)
                    /\ Depth(p) > 1
               \/ n = Store(p) /\ Uncounted(p)
               \/ pc[p] = "deleteTemp" /\ n = Head(Top(p).temps)
               \/ pc[p] = "deleteInput" /\ n = Head(inputs[p])} : p \in Players}

\* By how much the files on drive d outgrew the bytes granted for them.
OverOn(d) == SumFunctionOnSet([n \in OnDrive(d) |-> disk[n].over], OnDrive(d))

\* What a drive holds above its limit is at most the files no ledger knows of and
\* what compressed files outgrew their grants by, and the latter is all that a
\* ledger is ever overdrawn by: every other byte was free when it was granted,
\* whichever player wrote it and in whatever order the two threads look, reserve,
\* write, reclaim and delete. Without compression no file outgrows its grant.
OvershootBounded ==
  \A d \in Drives :
    /\ BytesOf(OnDrive(d)) <= limit[d] + BytesOf(Unledgered(d)) + OverOn(d)
    /\ ledger[d] >= 0 - OverOn(d)
    /\ compress = "none" => OverOn(d) = 0

\* When both threads are joined, only the two outputs are left of the level, and
\* what each ledger lost is what is on its drive (a trailer without boards aside),
\* with or without an interrupt.
LedgerSettles ==
  phase = "done" =>
    /\ DOMAIN disk \subseteq {Store(p) : p \in Players}
    /\ \A d \in Drives :
         ledger[d] = limit[d] - SumFunctionOnSet([p \in Players |-> Counted(p)],
                                                 {p \in Players : Store(p) \in OnDrive(d)})

\* Boards of player p in complete files.
OnDisk(p) == UNION {disk[n].boards : n \in {m \in DOMAIN disk : m.player = p /\ disk[m].closed}}

\* Without an interrupt no step of the merge loses a board or brings one in: the
\* cascade's temporaries never overwrite each other and an input is deleted only
\* when its boards are in a complete file downstream.
NoBoardLost ==
  [][~terminate => \A p \in Players : OnDisk(p)' = OnDisk(p)]_vars
=============================================================================
