----------------------- MODULE EndOfLevelMergeProofs -----------------------
(***************************************************************************)
(* The end-of-level merge for every number of files, drives and boards and *)
(* every fan-in, however well files compress: the books balance when the   *)
(* threads are joined, no drive is overshot and no ledger overdrawn by     *)
(* more than outputs outgrew their grants, and no board is lost.           *)
(***************************************************************************)
EXTENDS EndOfLevelMerge, SumProofs, SequenceTheorems

(* A player's thread touches its own files only: everything but the books  *)
(* is said player by player.                                               *)
Own(p) == {n \in DOMAIN disk : n.player = p}
BoardsOf(names) == UNION {disk[n].boards : n \in names}

Names == [player : Players, kind : {"input", "temp", "store"}, idx : Nat]
Boards == UNION {UNION {UNION {level[p][i].boards : i \in DOMAIN level[p]} :
                          p \in Players} : level \in Levels}
Files == [drive : Drives, boards : SUBSET Boards, bytes : Nat, closed : BOOLEAN,
          over : Nat]
Calls == [ins : Seq(Names), pos : Nat, temps : Seq(Names), granted : Nat]
Probes == [at : 1..Len(TempDrives), count : Nat]

(* No name is twice in a list.                                             *)
Once(s) == \A i, j \in DOMAIN s : s[i] = s[j] => i = j

Lists ==
  /\ inputs \in [Players -> Seq(Names)] /\ stack \in [Players -> Seq(Calls)]
  /\ probe \in [Players -> Probes] /\ queue \in [Players -> Seq(Names)]
  /\ readers \in [Players -> SUBSET Names] /\ target \in [Players -> Names]
  /\ tempCount \in [Players -> Nat] /\ DOMAIN disk \subseteq Names

(* What a file holds. Without compression an input takes its records and   *)
(* a trailer.                                                              *)
FileOK(n) ==
  /\ disk[n] \in Files /\ IsFiniteSet(disk[n].boards)
  /\ disk[n].over <= Bytes(n)
  /\ n.kind = "input" =>
       /\ disk[n].boards # {} /\ Trailer <= Bytes(n)
       /\ compress = "none" => Bytes(n) = PlainBytes(disk[n].boards)
  /\ n.kind = "store" => n.idx = 0 /\ disk[n].drive = StoreDrive

FilesOK(p) == IsFiniteSet(Own(p)) /\ \A n \in Own(p) : FileOK(n)

InputsOK(p) == Once(inputs[p]) /\ Range(inputs[p]) = {n \in Own(p) : n.kind = "input"}

(* Merging a group into a temporary, on the drive that was granted.        *)
MakingTemp(p) == pc[p] \in {"open", "write", "temp"} /\ target[p].kind = "temp"
Started(p) == IF MakingTemp(p) /\ pc[p] # "open" THEN {target[p]} ELSE {}
TempsOf(p) == UNION {Range(stack[p][k].temps) : k \in 1..Depth(p)}

CallOK(p, k) ==
  LET call == stack[p][k]
  IN  /\ Once(call.temps)
      /\ \A n \in Range(call.temps) : n \in Own(p) /\ n.kind = "temp" /\ n.idx < tempCount[p]
      /\ call.ins = IF k = 1 THEN inputs[p] ELSE stack[p][k - 1].temps
      /\ call.pos <= Len(call.ins)
      /\ k > 1 => call.granted = 0

(* The calls of CascadingMerge pass their temporaries on and share none;   *)
(* there is no other temporary but the one being made.                     *)
CallsOK(p) ==
  /\ \A k \in 1..Depth(p) : CallOK(p, k)
  /\ \A k, l \in 1..Depth(p) : k # l => Range(stack[p][k].temps) \cap Range(stack[p][l].temps) = {}
  /\ {n \in Own(p) : n.kind = "temp"} = TempsOf(p) \cup Started(p)

Settled(p) == pc[p] \in {"inputs", "deleteInput", "done"}
Alone == {"begin", "single", "settle", "inputs", "deleteInput", "done"}
Within == {"cascade", "probe", "claim", "temp", "unwind", "deleteTemp"}
Output(p) == \/ pc[p] \in {"single", "unwind", "deleteTemp", "settle", "inputs", "deleteInput"}
             \/ pc[p] = "write" /\ target[p] = Store(p)

(* Where the thread is says which lists and files there are.               *)
PlaceOK(p) ==
  /\ pc[p] \in Alone => stack[p] = <<>>
  /\ pc[p] \in Within => stack[p] # <<>>
  /\ stack[p] # <<>> => Len(inputs[p]) >= 2
  /\ pc[p] = "single" => Len(inputs[p]) = 1 /\ compress # "none"
  /\ pc[p] = "settle" => Len(inputs[p]) >= 2
  /\ pc[p] \in {"open", "write"} /\ stack[p] = <<>> => Len(inputs[p]) = 1 /\ compress # "none" /\ target[p] = Store(p)
  /\ pc[p] \in {"open", "write"} => target[p] = Store(p) \/ target[p].kind = "temp"
  /\ pc[p] = "temp" => target[p].kind = "temp"
  /\ pc[p] \in {"probe", "claim"} => Depth(p) = 1
  /\ pc[p] = "deleteTemp" => Top(p).temps # <<>>
  /\ pc[p] = "deleteInput" => inputs[p] # <<>>
  /\ pc[p] = "done" => inputs[p] = <<>>
  /\ pc[p] # "done" => (Output(p) <=> Store(p) \in Own(p))
  /\ pc[p] \in {"open", "write"} => /\ Range(queue[p]) \cup readers[p] \subseteq Own(p) \ {target[p]}
                                    /\ IsFiniteSet(readers[p])
  /\ pc[p] \notin {"open", "write"} => readers[p] = {}
  /\ MakingTemp(p) => /\ target[p].player = p /\ target[p].idx < tempCount[p]
                      /\ target[p] \notin TempsOf(p)
                      /\ target[p] \in Own(p) <=> pc[p] # "open"
                      /\ Top(p).pos + probe[p].count <= Len(Top(p).ins)
  /\ pc[p] = "claim" => probe[p].count \in 1..Window(p)

(* What the outermost call was granted covers the temporary being made, or *)
(* all of it but what it is over; without compression the former.          *)
GrantOK(p) ==
  /\ stack[p] # <<>> /\ ~(Depth(p) = 1 /\ MakingTemp(p)) => stack[p][1].granted = 0
  /\ Depth(p) = 1 /\ MakingTemp(p) =>
       /\ compress = "none" /\ pc[p] \in {"open", "write"} =>
            Cardinality(BoardsOf(Range(queue[p]) \cup readers[p])) + Trailer <= stack[p][1].granted
       /\ pc[p] \in {"write", "temp"} =>
            /\ Bytes(target[p]) <= stack[p][1].granted + disk[target[p]].over
            /\ disk[target[p]].drive = TempDrives[probe[p].at]

PlayerOK(p) ==
  /\ FilesOK(p) /\ InputsOK(p) /\ CallsOK(p) /\ PlaceOK(p) /\ GrantOK(p)

(* The worst case of a player's output was set aside: all of it if it is   *)
(* not compressed, all but what it is over if it is.                       *)
ReservedOK(p) ==
  /\ Settled(p) \/ inputs[p] = <<>> => reserved[p] = 0
  /\ compress = "none" => \A n \in Own(p) : disk[n].over = 0
  /\ ~Settled(p) /\ Store(p) \in Own(p) => Bytes(Store(p)) <= reserved[p] + disk[Store(p)].over
  /\ compress = "none" /\ ~Settled(p) /\ inputs[p] # <<>> =>
       Cardinality(BoardsOf(Own(p))) + Trailer <= reserved[p]
  /\ ~early[p] => \A n \in Own(p) : n.kind = "input" => disk[n].drive # StoreDrive
  /\ early[p] /\ ~Settled(p) => \E n \in Own(p) : n.kind = "input" /\ disk[n].drive = StoreDrive

(* What the ledger of drive d is short of on account of player p: the      *)
(* reservation or the output, the grant, and the files whose deletion will *)
(* be booked.                                                              *)
Going(p) == IF pc[p] = "deleteInput" THEN {Head(inputs[p])}
            ELSE IF pc[p] = "deleteTemp" THEN {Head(Top(p).temps)} ELSE {}
OuterTemps(p) == IF stack[p] = <<>> THEN {} ELSE Range(stack[p][1].temps)
Booked(p, d) ==
  {n \in Own(p) : /\ disk[n].drive = d /\ n \notin Going(p)
                  /\ \/ n.kind = "input" /\ ~(early[p] /\ d = StoreDrive)
                     \/ n \in OuterTemps(p)}
StoreCharge(p) ==
  reserved[p] + IF Settled(p) /\ Store(p) \in DOMAIN disk THEN Counted(p) ELSE 0
Grant(p) == IF stack[p] = <<>> THEN 0 ELSE stack[p][1].granted
Charge(p, d) ==
  BytesOf(Booked(p, d)) + (IF d = StoreDrive THEN StoreCharge(p) ELSE 0)
    + (IF d = TempDrives[probe[p].at] THEN Grant(p) ELSE 0)

(* The same had no file outgrown its grant: what the player ever asked of  *)
(* the ledger and was given.                                               *)
Nets == [n \in DOMAIN disk |-> [bytes |-> disk[n].bytes - disk[n].over]]
NetOf(names) == SumFunctionOnSet([n \in names |-> Nets[n].bytes], names)
NetStore(p) ==
  reserved[p] + IF Settled(p) /\ Store(p) \in DOMAIN disk /\ ~Uncounted(p)
                THEN Bytes(Store(p)) - disk[Store(p)].over ELSE 0
Net(p, d) ==
  NetOf(Booked(p, d)) + (IF d = StoreDrive THEN NetStore(p) ELSE 0)
    + (IF d = TempDrives[probe[p].at] THEN Grant(p) ELSE 0)

Untouched ==
  /\ \A d \in Drives : ledger[d] + BytesOf(OnDrive(d)) = limit[d] /\ ledger[d] >= 0
  /\ \A n \in DOMAIN disk : disk[n].over = 0
Balanced ==
  /\ \A p \in Players : ReservedOK(p)
  /\ \A d \in Drives : ledger[d] + Charge(White, d) + Charge(Black, d) = limit[d]
  /\ \A d \in Drives : Net(White, d) + Net(Black, d) <= limit[d]

Books == IF phase = "reserve" THEN Untouched
         ELSE Balanced \/ (phase = "fatal" /\ Untouched)

EolInv ==
  /\ TypeOK /\ Lists /\ Books /\ (phase = "reserve" => \A p \in Players : pc[p] = "begin")
  /\ (phase = "done" => \A p \in Players : pc[p] = "done")
  /\ \A p \in Players : PlayerOK(p)

----------------------------------------------------------------------------
(* The constants and the names.                                            *)
LEMMA Consts ==
  /\ Trailer \in Nat /\ StoreDrive \in Drives
  /\ Len(TempDrives) \in Nat /\ Len(TempDrives) > 0
  /\ DOMAIN TempDrives = 1..Len(TempDrives)
  /\ \A i \in 1..Len(TempDrives) : TempDrives[i] \in Drives
BY EolAssumption, ElementOfSeq, LenProperties

(* At least two files are merged at a time.                                *)
LEMMA Fanin == MaxFanin \in Nat /\ MaxFanin >= 2
BY EolAssumption

(* There are two players.                                                  *)
LEMMA TwoPlayers ==
  /\ White \in Players /\ Black \in Players /\ White # Black
  /\ \A p \in Players : p = White \/ p = Black
BY DEF Players, White, Black

(* A file's name says whose it is, its kind and its number.                *)
LEMMA NameFacts ==
  /\ \A p \in Players : /\ Store(p) \in Names /\ Store(p).player = p
                        /\ Store(p).kind = "store" /\ Store(p).idx = 0
  /\ \A p \in Players, i \in Nat :
       /\ Temp(p, i) \in Names /\ Temp(p, i).player = p /\ Temp(p, i).kind = "temp"
       /\ Temp(p, i).idx = i
       /\ Input(p, i) \in Names /\ Input(p, i).player = p /\ Input(p, i).kind = "input"
       /\ Input(p, i).idx = i
  /\ \A n \in Names : /\ n.player \in Players /\ n.idx \in Nat
                      /\ n.kind \in {"input", "temp", "store"}
                      /\ n.kind = "store" /\ n.idx = 0 => n = Store(n.player)
BY DEF Names, Store, Temp, Input

(* The sizes of the files S of a directory f.                              *)
FileSum(f, S) == SumFunctionOnSet([n \in S |-> f[n].bytes], S)

(* The sizes of some of the files are a sum over all of them.              *)
LEMMA FileSumIs ==
  ASSUME NEW f, NEW S, IsFiniteSet(S), NEW T \in SUBSET S
  PROVE  FileSum(f, T) = Sum([n \in S |-> f[n].bytes], T)
<1>1. IsFiniteSet(T)
  BY FS_Subset
<1>2. Sum([n \in T |-> f[n].bytes], T) = Sum([n \in S |-> f[n].bytes], T)
  BY <1>1, SumSame
<1> QED BY <1>2 DEF FileSum, Sum

(* No file takes no room.                                                  *)
LEMMA FileSumEmpty == \A f : FileSum(f, {}) = 0
BY SumEmpty DEF FileSum, Sum

(* Sizes add up to a size; files that go take theirs along.                *)
LEMMA FileSumRemove ==
  ASSUME NEW f, NEW S, IsFiniteSet(S), \A n \in S : f[n].bytes \in Nat
  PROVE  /\ FileSum(f, S) \in Nat
         /\ \A n \in S : FileSum(f, S) = f[n].bytes + FileSum(f, S \ {n})
         /\ \A n \in S : FileSum(f, S \ {n}) \in Nat
<1> DEFINE e == [n \in S |-> f[n].bytes]
<1>1. \A T \in SUBSET S : FileSum(f, T) = Sum(e, T)
  BY FileSumIs
<1>2. \A T \in SUBSET S : Sum(e, T) \in Nat
  <2>1. ASSUME NEW T \in SUBSET S PROVE Sum(e, T) \in Nat
    <3>1. IsFiniteSet(T) /\ \A n \in T : e[n] \in Nat
      BY FS_Subset
    <3> QED BY <3>1, SumIsNat
  <2> QED BY <2>1
<1>3. \A n \in S : Sum(e, S) = e[n] + Sum(e, S \ {n})
  <2>1. \A n \in S : e[n] \in Int
    OBVIOUS
  <2> HIDE DEF e
  <2> QED BY <2>1, SumRemove
<1> QED BY <1>1, <1>2, <1>3

(* One more file adds its size.                                            *)
LEMMA FileSumAdd ==
  ASSUME NEW f, NEW S, IsFiniteSet(S), NEW n, n \notin S,
         \A m \in S \cup {n} : f[m].bytes \in Nat
  PROVE  FileSum(f, S \cup {n}) = FileSum(f, S) + f[n].bytes
<1>1. IsFiniteSet(S \cup {n})
  BY FS_AddElement
<1>2. FileSum(f, S \cup {n}) = f[n].bytes + FileSum(f, (S \cup {n}) \ {n})
  BY <1>1, FileSumRemove
<1>3. (S \cup {n}) \ {n} = S /\ FileSum(f, S) \in Nat
  BY FileSumRemove
<1>4. FileSum(f, (S \cup {n}) \ {n}) = FileSum(f, S)
  BY <1>3
<1>5. f[n].bytes \in Nat
  OBVIOUS
<1> QED BY <1>2, <1>3, <1>4, <1>5

(* Files of the same sizes take the same room.                             *)
LEMMA FileSumSame ==
  ASSUME NEW f, NEW g, NEW S, IsFiniteSet(S), \A n \in S : f[n].bytes = g[n].bytes
  PROVE  FileSum(f, S) = FileSum(g, S)
<1>1. [n \in S |-> f[n].bytes] = [n \in S |-> g[n].bytes]
  OBVIOUS
<1> QED BY <1>1 DEF FileSum

(* Some of the files take no more than all of them.                        *)
LEMMA FileSumPart ==
  ASSUME NEW f, NEW S, IsFiniteSet(S), \A n \in S : f[n].bytes \in Nat, NEW T \in SUBSET S
  PROVE  FileSum(f, T) \in Nat /\ FileSum(f, T) <= FileSum(f, S)
<1> DEFINE e == [n \in S |-> f[n].bytes]
<1>1. FileSum(f, T) = Sum(e, T) /\ FileSum(f, S) = Sum(e, S)
  BY FileSumIs
<1>2. \A n \in S : e[n] \in Nat
  OBVIOUS
<1> HIDE DEF e
<1> QED BY <1>1, <1>2, SumGrows

(* Smaller sizes add up to less.                                           *)
LEMMA FileSumBelow ==
  ASSUME NEW f, NEW g, NEW S, IsFiniteSet(S),
         \A n \in S : f[n].bytes \in Nat /\ g[n].bytes \in Nat /\ f[n].bytes <= g[n].bytes
  PROVE  FileSum(f, S) <= FileSum(g, S)
<1> DEFINE e == [n \in S |-> f[n].bytes]
<1> DEFINE h == [n \in S |-> g[n].bytes]
<1>1. FileSum(f, S) = Sum(e, S) /\ FileSum(g, S) = Sum(h, S)
  BY FileSumIs
<1>2. \A n \in S : e[n] \in Int /\ h[n] \in Int /\ e[n] <= h[n]
  OBVIOUS
<1> HIDE DEF e, h
<1> QED BY <1>1, <1>2, SumMonotone

(* Files of two sets without a common one add up.                          *)
LEMMA FileSumDisjoint ==
  ASSUME NEW f, NEW S, NEW T, IsFiniteSet(S), IsFiniteSet(T), S \cap T = {},
         \A n \in S \cup T : f[n].bytes \in Nat
  PROVE  FileSum(f, S \cup T) = FileSum(f, S) + FileSum(f, T)
<1> DEFINE e == [n \in S \cup T |-> f[n].bytes]
<1>1. IsFiniteSet(S \cup T)
  BY FS_Union
<1>2. /\ FileSum(f, S) = Sum(e, S) /\ FileSum(f, T) = Sum(e, T)
      /\ FileSum(f, S \cup T) = Sum(e, S \cup T)
  BY <1>1, FileSumIs
<1>3. \A n \in S \cup T : e[n] \in Int
  OBVIOUS
<1> HIDE DEF e
<1> QED BY <1>2, <1>3, SumDisjoint

(* Two sets of files take no more than both sums.                          *)
LEMMA FileSumUnion ==
  ASSUME NEW f, NEW S, NEW T, IsFiniteSet(S), IsFiniteSet(T),
         \A n \in S \cup T : f[n].bytes \in Nat
  PROVE  FileSum(f, S \cup T) <= FileSum(f, S) + FileSum(f, T)
<1>1. IsFiniteSet(T \ S)
  BY FS_Subset
<1>2. FileSum(f, S \cup (T \ S)) = FileSum(f, S) + FileSum(f, T \ S)
  BY <1>1, FileSumDisjoint
<1>3. S \cup (T \ S) = S \cup T
  OBVIOUS
<1>4. FileSum(f, T \ S) \in Nat /\ FileSum(f, T \ S) <= FileSum(f, T)
  BY FileSumPart
<1>5. FileSum(f, T) \in Nat /\ FileSum(f, S) \in Nat
  BY FileSumRemove
<1>6. FileSum(f, S \cup T) = FileSum(f, S) + FileSum(f, T \ S)
  BY <1>2, <1>3
<1> QED BY <1>4, <1>5, <1>6

(* BytesOf is the sum over the present directory.                          *)
LEMMA BytesOfIs == \A S : BytesOf(S) = FileSum(disk, S)
BY DEF BytesOf, Bytes, FileSum

(* So is NetOf.                                                            *)
LEMMA NetOfIs == \A S : NetOf(S) = FileSum(Nets, S)
BY DEF NetOf, FileSum

(* No file is over by more than all of it.                                 *)
LEMMA NetFacts ==
  ASSUME NEW p \in Players, FilesOK(p)
  PROVE  \A n \in Own(p) : /\ Nets[n].bytes = disk[n].bytes - disk[n].over
                           /\ Nets[n].bytes \in Nat /\ Nets[n].bytes <= disk[n].bytes
                           /\ disk[n].bytes \in Nat /\ disk[n].over \in Nat
<1>1. ASSUME NEW n \in Own(p)
      PROVE  /\ Nets[n].bytes = disk[n].bytes - disk[n].over
             /\ Nets[n].bytes \in Nat /\ Nets[n].bytes <= disk[n].bytes
             /\ disk[n].bytes \in Nat /\ disk[n].over \in Nat
  <2>1. disk[n] \in Files /\ disk[n].over <= disk[n].bytes /\ n \in DOMAIN disk
    BY DEF FilesOK, FileOK, Bytes, Own
  <2>2. disk[n].bytes \in Nat /\ disk[n].over \in Nat
    BY <2>1 DEF Files
  <2>3. Nets[n].bytes = disk[n].bytes - disk[n].over
    BY <2>1 DEF Nets
  <2> QED BY <2>1, <2>2, <2>3
<1> QED BY <1>1

(* The boards of the files S of a directory f.                             *)
BoardsIn(f, S) == UNION {f[n].boards : n \in S}

(* A union has no more elements than both sets together.                   *)
LEMMA UnionCard ==
  ASSUME NEW A, NEW B, IsFiniteSet(A), IsFiniteSet(B)
  PROVE  IsFiniteSet(A \cup B) /\ Cardinality(A \cup B) <= Cardinality(A) + Cardinality(B)
<1>1. IsFiniteSet(A \cap B)
  BY FS_Subset
<1>2. /\ Cardinality(A) \in Nat /\ Cardinality(B) \in Nat /\ Cardinality(A \cap B) \in Nat
  BY <1>1, FS_CardinalityType
<1>3. /\ IsFiniteSet(A \cup B)
      /\ Cardinality(A \cup B) = Cardinality(A) + Cardinality(B) - Cardinality(A \cap B)
  BY FS_Union
<1> QED BY <1>2, <1>3

(* Files as long as their records and a trailer have room for the records  *)
(* of their union.                                                         *)
LEMMA BoardsFit ==
  ASSUME NEW f, NEW S, IsFiniteSet(S),
         \A n \in S : /\ f[n].bytes \in Nat /\ IsFiniteSet(f[n].boards)
                      /\ PlainBytes(f[n].boards) <= f[n].bytes
  PROVE  IsFiniteSet(BoardsIn(f, S)) /\ Cardinality(BoardsIn(f, S)) <= FileSum(f, S)
<1> DEFINE Good == {s \in SUBSET S : /\ IsFiniteSet(BoardsIn(f, s))
                                     /\ Cardinality(BoardsIn(f, s)) <= FileSum(f, s)}
<1>1. {} \in Good
  <2>1. BoardsIn(f, {}) = {}
    BY DEF BoardsIn
  <2> QED BY <2>1, FS_EmptySet, FileSumEmpty
<1>2. ASSUME NEW s \in SUBSET S, s # {}, \A x \in s : s \ {x} \in Good PROVE s \in Good
  <2>1. PICK x : x \in s
    BY <1>2
  <2>2. /\ IsFiniteSet(BoardsIn(f, s \ {x})) /\ Cardinality(BoardsIn(f, s \ {x})) <= FileSum(f, s \ {x})
        /\ IsFiniteSet(f[x].boards) /\ PlainBytes(f[x].boards) <= f[x].bytes
    BY <1>2, <2>1
  <2>3. BoardsIn(f, s) = BoardsIn(f, s \ {x}) \cup f[x].boards
    BY <2>1 DEF BoardsIn
  <2>4. IsFiniteSet(s)
    BY FS_Subset
  <2>5. FileSum(f, s) = f[x].bytes + FileSum(f, s \ {x}) /\ FileSum(f, s \ {x}) \in Nat
    <3>1. \A n \in s : f[n].bytes \in Nat
      OBVIOUS
    <3> QED BY <2>1, <2>4, <3>1, FileSumRemove
  <2>6. IsFiniteSet(BoardsIn(f, s)) /\ Cardinality(BoardsIn(f, s)) <=
          Cardinality(BoardsIn(f, s \ {x})) + Cardinality(f[x].boards)
    BY <2>2, <2>3, UnionCard
  <2>7. /\ Cardinality(BoardsIn(f, s)) \in Nat /\ Cardinality(BoardsIn(f, s \ {x})) \in Nat
        /\ Cardinality(f[x].boards) \in Nat /\ f[x].bytes \in Nat
    BY <2>1, <2>2, <2>6, FS_CardinalityType
  <2>8. Cardinality(f[x].boards) <= f[x].bytes
    BY <2>2, <2>7, Consts DEF PlainBytes
  <2>9. Cardinality(BoardsIn(f, s)) <= FileSum(f, s)
    BY <2>2, <2>5, <2>6, <2>7, <2>8
  <2> QED BY <2>6, <2>9
<1>3. \A s \in SUBSET S : s \in Good
  <2> HIDE DEF Good
  <2> QED BY <1>1, <1>2, FiniteInduction
<1> QED BY <1>3

(* With a trailer to spare when there is a file at all.                    *)
LEMMA TrailersFit ==
  ASSUME NEW f, NEW S, IsFiniteSet(S),
         \A n \in S : /\ f[n].bytes \in Nat /\ IsFiniteSet(f[n].boards)
                      /\ PlainBytes(f[n].boards) <= f[n].bytes,
         NEW x \in S
  PROVE  Cardinality(BoardsIn(f, S)) + Trailer <= FileSum(f, S)
<1>1. IsFiniteSet(S \ {x})
  BY FS_RemoveElement
<1>2. BoardsIn(f, S) = BoardsIn(f, S \ {x}) \cup f[x].boards
  BY DEF BoardsIn
<1>3. /\ IsFiniteSet(BoardsIn(f, S)) /\ IsFiniteSet(BoardsIn(f, S \ {x})) /\ IsFiniteSet(f[x].boards)
      /\ Cardinality(BoardsIn(f, S \ {x})) <= FileSum(f, S \ {x})
  BY <1>1, BoardsFit
<1>4. /\ Cardinality(BoardsIn(f, S)) \in Nat /\ Cardinality(BoardsIn(f, S \ {x})) \in Nat
      /\ Cardinality(f[x].boards) \in Nat /\ f[x].bytes \in Nat
  BY <1>3, FS_CardinalityType
<1>5. FileSum(f, S) = f[x].bytes + FileSum(f, S \ {x}) /\ FileSum(f, S \ {x}) \in Nat
  <2>1. \A n \in S : f[n].bytes \in Nat
    OBVIOUS
  <2> QED BY <2>1, FileSumRemove
<1>6. Cardinality(f[x].boards) + Trailer <= f[x].bytes
  BY DEF PlainBytes
<1>7. Cardinality(BoardsIn(f, S)) <= Cardinality(BoardsIn(f, S \ {x})) + Cardinality(f[x].boards)
  BY <1>2, <1>3, UnionCard
<1> QED BY <1>3, <1>4, <1>5, <1>6, <1>7, Consts

----------------------------------------------------------------------------
(* Lists of names.                                                         *)
LEMMA RangeFacts ==
  ASSUME NEW S, NEW s \in Seq(S)
  PROVE  /\ Range(s) \subseteq S /\ IsFiniteSet(Range(s))
         /\ s = <<>> <=> Range(s) = {}
         /\ s = <<>> <=> Len(s) = 0
         /\ \A i \in 1..Len(s) : s[i] \in Range(s)
         /\ \A n \in Range(s) : \E i \in 1..Len(s) : s[i] = n
<1>1. Len(s) \in Nat /\ s \in [1..Len(s) -> S] /\ DOMAIN s = 1..Len(s)
  BY LenProperties
<1>2. Range(s) \subseteq S
  BY <1>1 DEF Range
<1>3. IsFiniteSet(Range(s))
  <2>1. IsFiniteSet(1..Len(s))
    BY <1>1, FS_Interval
  <2>2. s \in Surjection(1..Len(s), Range(s))
    BY <1>1 DEF Surjection, Range
  <2> QED BY <2>1, <2>2, FS_Surjection
<1>4. s = <<>> <=> Len(s) = 0
  BY <1>1, EmptySeq
<1>5. s = <<>> <=> Range(s) = {}
  <2>1. Len(s) = 0 => 1..Len(s) = {}
    OBVIOUS
  <2>2. Len(s) # 0 => 1 \in 1..Len(s)
    BY <1>1
  <2>3. Range(s) = {s[i] : i \in 1..Len(s)}
    BY <1>1 DEF Range
  <2> QED BY <1>4, <2>1, <2>2, <2>3
<1>6. /\ \A i \in 1..Len(s) : s[i] \in Range(s)
      /\ \A n \in Range(s) : \E i \in 1..Len(s) : s[i] = n
  BY <1>1 DEF Range
<1> QED BY <1>2, <1>3, <1>4, <1>5, <1>6

(* What is left of a list without its first element.                       *)
LEMMA TailFacts ==
  ASSUME NEW S, NEW s \in Seq(S), s # <<>>
  PROVE  /\ Head(s) \in S /\ Head(s) \in Range(s) /\ Tail(s) \in Seq(S)
         /\ Len(Tail(s)) = Len(s) - 1
         /\ Range(s) = Range(Tail(s)) \cup {Head(s)}
         /\ Once(s) => Once(Tail(s)) /\ Range(Tail(s)) = Range(s) \ {Head(s)}
<1>1. /\ Len(s) \in Nat /\ Len(s) > 0 /\ DOMAIN s = 1..Len(s) /\ Head(s) = s[1]
  BY LenProperties, EmptySeq
<1>2. /\ Tail(s) \in Seq(S) /\ Len(Tail(s)) = Len(s) - 1
      /\ \A i \in 1..Len(Tail(s)) : Tail(s)[i] = s[i + 1]
      /\ DOMAIN Tail(s) = 1..Len(Tail(s)) /\ Head(s) \in S
  BY HeadTailProperties, LenProperties
<1>3. Head(s) \in Range(s)
  BY <1>1 DEF Range
<1>4. Range(s) = Range(Tail(s)) \cup {Head(s)}
  <2>1. ASSUME NEW n \in Range(s) PROVE n \in Range(Tail(s)) \cup {Head(s)}
    <3>1. PICK i \in 1..Len(s) : s[i] = n
      BY <1>1 DEF Range
    <3>2. CASE i = 1
      BY <1>1, <3>1, <3>2
    <3>3. CASE i # 1
      <4>1. i - 1 \in 1..Len(Tail(s)) /\ Tail(s)[i - 1] = n
        BY <1>1, <1>2, <3>1, <3>3
      <4> QED BY <1>2, <4>1 DEF Range
    <3> QED BY <3>2, <3>3
  <2>2. ASSUME NEW n \in Range(Tail(s)) PROVE n \in Range(s)
    <3>1. PICK i \in 1..Len(Tail(s)) : Tail(s)[i] = n
      BY <1>2 DEF Range
    <3>2. i + 1 \in 1..Len(s) /\ s[i + 1] = n
      BY <1>1, <1>2, <3>1
    <3> QED BY <1>1, <3>2 DEF Range
  <2> QED BY <1>3, <2>1, <2>2
<1>5. ASSUME Once(s) PROVE Once(Tail(s)) /\ Range(Tail(s)) = Range(s) \ {Head(s)}
  <2>1. Once(Tail(s))
    <3> SUFFICES ASSUME NEW i \in 1..Len(Tail(s)), NEW j \in 1..Len(Tail(s)), Tail(s)[i] = Tail(s)[j]
                 PROVE  i = j
      BY <1>2 DEF Once
    <3>1. s[i + 1] = s[j + 1] /\ i + 1 \in 1..Len(s) /\ j + 1 \in 1..Len(s)
      BY <1>1, <1>2
    <3>2. i + 1 = j + 1
      BY <1>1, <1>5, <3>1 DEF Once
    <3> QED BY <3>2
  <2>2. ASSUME Head(s) \in Range(Tail(s)) PROVE FALSE
    <3>1. PICK i \in 1..Len(Tail(s)) : Tail(s)[i] = Head(s)
      BY <1>2, <2>2 DEF Range
    <3>2. s[i + 1] = s[1] /\ i + 1 \in 1..Len(s) /\ 1 \in 1..Len(s)
      BY <1>1, <1>2, <3>1
    <3>3. i + 1 = 1
      BY <1>1, <1>5, <3>2 DEF Once
    <3> QED BY <3>3
  <2> QED BY <1>4, <2>1, <2>2
<1> QED BY <1>2, <1>3, <1>4, <1>5

(* A list with one more element.                                           *)
LEMMA AppendFacts ==
  ASSUME NEW S, NEW s \in Seq(S), NEW x \in S
  PROVE  /\ Append(s, x) \in Seq(S) /\ Len(Append(s, x)) = Len(s) + 1
         /\ Append(s, x)[Len(s) + 1] = x /\ \A i \in 1..Len(s) : Append(s, x)[i] = s[i]
         /\ Range(Append(s, x)) = Range(s) \cup {x}
         /\ Once(s) /\ x \notin Range(s) => Once(Append(s, x))
<1>1. Len(s) \in Nat /\ DOMAIN s = 1..Len(s)
  BY LenProperties
<1>2. /\ Append(s, x) \in Seq(S) /\ Len(Append(s, x)) = Len(s) + 1
      /\ Append(s, x)[Len(s) + 1] = x /\ \A i \in 1..Len(s) : Append(s, x)[i] = s[i]
  BY AppendProperties
<1>3. DOMAIN Append(s, x) = 1..(Len(s) + 1)
  BY <1>2, LenProperties
<1>4. \A i \in 1..(Len(s) + 1) : i \in 1..Len(s) \/ i = Len(s) + 1
  BY <1>1
<1>5. Range(Append(s, x)) = Range(s) \cup {x}
  <2>1. Len(s) + 1 \in 1..(Len(s) + 1) /\ 1..Len(s) \subseteq 1..(Len(s) + 1)
    BY <1>1
  <2> QED BY <1>1, <1>2, <1>3, <1>4, <2>1 DEF Range
<1>6. ASSUME Once(s), x \notin Range(s) PROVE Once(Append(s, x))
  <2>1. \A i \in 1..Len(s) : s[i] # x /\ \A j \in 1..Len(s) : s[i] = s[j] => i = j
    BY <1>1, <1>6 DEF Once, Range
  <2> QED BY <1>2, <1>3, <1>4, <2>1 DEF Once
<1> QED BY <1>2, <1>5, <1>6

(* Part of a list.                                                         *)
LEMMA SubSeqFacts ==
  ASSUME NEW S, NEW s \in Seq(S), NEW i \in Nat, NEW k \in Nat, i + k <= Len(s)
  PROVE  /\ SubSeq(s, i + 1, i + k) \in Seq(S) /\ Len(SubSeq(s, i + 1, i + k)) = k
         /\ \A j \in 1..k : SubSeq(s, i + 1, i + k)[j] = s[i + j]
         /\ Range(SubSeq(s, i + 1, i + k)) \subseteq Range(s)
<1>1. Len(s) \in Nat /\ DOMAIN s = 1..Len(s) /\ \A j \in 1..Len(s) : s[j] \in S
  BY LenProperties, ElementOfSeq
<1>2. \A j \in i + 1..i + k : s[j] \in S
  BY <1>1
<1>3. i + 1 \in Int /\ i + k \in Int
  OBVIOUS
<1>4. /\ SubSeq(s, i + 1, i + k) \in Seq(S)
      /\ Len(SubSeq(s, i + 1, i + k)) = IF i + 1 <= i + k THEN (i + k) - (i + 1) + 1 ELSE 0
      /\ \A j \in 1..(i + k) - (i + 1) + 1 : SubSeq(s, i + 1, i + k)[j] = s[i + 1 + j - 1]
  BY <1>2, <1>3, SubSeqProperties
<1>5. (IF i + 1 <= i + k THEN (i + k) - (i + 1) + 1 ELSE 0) = k /\ (i + k) - (i + 1) + 1 = k
  OBVIOUS
<1>6. Len(SubSeq(s, i + 1, i + k)) = k
  BY <1>4, <1>5
<1>7. \A j \in 1..k : SubSeq(s, i + 1, i + k)[j] = s[i + j]
  <2>1. \A j \in 1..k : i + 1 + j - 1 = i + j /\ j \in 1..(i + k) - (i + 1) + 1
    BY <1>5
  <2> QED BY <1>4, <2>1
<1>8. ASSUME NEW n \in Range(SubSeq(s, i + 1, i + k)) PROVE n \in Range(s)
  <2>0. PICK t : t = SubSeq(s, i + 1, i + k)
    OBVIOUS
  <2>1. PICK j \in 1..k : t[j] = n
    <3>1. t \in Seq(S) /\ n \in Range(t) /\ Len(t) = k
      BY <1>4, <1>6, <1>8, <2>0
    <3>2. \E j \in 1..Len(t) : t[j] = n
      BY <3>1, RangeFacts
    <3> QED BY <3>1, <3>2
  <2>2. i + j \in 1..Len(s) /\ s[i + j] = n
    BY <1>1, <1>7, <2>0, <2>1
  <2> QED BY <1>1, <2>2 DEF Range
<1> QED BY <1>4, <1>6, <1>7, <1>8

----------------------------------------------------------------------------
(* What a step leaves alone. *)

(* A step that does not touch the files of p.                              *)
OwnKept(p) ==
  compress' = compress /\ Own(p)' = Own(p) /\ \A n \in Own(p) : disk'[n] = disk[n]

(* A step that does not touch anything of p.                               *)
Kept(p) ==
  /\ OwnKept(p)
  /\ pc'[p] = pc[p] /\ inputs'[p] = inputs[p] /\ reserved'[p] = reserved[p]
  /\ early'[p] = early[p] /\ stack'[p] = stack[p] /\ probe'[p] = probe[p]
  /\ queue'[p] = queue[p] /\ readers'[p] = readers[p] /\ target'[p] = target[p]
  /\ tempCount'[p] = tempCount[p]

(* Files that are left alone stay as they were.                            *)
LEMMA FilesKept ==
  ASSUME NEW p \in Players, OwnKept(p), FilesOK(p)
  PROVE  FilesOK(p)'
BY DEF OwnKept, FilesOK, FileOK, Bytes, PlainBytes

(* Inputs left alone stay well listed.                                     *)
LEMMA InputsKept ==
  ASSUME NEW p \in Players, Own(p)' = Own(p), inputs'[p] = inputs[p], InputsOK(p)
  PROVE  InputsOK(p)'
BY DEF InputsOK

(* Calls left alone stay as they are.                                      *)
LEMMA CallsKept ==
  ASSUME NEW p \in Players, Own(p)' = Own(p), inputs'[p] = inputs[p], stack'[p] = stack[p],
         tempCount'[p] = tempCount[p], Started(p)' = Started(p), CallsOK(p)
  PROVE  CallsOK(p)'
<1>1. TempsOf(p)' = TempsOf(p) /\ Depth(p)' = Depth(p)
  BY DEF TempsOf, Depth
<1>2. \A k \in 1..Depth(p) : CallOK(p, k)'
  BY DEF CallsOK, CallOK
<1> QED BY <1>1, <1>2 DEF CallsOK

(* So do the lists and files that belong to the place of the thread,       *)
LEMMA PlaceKept ==
  ASSUME NEW p \in Players, Kept(p), PlaceOK(p)
  PROVE  PlaceOK(p)'
<1>1. /\ TempsOf(p)' = TempsOf(p) /\ Depth(p)' = Depth(p) /\ Top(p)' = Top(p)
      /\ (MakingTemp(p)' <=> MakingTemp(p))
  BY DEF TempsOf, Depth, Top, MakingTemp, Kept
<1>2. (Output(p)' <=> Output(p)) /\ Own(p)' = Own(p) /\ Window(p)' = Window(p) /\ compress' = compress
  BY <1>1 DEF Output, Window, Kept, OwnKept
<1> QED BY <1>1, <1>2 DEF PlaceOK, Kept

(* and what its temporary was granted.                                     *)
LEMMA GrantKept ==
  ASSUME NEW p \in Players, Kept(p), PlaceOK(p), GrantOK(p)
  PROVE  GrantOK(p)'
<1>1. Depth(p)' = Depth(p) /\ (MakingTemp(p)' <=> MakingTemp(p)) /\ compress' = compress
  BY DEF Depth, MakingTemp, Kept, OwnKept
<1>2. pc[p] \in {"open", "write"} =>
        BoardsOf(Range(queue[p]) \cup readers[p])' = BoardsOf(Range(queue[p]) \cup readers[p])
  BY DEF PlaceOK, BoardsOf, Kept, OwnKept
<1>3. MakingTemp(p) /\ pc[p] # "open" => target[p] \in Own(p)
  BY DEF MakingTemp, PlaceOK
<1>4. pc[p] \in {"write", "temp"} /\ MakingTemp(p) =>
         Bytes(target[p])' = Bytes(target[p]) /\ disk'[target[p]] = disk[target[p]]
  BY <1>3 DEF Bytes, Kept, OwnKept
<1> QED BY <1>1, <1>2, <1>4 DEF GrantOK, Kept

(* Whoever is left alone is in order afterwards.                           *)
LEMMA PlayerKept ==
  ASSUME NEW p \in Players, Kept(p), PlayerOK(p)
  PROVE  PlayerOK(p)'
<1>1. FilesOK(p)' /\ InputsOK(p)'
  BY FilesKept, InputsKept DEF Kept, OwnKept, PlayerOK
<1>2. CallsOK(p)'
  <2>1. Started(p)' = Started(p)
    BY DEF Started, MakingTemp, Kept
  <2> QED BY <2>1, CallsKept DEF Kept, OwnKept, PlayerOK
<1>3. PlaceOK(p)' /\ GrantOK(p)'
  BY PlaceKept, GrantKept DEF PlayerOK
<1> QED BY <1>1, <1>2, <1>3 DEF PlayerOK

(* The output of a player is its own file.                                 *)
LEMMA StoreIsOwn == \A p \in Players : Store(p) \in DOMAIN disk <=> Store(p) \in Own(p)
BY NameFacts DEF Own

(* The sizes of own files that are left alone.                             *)
LEMMA SizesKept ==
  ASSUME NEW p \in Players, OwnKept(p), FilesOK(p), NEW S \in SUBSET Own(p)
  PROVE  FileSum(disk', S) = FileSum(disk, S)
<1>1. IsFiniteSet(S) /\ \A n \in S : disk'[n].bytes = disk[n].bytes
  BY FS_Subset DEF FilesOK, OwnKept
<1> QED BY <1>1, FileSumSame

(* The ledgers are short of the same on account of whoever is left alone.  *)
LEMMA ChargeKept ==
  ASSUME NEW p \in Players, Kept(p), PlayerOK(p), ReservedOK(p)
  PROVE  /\ ReservedOK(p)'
         /\ \A d \in Drives : Charge(p, d)' = Charge(p, d) /\ Net(p, d)' = Net(p, d)
<1>1. /\ Own(p)' = Own(p) /\ \A n \in Own(p) : disk'[n] = disk[n]
      /\ (Settled(p)' <=> Settled(p)) /\ compress' = compress
      /\ Top(p)' = Top(p) /\ OuterTemps(p)' = OuterTemps(p) /\ Grant(p)' = Grant(p)
  BY DEF Kept, OwnKept, Settled, Top, Depth, OuterTemps, Grant
<1>2. /\ Store(p) \in DOMAIN disk' <=> Store(p) \in DOMAIN disk
      /\ Store(p) \in DOMAIN disk => disk'[Store(p)] = disk[Store(p)]
  BY <1>1, StoreIsOwn, NameFacts DEF Own
<1>3. ReservedOK(p)'
  <2>1. BoardsOf(Own(p))' = BoardsOf(Own(p))
    BY <1>1 DEF BoardsOf
  <2> QED BY <1>1, <2>1 DEF ReservedOK, Kept, Bytes
<1>5. StoreCharge(p)' = StoreCharge(p) /\ NetStore(p)' = NetStore(p)
  BY <1>1, <1>2 DEF StoreCharge, NetStore, Counted, Uncounted, Kept, Bytes
<1>6. ASSUME NEW d \in Drives PROVE Charge(p, d)' = Charge(p, d) /\ Net(p, d)' = Net(p, d)
  <2>1. Going(p)' = Going(p)
    BY <1>1 DEF Going, Kept
  <2>2. Booked(p, d)' = Booked(p, d)
    BY <1>1, <2>1 DEF Booked, Kept
  <2>3. Booked(p, d) \in SUBSET Own(p)
    BY DEF Booked
  <2>4. FileSum(disk', Booked(p, d)) = FileSum(disk, Booked(p, d))
    BY <2>3, SizesKept DEF Kept, PlayerOK
  <2>5. BytesOf(Booked(p, d))' = BytesOf(Booked(p, d))
    BY <2>2, <2>4 DEF BytesOf, Bytes, FileSum
  <2>6. NetOf(Booked(p, d))' = NetOf(Booked(p, d))
    <3>1. \A n \in Booked(p, d) : Nets'[n].bytes = Nets[n].bytes
      BY <1>1, <2>3 DEF Nets, Own
    <3> QED BY <2>2, <3>1 DEF NetOf
  <2> QED BY <1>1, <1>5, <2>5, <2>6 DEF Charge, Net, Kept
<1> QED BY <1>3, <1>6

----------------------------------------------------------------------------
(* Calls of CascadingMerge, and the types of a step. *)

(* The calls of p, and the innermost one.                                  *)
LEMMA CallFacts ==
  ASSUME NEW p \in Players, Lists
  PROVE  /\ stack[p] \in Seq(Calls) /\ Depth(p) \in Nat
         /\ \A k \in 1..Depth(p) : stack[p][k] \in Calls
         /\ stack[p] = <<>> <=> Depth(p) = 0
         /\ stack[p] # <<>> => Depth(p) >= 1 /\ Top(p) \in Calls /\ Top(p).pos \in Nat
                               /\ Top(p).ins \in Seq(Names) /\ Top(p).temps \in Seq(Names)
<1>1. stack[p] \in Seq(Calls)
  BY DEF Lists
<1>2. Depth(p) \in Nat /\ \A k \in 1..Depth(p) : stack[p][k] \in Calls
  BY <1>1, LenProperties, ElementOfSeq DEF Depth
<1>3. stack[p] = <<>> <=> Depth(p) = 0
  BY <1>1, RangeFacts DEF Depth
<1>4. ASSUME stack[p] # <<>> PROVE Depth(p) >= 1 /\ Top(p) \in Calls
  BY <1>2, <1>3, <1>4 DEF Top
<1>5. \A c \in Calls : c.pos \in Nat /\ c.ins \in Seq(Names) /\ c.temps \in Seq(Names)
  BY DEF Calls
<1> QED BY <1>1, <1>2, <1>3, <1>4, <1>5

(* SetTop changes the innermost call only.                                 *)
LEMMA SetTopFacts ==
  ASSUME NEW p \in Players, Lists, stack[p] # <<>>, NEW call \in Calls, SetTop(p, call)
  PROVE  /\ stack' \in [Players -> Seq(Calls)]
         /\ stack'[p] # <<>> /\ Depth(p)' = Depth(p) /\ Top(p)' = call
         /\ stack'[p][Depth(p)] = call
         /\ \A k \in 1..Depth(p) : k # Depth(p) => stack'[p][k] = stack[p][k]
         /\ \A q \in Players : q # p => stack'[q] = stack[q]
<1>1. Depth(p) \in 1..Len(stack[p]) /\ stack[p] \in Seq(Calls)
  BY CallFacts DEF Depth
<1>2. stack \in [Players -> Seq(Calls)]
  BY DEF Lists
<1>3. PICK t : t = [stack[p] EXCEPT ![Depth(p)] = call]
  OBVIOUS
<1>4. /\ t \in Seq(Calls) /\ Len(t) = Len(stack[p])
      /\ \A k \in 1..Len(stack[p]) : t[k] = IF k = Depth(p) THEN call ELSE stack[p][k]
  BY <1>1, <1>3, ExceptSeq
<1>5. stack' = [stack EXCEPT ![p] = t]
  BY <1>3 DEF SetTop
<1>6. stack'[p] = t /\ stack' \in [Players -> Seq(Calls)] /\ \A q \in Players : q # p => stack'[q] = stack[q]
  BY <1>2, <1>4, <1>5
<1>7. Depth(p)' = Depth(p)
  BY <1>4, <1>6 DEF Depth
<1>8. Top(p)' = call
  BY <1>1, <1>4, <1>6, <1>7 DEF Top
<1>9. t # <<>>
  BY <1>1, <1>4, RangeFacts
<1> QED BY <1>1, <1>4, <1>6, <1>7, <1>8, <1>9 DEF Depth

(* A group of files is part of the call's inputs.                          *)
LEMMA GroupFacts ==
  ASSUME NEW p \in Players, Lists, stack[p] # <<>>, NEW k \in Nat,
         Top(p).pos + k <= Len(Top(p).ins)
  PROVE  /\ Group(p, k) \in Seq(Names) /\ Len(Group(p, k)) = k
         /\ Range(Group(p, k)) \subseteq Range(Top(p).ins)
<1>1. PICK s \in Seq(Names), i \in Nat : s = Top(p).ins /\ i = Top(p).pos
  BY CallFacts
<1>2. Group(p, k) = SubSeq(s, i + 1, i + k) /\ i + k <= Len(s)
  BY <1>1 DEF Group
<1>3. /\ SubSeq(s, i + 1, i + k) \in Seq(Names) /\ Len(SubSeq(s, i + 1, i + k)) = k
      /\ Range(SubSeq(s, i + 1, i + k)) \subseteq Range(s)
  BY <1>2, SubSeqFacts
<1> QED BY <1>1, <1>2, <1>3

(* The next group is within the call's inputs, and not empty while some    *)
(* are left.                                                               *)
LEMMA WindowFacts ==
  ASSUME NEW p \in Players, Lists, stack[p] # <<>>, Top(p).pos <= Len(Top(p).ins)
  PROVE  /\ Window(p) \in Nat /\ Top(p).pos + Window(p) <= Len(Top(p).ins)
         /\ Top(p).pos < Len(Top(p).ins) => Window(p) >= 1
<1>1. Top(p).pos \in Nat /\ Len(Top(p).ins) \in Nat
  BY CallFacts, LenProperties
<1>2. MaxFanin \in Nat /\ MaxFanin >= 2
  BY Fanin
<1> QED BY <1>1, <1>2 DEF Window, Smaller

(* A step of a player thread.                                              *)
PlayerNext(p) == mergePlayer(p) \/ CascadingMerge(p) \/ KWayMergeFiles(p)

(* A file is written under a name of its player.                           *)
LEMMA TargetIsOwn ==
  ASSUME NEW p \in Players, PlaceOK(p), pc[p] \in {"open", "write"}
  PROVE  target[p].player = p
BY NameFacts DEF PlaceOK, MakingTemp

(* A step of one thread leaves the other player alone.                     *)
LEMMA OthersKept ==
  ASSUME NEW p \in Players, TypeOK, Lists, PlayerOK(p), PlayerNext(p), NEW q \in Players, q # p
  PROVE  Kept(q)
<1> DEFINE Rest == /\ compress' = compress
                   /\ pc'[q] = pc[q] /\ inputs'[q] = inputs[q] /\ reserved'[q] = reserved[q]
                   /\ early'[q] = early[q] /\ stack'[q] = stack[q] /\ probe'[q] = probe[q]
                   /\ queue'[q] = queue[q] /\ readers'[q] = readers[q] /\ target'[q] = target[q]
                   /\ tempCount'[q] = tempCount[q]
<1>1. /\ pc \in [Players -> Places] /\ stack \in [Players -> Seq(Calls)] /\ probe \in [Players -> Probes]
      /\ inputs \in [Players -> Seq(Names)] /\ reserved \in [Players -> Nat]
      /\ readers \in [Players -> SUBSET Names] /\ target \in [Players -> Names]
      /\ tempCount \in [Players -> Nat] /\ queue \in [Players -> Seq(Names)]
  BY DEF Lists, TypeOK
<1>0. compress' = compress
  <2>1. CASE KWayMergeFiles(p)
    BY <2>1 DEF KWayMergeFiles, OpenInput, CreateOutput, WriteOutput
  <2>2. CASE CascadingMerge(p)
    BY <2>2 DEF CascadingMerge, Direct, NextGroup, Probe, Claim, NestedGroup, FinishTemp, Descend,
                Return, ReclaimTemp, DeleteTemp
  <2>3. CASE mergePlayer(p)
    BY <2>3 DEF mergePlayer, NoFiles, MoveSingle, RecompressSingle, FinishSingle, MergeSeveral, Settle,
                ReclaimInput, DeleteInput, FinishPlayer
  <2> QED BY <2>1, <2>2, <2>3 DEF PlayerNext
<1>2. ASSUME disk' = disk PROVE OwnKept(q)
  BY <1>0, <1>2 DEF OwnKept, Own
<1>3. ASSUME NEW x, x.player = p, DOMAIN disk' \subseteq DOMAIN disk \cup {x},
             DOMAIN disk \subseteq DOMAIN disk' \cup {x},
             \A n \in DOMAIN disk' : n # x => disk'[n] = disk[n]
      PROVE  OwnKept(q)
  BY <1>0, <1>3 DEF OwnKept, Own
<1>4. ASSUME NEW x, x.player = p, NEW y, y.player = p,
             DOMAIN disk' = (DOMAIN disk \ {x}) \cup {y},
             \A n \in DOMAIN disk' : n # y => disk'[n] = disk[n]
      PROVE  OwnKept(q)
  BY <1>0, <1>4 DEF OwnKept, Own
<1>5. ASSUME NEW x, x.player = p, disk' = Restrict(disk, DOMAIN disk \ {x})
      PROVE  OwnKept(q)
  BY <1>0, <1>5 DEF OwnKept, Own, Restrict
<1>6. \A x \in Range(inputs[p]) : x.player = p
  BY DEF PlayerOK, InputsOK, Own
<1>7. \A k \in 1..Depth(p) : \A x \in Range(stack[p][k].temps) : x.player = p
  BY DEF PlayerOK, CallsOK, CallOK, Own
<1>8. CASE KWayMergeFiles(p)
  <2>1. Rest
    BY <1>1, <1>8 DEF KWayMergeFiles, OpenInput, CreateOutput, WriteOutput, planVars, ledgerVars,
                      kwayVars, Goto
  <2>2. OwnKept(q)
    <3>1. CASE OpenInput(p)
      BY <1>2, <3>1 DEF OpenInput
    <3>2. CASE CreateOutput(p)
      <4>1. target[p].player = p
        BY <3>2, TargetIsOwn DEF CreateOutput, PlayerOK
      <4>2. \/ disk' = disk
            \/ /\ DOMAIN disk' = DOMAIN disk \cup {target[p]}
               /\ \A n \in DOMAIN disk' : n # target[p] => disk'[n] = disk[n]
        BY <3>2 DEF CreateOutput
      <4> QED BY <1>2, <1>3, <4>1, <4>2
    <3>3. CASE WriteOutput(p)
      <4>1. target[p].player = p
        BY <3>3, TargetIsOwn DEF WriteOutput, PlayerOK
      <4>2. /\ DOMAIN disk' = DOMAIN disk
            /\ \A n \in DOMAIN disk' : n # target[p] => disk'[n] = disk[n]
        BY <3>3 DEF WriteOutput
      <4> QED BY <1>3, <4>1, <4>2
    <3> QED BY <1>8, <3>1, <3>2, <3>3 DEF KWayMergeFiles
  <2> QED BY <2>1, <2>2 DEF Kept
<1>9. CASE CascadingMerge(p)
  <2>1. Rest
    <3>1. CASE Direct(p) \/ NextGroup(p) \/ Probe(p)
      BY <1>1, <3>1 DEF Direct, NextGroup, Probe, BeginKWay, TryNextDrive, planVars, ledgerVars,
                        kwayVars, Goto
    <3>2. CASE Claim(p) \/ NestedGroup(p)
      BY <1>1, <3>2 DEF Claim, NestedGroup, BeginTemp, BeginKWay, TryNextDrive, SetTop, planVars,
                        ledgerVars, kwayVars, Goto
    <3>3. CASE FinishTemp(p) \/ Descend(p) \/ Return(p)
      BY <1>1, <3>3 DEF FinishTemp, Descend, Return, SetTop, planVars, ledgerVars, kwayVars, Goto
    <3>4. CASE ReclaimTemp(p) \/ DeleteTemp(p)
      BY <1>1, <3>4 DEF ReclaimTemp, DeleteTemp, SetTop, planVars, ledgerVars, kwayVars, Goto
    <3> QED BY <1>9, <3>1, <3>2, <3>3, <3>4 DEF CascadingMerge
  <2>2. OwnKept(q)
    <3>1. CASE DeleteTemp(p)
      <4>1. Depth(p) \in 1..Depth(p) /\ Top(p).temps \in Seq(Names) /\ Top(p).temps # <<>>
        BY <3>1, CallFacts DEF PlayerOK, PlaceOK, Within, DeleteTemp
      <4>2. Head(Top(p).temps) \in Range(Top(p).temps)
        BY <4>1, TailFacts
      <4>3. Head(Top(p).temps).player = p
        BY <1>7, <4>1, <4>2 DEF Top
      <4> QED BY <1>5, <3>1, <4>3 DEF DeleteTemp
    <3>2. CASE ~DeleteTemp(p)
      BY <1>2, <1>9, <3>2 DEF CascadingMerge, Direct, NextGroup, Probe, Claim, NestedGroup, FinishTemp,
                              Descend, Return, ReclaimTemp
    <3> QED BY <3>1, <3>2
  <2> QED BY <2>1, <2>2 DEF Kept
<1>10. CASE mergePlayer(p)
  <2>1. Rest
    <3>1. CASE NoFiles(p) \/ MoveSingle(p) \/ RecompressSingle(p)
      BY <1>1, <3>1 DEF NoFiles, MoveSingle, RecompressSingle, BeginKWay, planVars, ledgerVars,
                        kwayVars, Goto
    <3>2. CASE FinishSingle(p) \/ MergeSeveral(p) \/ Settle(p)
      BY <1>1, <3>2 DEF FinishSingle, MergeSeveral, Settle, planVars, ledgerVars, kwayVars, Goto
    <3>3. CASE ReclaimInput(p) \/ DeleteInput(p) \/ FinishPlayer(p)
      BY <1>1, <3>3 DEF ReclaimInput, DeleteInput, FinishPlayer, planVars, ledgerVars, kwayVars, Goto
    <3> QED BY <1>10, <3>1, <3>2, <3>3 DEF mergePlayer
  <2>2. OwnKept(q)
    <3>0. inputs[p] \in Seq(Names)
      BY <1>1
    <3>1. CASE MoveSingle(p)
      <4>1. inputs[p][1].player = p
        <5>1. 1 \in 1..Len(inputs[p])
          BY <3>1 DEF MoveSingle
        <5> QED BY <1>6, <3>0, <5>1, RangeFacts
      <4>2. /\ DOMAIN disk' = (DOMAIN disk \ {inputs[p][1]}) \cup {Store(p)}
            /\ \A n \in DOMAIN disk' : n # Store(p) => disk'[n] = disk[n]
        BY <3>1 DEF MoveSingle
      <4> QED BY <1>4, <4>1, <4>2, NameFacts
    <3>2. CASE FinishSingle(p)
      <4>1. inputs[p][1].player = p
        <5>1. 1 \in 1..Len(inputs[p])
          BY <3>2 DEF FinishSingle, PlayerOK, PlaceOK
        <5> QED BY <1>6, <3>0, <5>1, RangeFacts
      <4> QED BY <1>5, <3>2, <4>1 DEF FinishSingle
    <3>3. CASE DeleteInput(p)
      <4>1. inputs[p] # <<>>
        BY <3>3 DEF DeleteInput, PlayerOK, PlaceOK
      <4>2. Head(inputs[p]).player = p
        BY <1>6, <3>0, <4>1, TailFacts
      <4> QED BY <1>5, <3>3, <4>2 DEF DeleteInput
    <3>4. CASE ~(MoveSingle(p) \/ FinishSingle(p) \/ DeleteInput(p))
      BY <1>2, <1>10, <3>4 DEF mergePlayer, NoFiles, RecompressSingle, MergeSeveral, Settle, ReclaimInput,
                              FinishPlayer
    <3> QED BY <3>1, <3>2, <3>3, <3>4
  <2> QED BY <2>1, <2>2 DEF Kept
<1> QED BY <1>8, <1>9, <1>10 DEF PlayerNext

(* The lists keep their types, and no step changes the mode, the limits or *)
(* the reservation but to give it up.                                      *)
Fields ==
  /\ compress \in Modes /\ terminate \in BOOLEAN
  /\ phase \in {"reserve", "merge", "done", "fatal"}
  /\ limit \in [Drives -> Nat] /\ pc \in [Players -> Places]
  /\ reserved \in [Players -> Nat] /\ early \in [Players -> BOOLEAN]

(* A step of a thread keeps the types of what is not a file or a list.     *)
LEMMA FieldsStep ==
  ASSUME NEW p \in Players, TypeOK, phase = "merge", PlayerNext(p)
  PROVE  Fields' /\ limit' = limit /\ terminate' = terminate /\ phase' \in {"merge", "fatal"}
<1>1. /\ compress \in Modes /\ terminate \in BOOLEAN /\ limit \in [Drives -> Nat]
      /\ pc \in [Players -> Places] /\ reserved \in [Players -> Nat] /\ early \in [Players -> BOOLEAN]
  BY DEF TypeOK
<1>2. CASE KWayMergeFiles(p)
  BY <1>1, <1>2 DEF Fields, KWayMergeFiles, OpenInput, CreateOutput, WriteOutput, planVars, ledgerVars,
                    kwayVars, Goto, Places
<1>3. CASE CascadingMerge(p)
  <2>1. CASE Direct(p) \/ NextGroup(p) \/ Probe(p)
    BY <1>1, <2>1 DEF Fields, Direct, NextGroup, Probe, BeginKWay, TryNextDrive, planVars, ledgerVars,
                      kwayVars, Goto, Places
  <2>2. CASE Claim(p) \/ NestedGroup(p)
    BY <1>1, <2>2 DEF Fields, Claim, NestedGroup, BeginTemp, BeginKWay, TryNextDrive, planVars,
                      ledgerVars, kwayVars, Goto, Places
  <2>3. CASE FinishTemp(p) \/ Descend(p) \/ Return(p) \/ ReclaimTemp(p) \/ DeleteTemp(p)
    BY <1>1, <2>3 DEF Fields, FinishTemp, Descend, Return, ReclaimTemp, DeleteTemp, planVars,
                      ledgerVars, kwayVars, Goto, Places
  <2> QED BY <1>3, <2>1, <2>2, <2>3 DEF CascadingMerge
<1>4. CASE mergePlayer(p)
  <2>0. CASE NoFiles(p)
    BY <1>1, <2>0 DEF Fields, NoFiles, planVars, ledgerVars, Goto, Places
  <2>1. CASE MoveSingle(p)
    BY <1>1, <2>1 DEF Fields, MoveSingle, Goto, Places
  <2>4. CASE RecompressSingle(p)
    BY <1>1, <2>4 DEF Fields, RecompressSingle, BeginKWay, planVars, ledgerVars, Goto, Places
  <2>2. CASE FinishSingle(p)
    BY <1>1, <2>2 DEF Fields, FinishSingle, Goto, Places
  <2>5. CASE MergeSeveral(p) \/ Settle(p)
    BY <1>1, <2>5 DEF Fields, MergeSeveral, Settle, planVars, ledgerVars, kwayVars, Goto, Places
  <2>3. CASE ReclaimInput(p) \/ DeleteInput(p) \/ FinishPlayer(p)
    BY <1>1, <2>3 DEF Fields, ReclaimInput, DeleteInput, FinishPlayer, planVars, ledgerVars, kwayVars,
                      Goto, Places
  <2> QED BY <1>4, <2>0, <2>1, <2>2, <2>3, <2>4, <2>5 DEF mergePlayer
<1> QED BY <1>2, <1>3, <1>4 DEF PlayerNext

(* A call of CascadingMerge starts with nothing done.                      *)
LEMMA CallType ==
  ASSUME NEW s \in Seq(Names)
  PROVE  /\ Call(s) \in Calls /\ Call(s).ins = s /\ Call(s).pos = 0 /\ Call(s).temps = <<>>
         /\ Call(s).granted = 0
BY EmptySeq DEF Call, Calls

(* All calls but the innermost.                                            *)
LEMMA FrontFacts ==
  ASSUME NEW S, NEW s \in Seq(S), s # <<>>
  PROVE  /\ SubSeq(s, 1, Len(s) - 1) \in Seq(S) /\ Len(SubSeq(s, 1, Len(s) - 1)) = Len(s) - 1
         /\ \A j \in 1..(Len(s) - 1) : SubSeq(s, 1, Len(s) - 1)[j] = s[j]
<1>0. Len(s) \in Nat /\ Len(s) # 0
  BY EmptySeq, LenProperties
<1>a. PICK k \in Nat : k = Len(s) - 1
  BY <1>0
<1>1. k = Len(s) - 1 /\ 0 + k <= Len(s) /\ 0 + 1 = 1 /\ 0 + k = k
  BY <1>0, <1>a
<1>2. /\ SubSeq(s, 0 + 1, 0 + k) \in Seq(S) /\ Len(SubSeq(s, 0 + 1, 0 + k)) = k
      /\ \A j \in 1..k : SubSeq(s, 0 + 1, 0 + k)[j] = s[0 + j]
  BY <1>1, SubSeqFacts
<1>3. \A j \in 1..k : 0 + j = j
  OBVIOUS
<1> QED BY <1>1, <1>2, <1>3

(* A bounded set of numbers has a greatest one.                            *)
LEMMA MaxFacts ==
  ASSUME NEW w \in Nat, NEW S \in SUBSET (0..w), S # {}
  PROVE  Max(S) \in S /\ \A k \in S : k <= Max(S)
<1> DEFINE T == {w - k : k \in S}
<1>1. T \in SUBSET Nat /\ T # {}
  <2>1. \A k \in S : k \in Nat /\ k <= w
    OBVIOUS
  <2>2. \A k \in S : w - k \in Nat
    BY <2>1
  <2> QED BY <2>2
<1>2. PICK m \in T : \A n \in T : m <= n
  <2> HIDE DEF T
  <2> QED BY <1>1, LeastNumber
<1>3. PICK k \in S : m = w - k
  BY <1>2
<1>4. \A j \in S : k >= j
  <2>1. \A j \in S : m <= w - j
    BY <1>2
  <2>2. \A j \in S : j \in Nat
    OBVIOUS
  <2> QED BY <1>3, <2>1, <2>2
<1>5. Max(S) \in S /\ \A j \in S : Max(S) >= j
  BY <1>4 DEF Max
<1> QED BY <1>5

(* What a call merges are files of its player; so is every group.          *)
LEMMA GroupIsOwn ==
  ASSUME NEW p \in Players, Lists, PlayerOK(p), stack[p] # <<>>
  PROVE  /\ Range(Top(p).ins) \subseteq Own(p)
         /\ \A n \in Range(Top(p).ins) : n.kind = IF Depth(p) = 1 THEN "input" ELSE "temp"
         /\ Top(p).pos <= Len(Top(p).ins)
         /\ \A k \in Nat : Top(p).pos + k <= Len(Top(p).ins) =>
              Range(Group(p, k)) \subseteq Own(p) /\ GroupBytes(p, k) \in Nat
<1>1. Depth(p) \in 1..Depth(p) /\ Depth(p) \in Nat
  BY CallFacts
<1>2. Range(Top(p).ins) \subseteq Own(p) /\ \A n \in Range(Top(p).ins) : n.kind = IF Depth(p) = 1 THEN "input" ELSE "temp"
  <2>1. CASE Depth(p) = 1
    <3>1. Top(p).ins = inputs[p]
      BY <1>1, <2>1 DEF PlayerOK, CallsOK, CallOK, Top
    <3> QED BY <2>1, <3>1 DEF PlayerOK, InputsOK
  <2>2. CASE Depth(p) # 1
    <3>1. Depth(p) - 1 \in 1..Depth(p)
      BY <1>1, <2>2
    <3>2. Top(p).ins = stack[p][Depth(p) - 1].temps
      BY <1>1, <2>2 DEF PlayerOK, CallsOK, CallOK, Top
    <3> QED BY <2>2, <3>1, <3>2 DEF PlayerOK, CallsOK, CallOK
  <2> QED BY <2>1, <2>2
<1>3. Top(p).pos <= Len(Top(p).ins)
  BY <1>1 DEF PlayerOK, CallsOK, CallOK, Top
<1>4. ASSUME NEW k \in Nat, Top(p).pos + k <= Len(Top(p).ins)
      PROVE  Range(Group(p, k)) \subseteq Own(p) /\ GroupBytes(p, k) \in Nat
  <2>1. Range(Group(p, k)) \subseteq Own(p)
    BY <1>2, <1>4, GroupFacts
  <2>2. IsFiniteSet(Own(p)) /\ \A n \in Own(p) : disk[n].bytes \in Nat
    BY DEF PlayerOK, FilesOK, FileOK, Files
  <2>3. FileSum(disk, Range(Group(p, k))) \in Nat
    BY <2>1, <2>2, FileSumPart
  <2> QED BY <2>1, <2>3, BytesOfIs DEF GroupBytes
<1> QED BY <1>2, <1>3, <1>4

(* As many files as fit, at most a window of them.                         *)
LEMMA FittingFacts ==
  ASSUME NEW p \in Players, TypeOK, Lists, PlayerOK(p), stack[p] # <<>>, NEW d \in Drives
  PROVE  /\ Fitting(p, d) \in 0..Window(p)
         /\ Fitting(p, d) # 0 => GroupBytes(p, Fitting(p, d)) <= ledger[d]
<1>1. Window(p) \in Nat
  <2>1. Top(p).pos <= Len(Top(p).ins)
    BY GroupIsOwn
  <2> QED BY <2>1, CallFacts, WindowFacts
<1> DEFINE K == {k \in 1..Window(p) : GroupBytes(p, k) <= ledger[d]}
<1>2. {0} \cup K \in SUBSET (0..Window(p)) /\ {0} \cup K # {}
  BY <1>1
<1>3. Max({0} \cup K) \in {0} \cup K
  <2> HIDE DEF K
  <2> QED BY <1>1, <1>2, MaxFacts
<1>4. Fitting(p, d) = Max({0} \cup K)
  BY DEF Fitting, DriveAvailable
<1>5. Fitting(p, d) \in {0} \cup K
  BY <1>3, <1>4
<1> QED BY <1>1, <1>5

(* The steps of KWayMergeFiles keep the types of the lists,                *)
LEMMA ListsKWay ==
  ASSUME NEW p \in Players, Lists, KWayMergeFiles(p)
  PROVE  Lists'
<1>1. /\ queue \in [Players -> Seq(Names)] /\ readers \in [Players -> SUBSET Names]
      /\ target[p] \in Names /\ DOMAIN disk \subseteq Names /\ queue[p] \in Seq(Names)
  BY DEF Lists
<1>2. queue[p] # <<>> => Head(queue[p]) \in Names /\ Tail(queue[p]) \in Seq(Names)
  BY <1>1, TailFacts
<1>3. CASE OpenInput(p)
  BY <1>1, <1>2, <1>3 DEF Lists, OpenInput, planVars
<1>4. CASE CreateOutput(p)
  BY <1>1, <1>4 DEF Lists, CreateOutput, planVars, kwayVars
<1>5. CASE WriteOutput(p)
  BY <1>1, <1>5 DEF Lists, WriteOutput, planVars, kwayVars
<1> QED BY <1>3, <1>4, <1>5 DEF KWayMergeFiles

(* so do those of CascadingMerge                                           *)
LEMMA ListsCascade ==
  ASSUME NEW p \in Players, TypeOK, Lists, PlayerOK(p), CascadingMerge(p)
  PROVE  Lists'
<1>1. /\ queue \in [Players -> Seq(Names)] /\ target \in [Players -> Names]
      /\ target[p] \in Names /\ DOMAIN disk \subseteq Names /\ tempCount \in [Players -> Nat]
      /\ stack \in [Players -> Seq(Calls)] /\ probe \in [Players -> Probes]
      /\ Len(TempDrives) \in Nat /\ Len(TempDrives) > 0
      /\ probe[p].at \in 1..Len(TempDrives) /\ probe[p].count \in Nat
  BY Consts DEF Lists, Probes
<1>2. /\ stack[p] # <<>> /\ Depth(p) \in 1..Depth(p) /\ Top(p) \in Calls /\ Top(p).ins \in Seq(Names)
      /\ Top(p).temps \in Seq(Names) /\ Top(p).pos \in Nat
  BY CallFacts DEF CascadingMerge, Direct, NextGroup, Probe, Claim, NestedGroup, MoreGroups, FinishTemp,
                   Descend, Return, ReclaimTemp, DeleteTemp, PlayerOK, PlaceOK, Within
<1>3. Top(p).pos <= Len(Top(p).ins) /\ Len(Top(p).ins) \in Nat
  BY <1>2, LenProperties DEF PlayerOK, CallsOK, CallOK, Top
<1>4. Window(p) \in Nat /\ Top(p).pos + Window(p) <= Len(Top(p).ins)
  BY <1>2, <1>3, WindowFacts
<1>5. Store(p) \in Names /\ Temp(p, tempCount[p]) \in Names
  BY <1>1, NameFacts
<1>6. ASSUME NEW k \in Nat, k <= Window(p) PROVE Group(p, k) \in Seq(Names)
  <2>1. Top(p).pos + k <= Len(Top(p).ins)
    BY <1>2, <1>3, <1>4, <1>6
  <2> QED BY <1>2, <2>1, GroupFacts
<1>7. [at |-> 1, count |-> 0] \in Probes /\ [at |-> 1, count |-> Window(p)] \in Probes
  BY <1>1, <1>4 DEF Probes
<1>8. TryNextDrive(p) => probe' \in [Players -> Probes]
  <2>1. ASSUME probe[p].at < Len(TempDrives) PROVE [at |-> probe[p].at + 1, count |-> 0] \in Probes
    BY <1>1, <2>1 DEF Probes
  <2> QED BY <1>1, <2>1 DEF TryNextDrive
<1>9. CASE Direct(p) \/ NextGroup(p)
  BY <1>1, <1>2, <1>5, <1>7, <1>9 DEF Lists, Direct, NextGroup, BeginKWay, planVars, kwayVars
<1>10. CASE Probe(p)
  <2>1. Fitting(p, TempDrives[probe[p].at]) \in Nat
    BY <1>1, <1>2, <1>4, Consts, FittingFacts
  <2>2. PICK k \in Nat : k = Fitting(p, TempDrives[probe[p].at])
    BY <2>1
  <2>3. k # 0 => probe' = [probe EXCEPT ![p].count = k]
    BY <1>10, <2>2 DEF Probe
  <2>4. k = 0 => TryNextDrive(p)
    BY <1>10, <2>2 DEF Probe
  <2>5. [probe EXCEPT ![p].count = k] \in [Players -> Probes]
    BY <1>1 DEF Probes
  <2>6. probe' \in [Players -> Probes]
    BY <1>8, <2>2, <2>3, <2>4, <2>5
  <2> QED BY <1>10, <2>6 DEF Lists, Probe, planVars, kwayVars
<1>11. CASE Claim(p)
  <2>1. probe[p].count \in Nat /\ probe[p].count <= Window(p)
    BY <1>4, <1>11 DEF Claim, PlayerOK, PlaceOK
  <2>2. Top(p).pos + probe[p].count <= Len(Top(p).ins)
    BY <1>2, <1>3, <1>4, <2>1
  <2>3. PICK b \in Nat : b = GroupBytes(p, probe[p].count)
    BY <1>2, <2>1, <2>2, GroupIsOwn
  <2>4. [Top(p) EXCEPT !.granted = b] \in Calls
    BY <1>2 DEF Calls
  <2>5. Group(p, probe[p].count) \in Seq(Names)
    BY <1>6, <2>1
  <2>6. CASE SetTop(p, [Top(p) EXCEPT !.granted = b]) /\ BeginTemp(p, probe[p].count) /\ probe' = probe
    <3>1. stack' \in [Players -> Seq(Calls)]
      BY <1>2, <2>4, <2>6, SetTopFacts
    <3>2. inputs' = inputs /\ readers' = readers /\ disk' = disk
      BY <1>11 DEF Claim, planVars
    <3>3. queue' \in [Players -> Seq(Names)] /\ target' \in [Players -> Names]
      BY <1>1, <1>5, <2>5, <2>6 DEF BeginTemp, BeginKWay
    <3>4. tempCount' \in [Players -> Nat]
      BY <1>1, <2>6 DEF BeginTemp
    <3> QED BY <2>6, <3>1, <3>2, <3>3, <3>4 DEF Lists
  <2>7. CASE TryNextDrive(p) /\ UNCHANGED <<ledger, stack, queue, target, tempCount>>
    BY <1>8, <1>11, <2>7 DEF Lists, Claim, planVars
  <2> QED BY <1>11, <2>3, <2>6, <2>7 DEF Claim
<1>12. CASE NestedGroup(p)
  BY <1>1, <1>4, <1>5, <1>6, <1>7, <1>12 DEF Lists, NestedGroup, BeginTemp, BeginKWay, planVars
<1>13. CASE FinishTemp(p)
  <2>1. Append(Top(p).temps, target[p]) \in Seq(Names)
    BY <1>1, <1>2, AppendFacts
  <2>2. PICK call : call = [Top(p) EXCEPT !.pos = @ + probe[p].count,
                                         !.temps = Append(@, target[p]), !.granted = 0]
    OBVIOUS
  <2>3. call \in Calls
    <3>1. PICK c \in Calls, k \in Nat, t \in Seq(Names) :
            c = Top(p) /\ k = probe[p].count /\ t = Append(Top(p).temps, target[p])
      BY <1>1, <1>2, <2>1
    <3>2. call = [c EXCEPT !.pos = @ + k, !.temps = t, !.granted = 0]
      BY <2>2, <3>1
    <3>3. c.pos + k \in Nat /\ c.ins \in Seq(Names) /\ c = [ins |-> c.ins, pos |-> c.pos, temps |-> c.temps, granted |-> c.granted]
      BY DEF Calls
    <3>4. call = [ins |-> c.ins, pos |-> c.pos + k, temps |-> t, granted |-> 0]
      BY <3>2, <3>3
    <3> QED BY <3>3, <3>4 DEF Calls
  <2>4. SetTop(p, call)
    BY <1>13, <2>2 DEF FinishTemp
  <2>5. stack' \in [Players -> Seq(Calls)]
    BY <1>2, <2>3, <2>4, SetTopFacts
  <2> QED BY <1>13, <2>5 DEF Lists, FinishTemp, planVars, kwayVars
<1>14. CASE Descend(p)
  <2>1. Append(stack[p], Call(Top(p).temps)) \in Seq(Calls)
    BY <1>1, <1>2, CallType, AppendFacts
  <2> QED BY <1>1, <1>14, <2>1 DEF Lists, Descend, planVars, kwayVars
<1>15. CASE Return(p)
  <2>1. SubSeq(stack[p], 1, Len(stack[p]) - 1) \in Seq(Calls)
    BY <1>1, <1>2, FrontFacts
  <2> QED BY <1>1, <1>15, <2>1 DEF Lists, Return, planVars, kwayVars
<1>16. CASE ReclaimTemp(p)
  BY <1>16 DEF Lists, ReclaimTemp, planVars, kwayVars
<1>17. CASE DeleteTemp(p)
  <2>1. Top(p).temps # <<>>
    BY <1>17 DEF DeleteTemp, PlayerOK, PlaceOK
  <2>2. [Top(p) EXCEPT !.temps = Tail(@)] \in Calls
    BY <1>2, <2>1, TailFacts DEF Calls
  <2>3. stack' \in [Players -> Seq(Calls)]
    BY <1>2, <1>17, <2>2, SetTopFacts DEF DeleteTemp
  <2>4. DOMAIN disk' \subseteq Names
    BY <1>1, <1>17 DEF DeleteTemp, Restrict
  <2> QED BY <1>17, <2>3, <2>4 DEF Lists, DeleteTemp, planVars, kwayVars
<1> QED BY <1>9, <1>10, <1>11, <1>12, <1>13, <1>14, <1>15, <1>16, <1>17 DEF CascadingMerge

(* and those of mergePlayer.                                               *)
LEMMA ListsPlayer ==
  ASSUME NEW p \in Players, Lists, PlayerOK(p), mergePlayer(p)
  PROVE  Lists'
<1>1. /\ inputs \in [Players -> Seq(Names)] /\ queue \in [Players -> Seq(Names)]
      /\ stack \in [Players -> Seq(Calls)] /\ target \in [Players -> Names]
      /\ inputs[p] \in Seq(Names) /\ DOMAIN disk \subseteq Names
  BY DEF Lists
<1>2. Store(p) \in Names /\ <<>> \in Seq(Names)
  BY NameFacts, EmptySeq
<1>3. CASE NoFiles(p) \/ Settle(p) \/ ReclaimInput(p) \/ FinishPlayer(p)
  BY <1>3 DEF Lists, NoFiles, Settle, ReclaimInput, FinishPlayer, planVars, kwayVars
<1>4. CASE MoveSingle(p)
  <2>1. DOMAIN disk' \subseteq Names
    BY <1>1, <1>2, <1>4 DEF MoveSingle
  <2> QED BY <1>1, <1>2, <1>4, <2>1 DEF Lists, MoveSingle, kwayVars
<1>5. CASE RecompressSingle(p)
  BY <1>1, <1>2, <1>5 DEF Lists, RecompressSingle, BeginKWay, planVars
<1>6. CASE FinishSingle(p)
  <2>1. DOMAIN disk' \subseteq Names
    BY <1>1, <1>6 DEF FinishSingle, Restrict
  <2> QED BY <1>1, <1>2, <1>6, <2>1 DEF Lists, FinishSingle, kwayVars
<1>7. CASE MergeSeveral(p)
  <2>1. <<Call(inputs[p])>> \in Seq(Calls)
    <3>1. Call(inputs[p]) \in Calls
      BY <1>1, CallType
    <3> QED BY <3>1
  <2> QED BY <1>1, <1>7, <2>1 DEF Lists, MergeSeveral, planVars, kwayVars
<1>8. CASE DeleteInput(p)
  <2>1. inputs[p] # <<>>
    BY <1>8 DEF DeleteInput, PlayerOK, PlaceOK
  <2>2. Tail(inputs[p]) \in Seq(Names)
    BY <1>1, <2>1, TailFacts
  <2>3. DOMAIN disk' \subseteq Names
    BY <1>1, <1>8 DEF DeleteInput, Restrict
  <2> QED BY <1>1, <1>8, <2>2, <2>3 DEF Lists, DeleteInput, kwayVars
<1> QED BY <1>3, <1>4, <1>5, <1>6, <1>7, <1>8 DEF mergePlayer

(* The lists keep their types.                                             *)
LEMMA ListsStep ==
  ASSUME NEW p \in Players, TypeOK, Lists, PlayerOK(p), PlayerNext(p)
  PROVE  Lists'
BY ListsKWay, ListsCascade, ListsPlayer DEF PlayerNext, PlayerOK

----------------------------------------------------------------------------
(* What a step does to the player's own files and lists: KWayMergeFiles.   *)

(* A player's files are finitely many and well typed.                      *)
LEMMA PlayerFacts ==
  ASSUME NEW p \in Players, TypeOK, Lists, PlayerOK(p)
  PROVE  /\ IsFiniteSet(Own(p)) /\ Own(p) \subseteq Names
         /\ \A n \in Own(p) : /\ disk[n].bytes \in Nat /\ disk[n].drive \in Drives
                              /\ disk[n].boards \in SUBSET Boards /\ IsFiniteSet(disk[n].boards)
                              /\ disk[n].closed \in BOOLEAN /\ n.player = p /\ n \in DOMAIN disk
BY DEF PlayerOK, FilesOK, FileOK, Files, Own, Lists

(* Finitely many files hold finitely many boards.                          *)
LEMMA BoardsFinite ==
  ASSUME NEW f, NEW S, IsFiniteSet(S), \A n \in S : IsFiniteSet(f[n].boards)
  PROVE  IsFiniteSet(BoardsIn(f, S))
<1> DEFINE Good == {s \in SUBSET S : IsFiniteSet(BoardsIn(f, s))}
<1>1. {} \in Good
  <2>1. BoardsIn(f, {}) = {}
    BY DEF BoardsIn
  <2> QED BY <2>1, FS_EmptySet
<1>2. ASSUME NEW s \in SUBSET S, s # {}, \A x \in s : s \ {x} \in Good PROVE s \in Good
  <2>1. PICK x : x \in s
    BY <1>2
  <2>2. IsFiniteSet(BoardsIn(f, s \ {x})) /\ IsFiniteSet(f[x].boards)
    BY <1>2, <2>1
  <2>3. BoardsIn(f, s) = BoardsIn(f, s \ {x}) \cup f[x].boards
    BY <2>1 DEF BoardsIn
  <2> QED BY <2>2, <2>3, UnionCard
<1>3. \A s \in SUBSET S : s \in Good
  <2> HIDE DEF Good
  <2> QED BY <1>1, <1>2, FiniteInduction
<1> QED BY <1>3

(* The boards in some of a player's files.                                 *)
LEMMA OwnBoards ==
  ASSUME NEW p \in Players, TypeOK, Lists, PlayerOK(p), NEW S \in SUBSET Own(p), NEW T \in SUBSET S
  PROVE  /\ IsFiniteSet(BoardsOf(S)) /\ BoardsOf(S) \in SUBSET Boards
         /\ Cardinality(BoardsOf(S)) \in Nat
         /\ BoardsOf(T) \subseteq BoardsOf(S) /\ Cardinality(BoardsOf(T)) \in Nat
         /\ Cardinality(BoardsOf(T)) <= Cardinality(BoardsOf(S))
<1>1. IsFiniteSet(S) /\ \A n \in S : IsFiniteSet(disk[n].boards) /\ disk[n].boards \in SUBSET Boards
  BY PlayerFacts, FS_Subset
<1>2. IsFiniteSet(BoardsOf(S))
  BY <1>1, BoardsFinite DEF BoardsOf, BoardsIn
<1>3. BoardsOf(S) \in SUBSET Boards /\ BoardsOf(T) \subseteq BoardsOf(S)
  BY <1>1 DEF BoardsOf
<1> QED BY <1>2, <1>3, FS_Subset, FS_CardinalityType

(* The thread goes where it is told.                                       *)
LEMMA GoesTo ==
  ASSUME NEW p \in Players, TypeOK, NEW x, Goto(p, x)
  PROVE  pc'[p] = x
BY DEF TypeOK, Goto

(* What depends on the calls only.                                         *)
LEMMA StackKept ==
  ASSUME NEW p \in Players, stack'[p] = stack[p]
  PROVE  Depth(p)' = Depth(p) /\ Top(p)' = Top(p) /\ TempsOf(p)' = TempsOf(p) /\ Window(p)' = Window(p)
BY DEF Depth, Top, TempsOf, Window

(* A reader is opened or skipped: the group shrinks and stays covered.     *)
LEMMA PlayerOpenInput ==
  ASSUME NEW p \in Players, TypeOK, Lists, PlayerOK(p), OpenInput(p)
  PROVE  PlayerOK(p)'
<1>1. /\ pc[p] = "open" /\ pc' = pc /\ stack' = stack /\ inputs' = inputs /\ probe' = probe
      /\ target' = target /\ tempCount' = tempCount /\ disk' = disk
      /\ queue[p] # <<>> /\ queue[p] \in Seq(Names) /\ readers[p] \in SUBSET Names
      /\ queue'[p] = Tail(queue[p])
      /\ readers'[p] = readers[p] \/ readers'[p] = readers[p] \cup {Head(queue[p])}
      /\ compress' = compress
  BY DEF OpenInput, Lists, planVars
<1>2. /\ OwnKept(p) /\ Own(p)' = Own(p) /\ (MakingTemp(p)' <=> MakingTemp(p))
      /\ Started(p)' = Started(p) /\ (Output(p)' <=> Output(p))
      /\ Depth(p)' = Depth(p) /\ Top(p)' = Top(p) /\ TempsOf(p)' = TempsOf(p) /\ Window(p)' = Window(p)
  BY <1>1, StackKept DEF OwnKept, Own, MakingTemp, Started, Output
<1>3. FilesOK(p)' /\ InputsOK(p)' /\ CallsOK(p)'
  BY <1>1, <1>2, FilesKept, InputsKept, CallsKept DEF PlayerOK
<1>4. /\ Range(queue[p]) = Range(Tail(queue[p])) \cup {Head(queue[p])}
      /\ Range(queue[p]) \cup readers[p] \subseteq Own(p) \ {target[p]} /\ IsFiniteSet(readers[p])
  BY <1>1, TailFacts DEF PlayerOK, PlaceOK
<1>5. /\ Range(queue'[p]) \cup readers'[p] \subseteq Range(queue[p]) \cup readers[p]
      /\ IsFiniteSet(readers'[p])
  BY <1>1, <1>4, FS_AddElement
<1>6. PlaceOK(p)'
  <2>1. PlaceOK(p)
    BY DEF PlayerOK
  <2> QED BY <1>1, <1>2, <1>4, <1>5, <2>1 DEF PlaceOK
<1>7. GrantOK(p)'
  <2>1. PICK S \in SUBSET Own(p), T \in SUBSET Own(p) :
          T \subseteq S /\ S = Range(queue[p]) \cup readers[p] /\ T = Range(queue'[p]) \cup readers'[p]
    BY <1>4, <1>5
  <2>2. Cardinality(BoardsOf(T)) <= Cardinality(BoardsOf(S))
        /\ Cardinality(BoardsOf(T)) \in Nat /\ Cardinality(BoardsOf(S)) \in Nat
    BY <2>1, OwnBoards
  <2>3. BoardsOf(Range(queue[p]) \cup readers[p])' = BoardsOf(T)
    BY <1>1, <2>1 DEF BoardsOf
  <2>4. GrantOK(p)
    BY DEF PlayerOK
  <2>5. CASE Depth(p) = 1 /\ MakingTemp(p)
    <3>1. compress = "none" => Cardinality(BoardsOf(S)) + Trailer <= stack[p][1].granted
      BY <1>1, <2>1, <2>4, <2>5 DEF GrantOK
    <3>2. stack[p][1].granted \in Nat
      <4>1. stack[p][1] \in Calls
        BY <2>5, CallFacts
      <4> QED BY <4>1 DEF Calls
    <3>3. compress = "none" => Cardinality(BoardsOf(T)) + Trailer <= stack[p][1].granted
      BY <2>2, <3>1, <3>2, Consts
    <3> QED BY <1>1, <1>2, <2>3, <2>5, <3>3 DEF GrantOK
  <2>6. CASE ~(Depth(p) = 1 /\ MakingTemp(p))
    BY <1>1, <1>2, <2>4, <2>6 DEF GrantOK
  <2> QED BY <2>5, <2>6
<1> QED BY <1>3, <1>6, <1>7 DEF PlayerOK

(* An output is created, empty, on the drive it belongs to.                *)
LEMMA PlayerCreateOutput ==
  ASSUME NEW p \in Players, TypeOK, Lists, PlayerOK(p), CreateOutput(p)
  PROVE  PlayerOK(p)'
<1> DEFINE x == target[p]
<1>1. /\ pc[p] = "open" /\ stack' = stack /\ inputs' = inputs /\ probe' = probe
      /\ target' = target /\ tempCount' = tempCount /\ queue' = queue /\ readers' = readers
      /\ compress' = compress /\ reserved' = reserved /\ early' = early /\ queue[p] = <<>>
  BY DEF CreateOutput, planVars, kwayVars
<1>2. CASE UNCHANGED <<disk, pc>>
  <2>1. Kept(p)
    BY <1>1, <1>2 DEF Kept, OwnKept, Own
  <2> QED BY <2>1, PlayerKept
<1>3. CASE /\ disk' = [n \in DOMAIN disk \cup {x} |->
                         IF n = x THEN [drive |-> TargetDrive(p), boards |-> {}, bytes |-> 0, closed |-> FALSE, over |-> 0]
                                  ELSE disk[n]]
           /\ pc'[p] = "write"
  <2>1. /\ x \in Names /\ x.player = p /\ x \notin Own(p) /\ x.kind # "input"
        /\ (x = Store(p) \/ (x.kind = "temp" /\ MakingTemp(p)))
    <3>1. x \in Names /\ Store(p).player = p /\ Store(p).kind = "store"
      BY NameFacts DEF Lists
    <3>2. x = Store(p) \/ x.kind = "temp"
      BY <1>1 DEF PlayerOK, PlaceOK
    <3>3. CASE x = Store(p)
      <4>1. Output(p) <=> Store(p) \in Own(p)
        BY <1>1 DEF PlayerOK, PlaceOK
      <4>2. ~Output(p)
        BY <1>1 DEF Output
      <4>3. x \notin Own(p)
        BY <3>3, <4>1, <4>2
      <4>4. x.kind = "store" /\ x.player = p
        BY <3>1, <3>3
      <4> QED BY <3>1, <3>3, <4>3, <4>4
    <3>4. CASE x.kind = "temp"
      BY <1>1, <3>1, <3>4 DEF PlayerOK, PlaceOK, MakingTemp
    <3> QED BY <3>1, <3>2, <3>3, <3>4
  <2>2. /\ Own(p)' = Own(p) \cup {x} /\ \A n \in Own(p) : disk'[n] = disk[n]
        /\ disk'[x] = [drive |-> TargetDrive(p), boards |-> {}, bytes |-> 0, closed |-> FALSE, over |-> 0]
    BY <1>3, <2>1 DEF Own
  <2>3. TargetDrive(p) \in Drives /\ (x = Store(p) => TargetDrive(p) = StoreDrive)
    <3>1. probe[p].at \in 1..Len(TempDrives)
      BY DEF Lists, Probes
    <3> QED BY <3>1, Consts DEF TargetDrive
  <2>4. FilesOK(p)'
    <3>1. IsFiniteSet(Own(p)')
      BY <2>2, PlayerFacts, FS_AddElement
    <3>2. FileOK(x)'
      <4>1. disk'[x] \in Files
        BY <2>2, <2>3 DEF Files
      <4>2. Bytes(x)' = 0 /\ IsFiniteSet(disk'[x].boards) /\ disk'[x].over <= Bytes(x)'
        <5>1. disk'[x].bytes = 0 /\ disk'[x].boards = {} /\ disk'[x].over = 0
          BY <2>2
        <5> QED BY <1>1, <5>1, FS_EmptySet DEF Bytes
      <4>4. x.kind = "store" => x.idx = 0 /\ disk'[x].drive = StoreDrive
        BY <2>1, <2>2, <2>3, NameFacts
      <4> QED BY <1>1, <2>1, <4>1, <4>2, <4>4 DEF FileOK
    <3>3. ASSUME NEW n \in Own(p) PROVE FileOK(n)'
      BY <1>1, <2>1, <2>2 DEF PlayerOK, FilesOK, FileOK, Bytes, PlainBytes
    <3> QED BY <1>1, <2>2, <3>1, <3>2, <3>3 DEF FilesOK
  <2>5. InputsOK(p)'
    BY <1>1, <2>1, <2>2 DEF PlayerOK, InputsOK
  <2>6. /\ Depth(p)' = Depth(p) /\ Top(p)' = Top(p) /\ TempsOf(p)' = TempsOf(p) /\ Window(p)' = Window(p)
        /\ (MakingTemp(p)' <=> MakingTemp(p)) /\ (MakingTemp(p) <=> x.kind = "temp")
        /\ (x = Store(p) <=> x.kind # "temp")
    <3>1. /\ Depth(p)' = Depth(p) /\ Top(p)' = Top(p) /\ TempsOf(p)' = TempsOf(p) /\ Window(p)' = Window(p)
      BY <1>1, StackKept
    <3>2. /\ (MakingTemp(p)' <=> MakingTemp(p)) /\ (MakingTemp(p) <=> x.kind = "temp")
      BY <1>1, <1>3 DEF MakingTemp
    <3> QED BY <2>1, <3>1, <3>2, NameFacts
  <2>7. CallsOK(p)'
    <3>1. Started(p)' = (IF x.kind = "temp" THEN {x} ELSE {}) /\ Started(p) = {}
      BY <1>1, <1>3, <2>6 DEF Started
    <3>2. \A k \in 1..Depth(p) : CallOK(p, k)'
      BY <1>1, <2>2 DEF PlayerOK, CallsOK, CallOK
    <3>3. {n \in Own(p)' : n.kind = "temp"} = TempsOf(p) \cup Started(p)'
      BY <2>1, <2>2, <3>1 DEF PlayerOK, CallsOK
    <3>4. \A k, l \in 1..Depth(p) : k # l => Range(stack[p][k].temps) \cap Range(stack[p][l].temps) = {}
      BY DEF PlayerOK, CallsOK
    <3> QED BY <1>1, <2>6, <3>2, <3>3, <3>4 DEF CallsOK
  <2>8. PlaceOK(p)'
    <3>1. PlaceOK(p) /\ Range(queue[p]) \cup readers[p] \subseteq Own(p) \ {x} /\ IsFiniteSet(readers[p])
      BY <1>1 DEF PlayerOK, PlaceOK
    <3>2. Output(p)' <=> x = Store(p)
      BY <1>1, <1>3 DEF Output
    <3>3. Store(p) \in Own(p)' <=> x = Store(p)
      <4>1. Store(p) \notin Own(p)
        BY <1>1, <3>1 DEF PlaceOK, Output
      <4> QED BY <2>2, <4>1
    <3> QED BY <1>1, <1>3, <2>1, <2>2, <2>6, <3>1, <3>2, <3>3 DEF PlaceOK, Alone, Within
  <2>9. GrantOK(p)'
    <3>1. GrantOK(p)
      BY DEF PlayerOK
    <3>2. Range(queue[p]) \cup readers[p] \subseteq Own(p)
      BY <1>1 DEF PlayerOK, PlaceOK
    <3>3. BoardsOf(Range(queue[p]) \cup readers[p])' = BoardsOf(Range(queue[p]) \cup readers[p])
      BY <1>1, <2>2, <3>2 DEF BoardsOf
    <3>4. CASE Depth(p) = 1 /\ MakingTemp(p)
      <4>1. compress = "none" =>
              Cardinality(BoardsOf(Range(queue[p]) \cup readers[p])) + Trailer <= stack[p][1].granted
        BY <1>1, <3>1, <3>4 DEF GrantOK
      <4>2. stack[p][1].granted \in Nat
        <5>1. stack[p][1] \in Calls
          BY <3>4, CallFacts
        <5> QED BY <5>1 DEF Calls
      <4>3. Bytes(x)' = 0 /\ disk'[x].over = 0 /\ disk'[x].drive = TempDrives[probe[p].at]
        BY <1>1, <2>2, <2>6, <3>4 DEF Bytes, TargetDrive
      <4> QED BY <1>1, <1>3, <2>6, <3>3, <3>4, <4>1, <4>2, <4>3 DEF GrantOK
    <3>5. CASE ~(Depth(p) = 1 /\ MakingTemp(p))
      BY <1>1, <2>6, <3>1, <3>5 DEF GrantOK
    <3> QED BY <3>4, <3>5
  <2> QED BY <2>4, <2>5, <2>7, <2>8, <2>9 DEF PlayerOK
<1> QED BY <1>2, <1>3, GoesTo DEF CreateOutput

(* An output's size, and by how much it outgrows what was granted for it.  *)
LEMMA OutSizesAre ==
  ASSUME NEW B, IsFiniteSet(B), NEW b \in OutSizes(B)
  PROVE  /\ b \in Nat
         /\ compress = "none" => b = Cardinality(B) + Trailer
<1>1. Cardinality(B) \in Nat /\ Trailer \in Nat /\ Packed \subseteq Nat
  BY FS_CardinalityType, Consts, EolAssumption
<1>2. CASE compress = "none"
  BY <1>1, <1>2 DEF OutSizes, PlainBytes
<1>3. CASE compress # "none"
  <2>1. PICK k \in Packed : b = k + Trailer
    BY <1>3 DEF OutSizes
  <2> QED BY <1>1, <1>3, <2>1
<1> QED BY <1>2, <1>3

(* What exceeds a grant is no more than the bytes, and with the grant it   *)
(* covers them.                                                            *)
LEMMA BeyondIs ==
  ASSUME NEW b \in Nat, NEW g \in Nat
  PROVE  Beyond(b, g) \in Nat /\ Beyond(b, g) <= b /\ b <= g + Beyond(b, g)
         /\ (b <= g => Beyond(b, g) = 0)
BY DEF Beyond

(* The output holds boards of its inputs, and no more bytes than was       *)
(* granted but for what it is over.                                        *)
LEMMA PlayerWriteOutput ==
  ASSUME NEW p \in Players, TypeOK, Lists, PlayerOK(p), WriteOutput(p)
  PROVE  PlayerOK(p)'
<1> DEFINE x == target[p]
<1>1. /\ pc[p] = "write" /\ stack' = stack /\ inputs' = inputs /\ probe' = probe
      /\ target' = target /\ tempCount' = tempCount /\ queue' = queue /\ readers'[p] = {}
      /\ compress' = compress
  <2>1. readers \in [Players -> SUBSET Names]
    BY DEF Lists
  <2> QED BY <2>1 DEF WriteOutput, planVars
<1>2. PICK out, b, o :
        /\ out \in SUBSET BoardsOf(readers[p]) /\ b \in OutSizes(out) /\ o = Overrun(p, b)
        /\ disk' = [disk EXCEPT ![x] = [@ EXCEPT !.boards = out, !.bytes = b, !.closed = TRUE, !.over = o]]
  BY DEF WriteOutput, BoardsOf
<1>3. pc'[p] = IF x.kind = "temp" THEN "temp" ELSE IF stack[p] = <<>> THEN "single" ELSE "unwind"
  BY GoesTo DEF WriteOutput
<1>4. /\ x \in Names /\ x.player = p /\ x \in Own(p) /\ x.kind # "input"
      /\ (x = Store(p) <=> x.kind # "temp") /\ (MakingTemp(p) <=> x.kind = "temp")
      /\ (x.kind = "temp" => stack[p] # <<>>)
  <2>1. x \in Names /\ Store(p).player = p /\ Store(p).kind = "store"
    BY NameFacts DEF Lists
  <2>2. x = Store(p) \/ x.kind = "temp"
    BY <1>1 DEF PlayerOK, PlaceOK
  <2>3. MakingTemp(p) <=> x.kind = "temp"
    BY <1>1 DEF MakingTemp
  <2>4. CASE x = Store(p)
    BY <1>1, <2>1, <2>3, <2>4 DEF PlayerOK, PlaceOK, Output
  <2>5. CASE x.kind = "temp"
    BY <1>1, <2>1, <2>3, <2>5 DEF PlayerOK, PlaceOK
  <2> QED BY <2>1, <2>2, <2>3, <2>4, <2>5
<1>5. /\ Own(p)' = Own(p) /\ \A n \in Own(p) : n # x => disk'[n] = disk[n]
      /\ disk'[x] = [disk[x] EXCEPT !.boards = out, !.bytes = b, !.closed = TRUE, !.over = o]
  BY <1>2, <1>4 DEF Own
<1>6. readers[p] \subseteq Own(p) /\ Range(queue[p]) \cup readers[p] \subseteq Own(p)
  BY <1>1 DEF PlayerOK, PlaceOK
<1>7. IsFiniteSet(out) /\ out \in SUBSET Boards /\ Cardinality(out) \in Nat
      /\ Cardinality(out) <= Cardinality(BoardsOf(Range(queue[p]) \cup readers[p]))
      /\ Cardinality(BoardsOf(Range(queue[p]) \cup readers[p])) \in Nat
  <2>1. PICK S \in SUBSET Own(p), T \in SUBSET Own(p) :
          T \subseteq S /\ S = Range(queue[p]) \cup readers[p] /\ T = readers[p]
    BY <1>6
  <2>2. /\ IsFiniteSet(BoardsOf(S)) /\ BoardsOf(S) \in SUBSET Boards /\ BoardsOf(T) \subseteq BoardsOf(S)
        /\ Cardinality(BoardsOf(S)) \in Nat
    BY <2>1, OwnBoards
  <2>3. out \in SUBSET BoardsOf(S)
    BY <1>2, <2>1, <2>2
  <2> QED BY <2>1, <2>2, <2>3, FS_Subset, FS_CardinalityType
<1>8. /\ b \in Nat /\ o \in Nat /\ o <= b
      /\ Depth(p) = 1 /\ MakingTemp(p) => o = Beyond(b, stack[p][1].granted) /\ stack[p][1].granted \in Nat
  <2>1. b \in Nat /\ reserved[p] \in Nat
    BY <1>2, <1>7, OutSizesAre DEF TypeOK
  <2>2. ASSUME stack[p] # <<>> PROVE Top(p).granted \in Nat
    BY <2>2, CallFacts DEF Calls
  <2>3. CASE x = Store(p)
    <3>1. o = Beyond(b, reserved[p]) /\ ~MakingTemp(p)
      BY <1>2, <1>4, <2>3 DEF Overrun, Granted
    <3> QED BY <2>1, <3>1, BeyondIs
  <2>4. CASE x # Store(p) /\ Depth(p) > 1
    <3>1. o = 0 /\ Depth(p) # 1
      BY <1>2, <2>4 DEF Overrun
    <3> QED BY <2>1, <3>1
  <2>5. CASE x # Store(p) /\ ~(Depth(p) > 1)
    <3>1. o = Beyond(b, Top(p).granted)
      BY <1>2, <2>5 DEF Overrun, Granted
    <3>2. stack[p] # <<>> /\ (Depth(p) = 1 => Top(p) = stack[p][1])
      BY <1>4, <2>5 DEF Top
    <3> QED BY <2>1, <2>2, <3>1, <3>2, BeyondIs
  <2> QED BY <2>3, <2>4, <2>5
<1>9. disk'[x].boards = out /\ disk'[x].bytes = b /\ disk'[x].drive = disk[x].drive
      /\ disk'[x].over = o /\ disk'[x] \in Files
  <2>1. disk[x] \in Files
    BY <1>4 DEF PlayerOK, FilesOK, FileOK
  <2> QED BY <1>5, <1>7, <1>8, <2>1 DEF Files
<1>10. FilesOK(p)'
  <2>1. FileOK(x)'
    BY <1>1, <1>4, <1>7, <1>8, <1>9 DEF FileOK, Bytes, PlayerOK, FilesOK
  <2>2. ASSUME NEW n \in Own(p), n # x PROVE FileOK(n)'
    BY <1>1, <1>5, <2>2 DEF PlayerOK, FilesOK, FileOK, Bytes, PlainBytes
  <2> QED BY <1>1, <1>5, <2>1, <2>2 DEF FilesOK, PlayerOK
<1>11. /\ Depth(p)' = Depth(p) /\ Top(p)' = Top(p) /\ TempsOf(p)' = TempsOf(p) /\ Window(p)' = Window(p)
  BY <1>1, StackKept
<1>12. (MakingTemp(p)' <=> MakingTemp(p)) /\ Started(p)' = Started(p)
  BY <1>1, <1>3, <1>4 DEF MakingTemp, Started
<1>13. InputsOK(p)' /\ CallsOK(p)'
  BY <1>1, <1>5, <1>12, InputsKept, CallsKept DEF PlayerOK
<1>14. PlaceOK(p)'
  <2>1. PlaceOK(p)
    BY DEF PlayerOK
  <2>2. (Output(p)' <=> x = Store(p)) /\ (Output(p) <=> x = Store(p))
    BY <1>1, <1>3, <1>4 DEF Output
  <2> QED BY <1>1, <1>3, <1>4, <1>5, <1>11, <1>12, <2>1, <2>2 DEF PlaceOK, Alone, Within
<1>15. GrantOK(p)'
  <2>1. GrantOK(p)
    BY DEF PlayerOK
  <2>2. CASE Depth(p) = 1 /\ MakingTemp(p)
    <3>1. disk[x].drive = TempDrives[probe[p].at]
      BY <1>1, <2>1, <2>2 DEF GrantOK
    <3>3. b <= stack[p][1].granted + o
      BY <1>8, <2>2, BeyondIs
    <3> QED BY <1>1, <1>3, <1>4, <1>9, <1>11, <1>12, <2>2, <3>1, <3>3 DEF GrantOK, Bytes
  <2>3. CASE ~(Depth(p) = 1 /\ MakingTemp(p))
    BY <1>1, <1>11, <1>12, <2>1, <2>3 DEF GrantOK
  <2> QED BY <2>2, <2>3
<1> QED BY <1>10, <1>13, <1>14, <1>15 DEF PlayerOK

----------------------------------------------------------------------------
(* What a step does to the player's own files and lists: mergePlayer.      *)

(* A step that neither touches a file of p nor begins or ends a temporary. *)
LEMMA QuietStep ==
  ASSUME NEW p \in Players, PlayerOK(p), OwnKept(p), inputs'[p] = inputs[p], stack'[p] = stack[p],
         tempCount'[p] = tempCount[p], ~MakingTemp(p), ~MakingTemp(p)'
  PROVE  /\ FilesOK(p)' /\ InputsOK(p)' /\ CallsOK(p)' /\ GrantOK(p)'
         /\ Own(p)' = Own(p)
         /\ Depth(p)' = Depth(p) /\ Top(p)' = Top(p) /\ TempsOf(p)' = TempsOf(p) /\ Window(p)' = Window(p)
<1>1. Own(p)' = Own(p) /\ FilesOK(p) /\ InputsOK(p) /\ CallsOK(p) /\ GrantOK(p)
  BY DEF OwnKept, PlayerOK
<1>2. Depth(p)' = Depth(p) /\ Top(p)' = Top(p) /\ TempsOf(p)' = TempsOf(p) /\ Window(p)' = Window(p)
  BY StackKept
<1>3. Started(p)' = Started(p)
  BY DEF Started
<1>4. GrantOK(p)'
  BY <1>1, <1>2 DEF GrantOK
<1> QED BY <1>1, <1>2, <1>3, <1>4, FilesKept, InputsKept, CallsKept

(* Without a call there are no temporaries.                                *)
LEMMA NoCallFacts ==
  ASSUME NEW p \in Players, TypeOK, Lists, PlayerOK(p), stack[p] = <<>>, pc[p] \in Alone
  PROVE  /\ Depth(p) = 0 /\ TempsOf(p) = {} /\ Started(p) = {} /\ ~MakingTemp(p)
         /\ \A n \in Own(p) : n.kind # "temp"
         /\ \A n \in Own(p) : n.kind = "input" <=> n \in Range(inputs[p])
<1>1. Depth(p) = 0 /\ 1..0 = {}
  BY CallFacts
<1>2. TempsOf(p) = {}
  BY <1>1 DEF TempsOf
<1>3. Started(p) = {} /\ ~MakingTemp(p)
  BY DEF Started, MakingTemp, Alone, PlayerOK, PlaceOK
<1> QED BY <1>1, <1>2, <1>3 DEF PlayerOK, CallsOK, InputsOK

(* Steps that only move the thread on.                                     *)
LEMMA PlayerMoves ==
  ASSUME NEW p \in Players, TypeOK, Lists, PlayerOK(p),
         NoFiles(p) \/ Settle(p) \/ ReclaimInput(p) \/ FinishPlayer(p)
  PROVE  PlayerOK(p)'
<1>1. /\ disk' = disk /\ inputs' = inputs /\ stack' = stack /\ tempCount' = tempCount /\ compress' = compress
      /\ target' = target /\ probe' = probe /\ readers' = readers /\ queue' = queue
  BY DEF NoFiles, Settle, ReclaimInput, FinishPlayer, planVars, kwayVars
<1>2. \/ pc[p] = "begin" /\ pc'[p] = "done" /\ inputs[p] = <<>>
      \/ pc[p] = "settle" /\ pc'[p] = "inputs"
      \/ pc[p] = "inputs" /\ pc'[p] = "deleteInput" /\ inputs[p] # <<>>
      \/ pc[p] = "inputs" /\ pc'[p] = "done" /\ inputs[p] = <<>>
  BY GoesTo DEF NoFiles, Settle, ReclaimInput, FinishPlayer
<1>3. OwnKept(p) /\ ~MakingTemp(p) /\ ~MakingTemp(p)' /\ stack[p] = <<>>
  BY <1>1, <1>2 DEF OwnKept, Own, MakingTemp, PlayerOK, PlaceOK, Alone
<1>4. /\ FilesOK(p)' /\ InputsOK(p)' /\ CallsOK(p)' /\ GrantOK(p)' /\ Own(p)' = Own(p)
      /\ Depth(p)' = Depth(p) /\ Top(p)' = Top(p) /\ TempsOf(p)' = TempsOf(p) /\ Window(p)' = Window(p)
  BY <1>1, <1>3, QuietStep
<1>5. PlaceOK(p)'
  <2>1. PlaceOK(p)
    BY DEF PlayerOK
  <2>2. pc'[p] = "done" \/ (Output(p)' <=> Output(p))
    BY <1>2 DEF Output
  <2> QED BY <1>1, <1>2, <1>3, <1>4, <2>1, <2>2 DEF PlaceOK, Alone, Within
<1> QED BY <1>4, <1>5 DEF PlayerOK

(* The only input is to be copied with compression.                        *)
LEMMA PlayerRecompressSingle ==
  ASSUME NEW p \in Players, TypeOK, Lists, PlayerOK(p), RecompressSingle(p)
  PROVE  PlayerOK(p)'
<1>1. /\ disk' = disk /\ inputs' = inputs /\ stack' = stack /\ tempCount' = tempCount
      /\ probe' = probe /\ readers' = readers /\ pc[p] = "begin" /\ pc'[p] = "open"
      /\ Len(inputs[p]) = 1 /\ queue'[p] = inputs[p] /\ target'[p] = Store(p)
      /\ compress # "none" /\ compress' = compress
  BY GoesTo DEF RecompressSingle, BeginKWay, planVars, Lists
<1>2. OwnKept(p) /\ ~MakingTemp(p) /\ ~MakingTemp(p)' /\ stack[p] = <<>>
  BY <1>1, NameFacts DEF OwnKept, Own, MakingTemp, PlayerOK, PlaceOK, Alone
<1>3. /\ FilesOK(p)' /\ InputsOK(p)' /\ CallsOK(p)' /\ GrantOK(p)' /\ Own(p)' = Own(p)
      /\ Depth(p)' = Depth(p) /\ Top(p)' = Top(p) /\ TempsOf(p)' = TempsOf(p) /\ Window(p)' = Window(p)
  BY <1>1, <1>2, QuietStep
<1>4. PlaceOK(p)'
  <2>1. PlaceOK(p) /\ readers[p] = {}
    BY <1>1 DEF PlayerOK, PlaceOK
  <2>2. ~Output(p) /\ ~Output(p)'
    BY <1>1 DEF Output
  <2>3. Range(inputs[p]) \subseteq Own(p) \ {Store(p)}
    BY NameFacts DEF PlayerOK, InputsOK
  <2>4. IsFiniteSet(readers'[p]) /\ Range(queue'[p]) \cup readers'[p] \subseteq Own(p) \ {target'[p]}
    BY <1>1, <2>1, <2>3, FS_EmptySet
  <2> QED BY <1>1, <1>2, <1>3, <2>1, <2>2, <2>4 DEF PlaceOK, Alone, Within
<1> QED BY <1>3, <1>4 DEF PlayerOK

(* The only input.                                                         *)
LEMMA OnlyInput ==
  ASSUME NEW p \in Players, Lists, PlayerOK(p), Len(inputs[p]) = 1
  PROVE  /\ inputs[p][1] \in Own(p) /\ inputs[p][1].kind = "input"
         /\ Range(inputs[p]) = {inputs[p][1]} /\ inputs[p] # <<>>
<1>1. inputs[p] \in Seq(Names)
  BY DEF Lists
<1>2. /\ \A i \in 1..Len(inputs[p]) : inputs[p][i] \in Range(inputs[p])
      /\ \A n \in Range(inputs[p]) : \E i \in 1..Len(inputs[p]) : inputs[p][i] = n
      /\ inputs[p] = <<>> <=> Len(inputs[p]) = 0
  BY <1>1, RangeFacts
<1>3. Range(inputs[p]) = {inputs[p][1]}
  BY <1>2
<1> QED BY <1>2, <1>3 DEF PlayerOK, InputsOK

(* Without inputs and calls, the player is done.                           *)
LEMMA DoneIsOK ==
  ASSUME NEW p \in Players, TypeOK, Lists', stack'[p] = <<>>, inputs'[p] = <<>>, pc'[p] = "done",
         readers'[p] = {}, FilesOK(p)', \A n \in Own(p)' : n.kind \notin {"input", "temp"}
  PROVE  PlayerOK(p)'
<1>1. Depth(p)' = 0 /\ 1..0 = {}
  BY EmptySeq DEF Depth
<1>2. ~MakingTemp(p)' /\ Started(p)' = {} /\ TempsOf(p)' = {}
  BY <1>1 DEF MakingTemp, Started, TempsOf
<1>3. InputsOK(p)'
  <2>1. Range(<<>>) = {} /\ Once(<<>>)
    <3>1. <<>> \in Seq(Names) /\ DOMAIN <<>> = {}
      BY EmptySeq, LenProperties
    <3> QED BY <3>1, RangeFacts DEF Once
  <2> QED BY <2>1 DEF InputsOK
<1>4. CallsOK(p)'
  BY <1>1, <1>2 DEF CallsOK
<1>5. PlaceOK(p)'
  BY <1>2 DEF PlaceOK, Within
<1>6. GrantOK(p)'
  BY <1>1 DEF GrantOK
<1> QED BY <1>3, <1>4, <1>5, <1>6 DEF PlayerOK

(* The only input is deleted.                                              *)
LEMMA PlayerFinishSingle ==
  ASSUME NEW p \in Players, TypeOK, Lists, PlayerOK(p), FinishSingle(p), Lists'
  PROVE  PlayerOK(p)'
<1>1. /\ stack' = stack /\ readers' = readers /\ pc[p] = "single" /\ pc'[p] = "done"
      /\ compress' = compress /\ inputs'[p] = <<>> /\ disk' = Restrict(disk, DOMAIN disk \ {inputs[p][1]})
  BY GoesTo DEF FinishSingle, kwayVars, Lists
<1>2. stack[p] = <<>> /\ readers[p] = {} /\ Len(inputs[p]) = 1
  BY <1>1 DEF PlayerOK, PlaceOK, Alone
<1>3. PICK x \in Own(p) : x = inputs[p][1] /\ Range(inputs[p]) = {x}
  BY <1>2, OnlyInput
<1>4. /\ Own(p)' = Own(p) \ {x} /\ \A n \in Own(p) \ {x} : disk'[n] = disk[n]
  BY <1>1, <1>3 DEF Own, Restrict
<1>5. \A n \in Own(p)' : n.kind \notin {"input", "temp"}
  BY <1>1, <1>2, <1>3, <1>4, NoCallFacts DEF Alone
<1>6. FilesOK(p)'
  <2>1. IsFiniteSet(Own(p) \ {x})
    BY PlayerFacts, FS_Subset
  <2> QED BY <1>1, <1>4, <2>1 DEF PlayerOK, FilesOK, FileOK, Bytes, PlainBytes
<1> QED BY <1>1, <1>2, <1>5, <1>6, DoneIsOK

(* The only input becomes the output.                                      *)
LEMMA PlayerMoveSingle ==
  ASSUME NEW p \in Players, TypeOK, Lists, PlayerOK(p), MoveSingle(p), Lists'
  PROVE  PlayerOK(p)'
<1>1. /\ stack' = stack /\ readers' = readers /\ pc[p] = "begin" /\ pc'[p] = "done"
      /\ inputs'[p] = <<>> /\ Len(inputs[p]) = 1 /\ compress' = compress
  BY GoesTo DEF MoveSingle, kwayVars, Lists
<1>2. stack[p] = <<>> /\ readers[p] = {}
  BY <1>1 DEF PlayerOK, PlaceOK, Alone
<1>3. PICK x \in Own(p) : x = inputs[p][1] /\ Range(inputs[p]) = {x}
  BY <1>1, OnlyInput
<1>4. PICK s \in Names : s = Store(p) /\ s.player = p /\ s.kind = "store" /\ s.idx = 0
  BY NameFacts
<1>5. disk' = [n \in (DOMAIN disk \ {x}) \cup {s} |->
                 IF n = s THEN [disk[x] EXCEPT !.drive = StoreDrive] ELSE disk[n]]
  BY <1>3, <1>4 DEF MoveSingle
<1>6. /\ Own(p)' = (Own(p) \ {x}) \cup {s} /\ \A n \in Own(p)' : n # s => disk'[n] = disk[n]
      /\ disk'[s] = [disk[x] EXCEPT !.drive = StoreDrive]
  BY <1>4, <1>5 DEF Own
<1>7. \A n \in Own(p)' : n.kind \notin {"input", "temp"}
  BY <1>1, <1>2, <1>3, <1>4, <1>6, NoCallFacts DEF Alone
<1>8. FilesOK(p)'
  <2>1. IsFiniteSet((Own(p) \ {x}) \cup {s})
    BY PlayerFacts, FS_RemoveElement, FS_AddElement
  <2>2. FileOK(s)'
    <3>1. disk[x] \in Files /\ FileOK(x)
      BY DEF PlayerOK, FilesOK, FileOK
    <3>2. disk'[s] \in Files /\ disk'[s].drive = StoreDrive /\ disk'[s].boards = disk[x].boards
          /\ disk'[s].bytes = disk[x].bytes /\ disk'[s].over = disk[x].over
      BY <1>6, <3>1, Consts DEF Files
    <3> QED BY <1>4, <3>1, <3>2 DEF FileOK, Bytes, PlainBytes
  <2>3. ASSUME NEW n \in Own(p), n # s PROVE n \in Own(p)' => FileOK(n)'
    BY <1>1, <1>6, <2>3 DEF PlayerOK, FilesOK, FileOK, Bytes, PlainBytes
  <2> QED BY <1>6, <2>1, <2>2, <2>3 DEF FilesOK
<1> QED BY <1>1, <1>2, <1>7, <1>8, DoneIsOK

(* The outermost call begins with all inputs.                              *)
LEMMA PlayerMergeSeveral ==
  ASSUME NEW p \in Players, TypeOK, Lists, PlayerOK(p), MergeSeveral(p)
  PROVE  PlayerOK(p)'
<1>1. /\ disk' = disk /\ inputs' = inputs /\ tempCount' = tempCount /\ target' = target /\ compress' = compress
      /\ readers' = readers /\ pc[p] = "begin" /\ pc'[p] = "cascade" /\ Len(inputs[p]) > 1
      /\ stack'[p] = <<Call(inputs[p])>> /\ inputs[p] \in Seq(Names) /\ Len(inputs[p]) \in Nat
  BY GoesTo, LenProperties DEF MergeSeveral, planVars, kwayVars, Lists
<1>2. /\ stack[p] = <<>> /\ readers[p] = {} /\ OwnKept(p) /\ Own(p)' = Own(p)
      /\ ~MakingTemp(p)' /\ Started(p)' = {}
  BY <1>1 DEF PlayerOK, PlaceOK, Alone, OwnKept, Own, MakingTemp, Started
<1>3. \A n \in Own(p) : n.kind # "temp"
  BY <1>1, <1>2, NoCallFacts DEF Alone
<1>4. /\ Depth(p)' = 1 /\ stack'[p][1] = Call(inputs[p]) /\ Top(p)' = Call(inputs[p])
      /\ stack'[p] # <<>>
  BY <1>1 DEF Depth, Top
<1>5. /\ Call(inputs[p]).ins = inputs[p] /\ Call(inputs[p]).pos = 0 /\ Call(inputs[p]).temps = <<>>
      /\ Call(inputs[p]).granted = 0
  BY <1>1, CallType
<1>6. Range(<<>>) = {} /\ Once(<<>>)
  <2>1. <<>> \in Seq(Names) /\ DOMAIN <<>> = {}
    BY EmptySeq, LenProperties
  <2> QED BY <2>1, RangeFacts DEF Once
<1>7. TempsOf(p)' = {}
  BY <1>4, <1>5, <1>6 DEF TempsOf
<1>8. FilesOK(p)' /\ InputsOK(p)'
  BY <1>1, <1>2, FilesKept, InputsKept DEF PlayerOK
<1>9. CallsOK(p)'
  <2>1. CallOK(p, 1)'
    BY <1>1, <1>4, <1>5, <1>6 DEF CallOK
  <2>2. \A k \in 1..1 : k = 1
    OBVIOUS
  <2> QED BY <1>2, <1>3, <1>4, <1>7, <2>1, <2>2 DEF CallsOK
<1>10. PlaceOK(p)'
  <2>1. PlaceOK(p)
    BY DEF PlayerOK
  <2>2. ~Output(p) /\ ~Output(p)'
    BY <1>1 DEF Output
  <2> QED BY <1>1, <1>2, <1>4, <2>1, <2>2 DEF PlaceOK, Alone, Within
<1>11. GrantOK(p)'
  BY <1>1, <1>2, <1>4, <1>5 DEF GrantOK
<1> QED BY <1>8, <1>9, <1>10, <1>11 DEF PlayerOK

(* One input is deleted, the first in the list.                            *)
LEMMA PlayerDeleteInput ==
  ASSUME NEW p \in Players, TypeOK, Lists, PlayerOK(p), DeleteInput(p)
  PROVE  PlayerOK(p)'
<1>1. /\ stack' = stack /\ readers' = readers /\ pc[p] = "deleteInput" /\ pc'[p] = "inputs"
      /\ target' = target /\ tempCount' = tempCount /\ compress' = compress
      /\ inputs'[p] = Tail(inputs[p]) /\ disk' = Restrict(disk, DOMAIN disk \ {Head(inputs[p])})
      /\ inputs[p] \in Seq(Names)
  BY GoesTo DEF DeleteInput, kwayVars, Lists
<1>2. stack[p] = <<>> /\ readers[p] = {} /\ inputs[p] # <<>> /\ Once(inputs[p])
  BY <1>1 DEF PlayerOK, PlaceOK, Alone, InputsOK
<1>3. /\ Head(inputs[p]) \in Range(inputs[p]) /\ Once(Tail(inputs[p]))
      /\ Range(Tail(inputs[p])) = Range(inputs[p]) \ {Head(inputs[p])}
  BY <1>1, <1>2, TailFacts
<1>4. PICK x \in Own(p) : x = Head(inputs[p]) /\ x.kind = "input"
  BY <1>3 DEF PlayerOK, InputsOK
<1>5. /\ Own(p)' = Own(p) \ {x} /\ \A n \in Own(p) \ {x} : disk'[n] = disk[n]
  BY <1>1, <1>4 DEF Own, Restrict
<1>6. FilesOK(p)'
  <2>1. IsFiniteSet(Own(p) \ {x})
    BY PlayerFacts, FS_Subset
  <2> QED BY <1>1, <1>5, <2>1 DEF PlayerOK, FilesOK, FileOK, Bytes, PlainBytes
<1>7. InputsOK(p)'
  BY <1>1, <1>3, <1>4, <1>5 DEF PlayerOK, InputsOK
<1>8. /\ Depth(p) = 0 /\ Depth(p)' = Depth(p) /\ TempsOf(p)' = TempsOf(p) /\ TempsOf(p) = {}
      /\ Started(p)' = {} /\ ~MakingTemp(p)' /\ \A n \in Own(p) : n.kind # "temp"
  BY <1>1, <1>2, NoCallFacts, StackKept DEF Alone, Started, MakingTemp
<1>9. CallsOK(p)'
  BY <1>5, <1>8 DEF CallsOK
<1>10. PlaceOK(p)'
  <2>1. PlaceOK(p)
    BY DEF PlayerOK
  <2>2. Output(p) /\ Output(p)'
    BY <1>1 DEF Output
  <2>3. Store(p) \in Own(p)'
    BY <1>1, <1>4, <1>5, <2>1, <2>2, NameFacts DEF PlaceOK
  <2> QED BY <1>1, <1>2, <1>8, <2>1, <2>2, <2>3 DEF PlaceOK, Alone, Within
<1>11. GrantOK(p)'
  BY <1>1, <1>2, <1>8 DEF GrantOK
<1> QED BY <1>6, <1>7, <1>9, <1>10, <1>11 DEF PlayerOK

(* mergePlayer keeps the player's files and lists in order.                *)
LEMMA PlayerMergePlayer ==
  ASSUME NEW p \in Players, TypeOK, Lists, PlayerOK(p), mergePlayer(p), Lists'
  PROVE  PlayerOK(p)'
BY PlayerMoves, PlayerRecompressSingle, PlayerFinishSingle, PlayerMoveSingle, PlayerMergeSeveral,
   PlayerDeleteInput DEF mergePlayer

----------------------------------------------------------------------------
(* What a step does to the player's own files and lists: CascadingMerge.   *)

(* The thread is within a call.                                            *)
LEMMA CallHolds ==
  ASSUME NEW p \in Players, TypeOK, Lists, PlayerOK(p), pc[p] \in Within
  PROVE  /\ stack[p] # <<>> /\ Depth(p) \in Nat /\ Depth(p) \in 1..Depth(p) /\ CallOK(p, Depth(p))
         /\ Top(p) \in Calls /\ Top(p).ins \in Seq(Names) /\ Top(p).temps \in Seq(Names)
         /\ Top(p).pos \in Nat /\ Top(p).pos <= Len(Top(p).ins) /\ Top(p).granted \in Nat
         /\ Window(p) \in Nat /\ Top(p).pos + Window(p) <= Len(Top(p).ins)
         /\ Top(p).pos < Len(Top(p).ins) => Window(p) >= 1
         /\ Len(inputs[p]) >= 2 /\ readers[p] = {} /\ Once(Top(p).temps)
         /\ tempCount[p] \in Nat /\ probe[p].at \in 1..Len(TempDrives) /\ probe[p].count \in Nat
<1>1. stack[p] # <<>> /\ Len(inputs[p]) >= 2 /\ readers[p] = {}
  BY DEF PlayerOK, PlaceOK, Within
<1>2. /\ Depth(p) \in Nat /\ Depth(p) \in 1..Depth(p) /\ Top(p) \in Calls /\ Top(p).ins \in Seq(Names)
      /\ Top(p).temps \in Seq(Names) /\ Top(p).pos \in Nat /\ Top(p).granted \in Nat
  BY <1>1, CallFacts DEF Calls
<1>3. CallOK(p, Depth(p)) /\ Once(Top(p).temps)
  BY <1>2 DEF PlayerOK, CallsOK, CallOK, Top
<1>4. Top(p).pos <= Len(Top(p).ins)
  BY <1>1, GroupIsOwn
<1>5. /\ Window(p) \in Nat /\ Top(p).pos + Window(p) <= Len(Top(p).ins)
      /\ Top(p).pos < Len(Top(p).ins) => Window(p) >= 1
  BY <1>1, <1>4, WindowFacts
<1>6. tempCount[p] \in Nat /\ probe[p].at \in 1..Len(TempDrives) /\ probe[p].count \in Nat
  BY DEF Lists, Probes
<1> QED BY <1>1, <1>2, <1>3, <1>4, <1>5, <1>6

(* The temporaries of all calls but the innermost.                         *)
Lower(p) == UNION {Range(stack[p][k].temps) : k \in 1..(Depth(p) - 1)}

(* The temporaries are those of the innermost call and those below, none   *)
(* of them twice.                                                          *)
LEMMA TempsSplit ==
  ASSUME NEW p \in Players, TypeOK, Lists, PlayerOK(p), stack[p] # <<>>
  PROVE  /\ TempsOf(p) = Range(Top(p).temps) \cup Lower(p)
         /\ Range(Top(p).temps) \cap Lower(p) = {}
<1>1. /\ Depth(p) \in Nat /\ Depth(p) >= 1
      /\ \A k \in 1..(Depth(p) - 1) : k \in 1..Depth(p) /\ k # Depth(p)
      /\ \A k \in 1..Depth(p) : k = Depth(p) \/ k \in 1..(Depth(p) - 1)
      /\ Depth(p) \in 1..Depth(p)
  BY CallFacts
<1>2. TempsOf(p) = Range(Top(p).temps) \cup Lower(p)
  BY <1>1 DEF TempsOf, Lower, Top
<1>3. Range(Top(p).temps) \cap Lower(p) = {}
  BY <1>1 DEF Lower, Top, PlayerOK, CallsOK
<1> QED BY <1>2, <1>3

(* Changing the innermost call.                                            *)
LEMMA TopChanged ==
  ASSUME NEW p \in Players, TypeOK, Lists, PlayerOK(p), stack[p] # <<>>,
         NEW call \in Calls, SetTop(p, call), inputs'[p] = inputs[p],
         tempCount'[p] \in Nat, tempCount'[p] >= tempCount[p],
         Once(call.temps), call.ins = Top(p).ins, call.pos <= Len(call.ins),
         Depth(p) > 1 => call.granted = 0,
         \A n \in Range(call.temps) : n \in Own(p)' /\ n.kind = "temp" /\ n.idx < tempCount'[p],
         Lower(p) \subseteq Own(p)', Range(call.temps) \cap Lower(p) = {},
         {n \in Own(p)' : n.kind = "temp"} = Range(call.temps) \cup Lower(p) \cup Started(p)'
  PROVE  CallsOK(p)' /\ TempsOf(p)' = Range(call.temps) \cup Lower(p)
<1>1. /\ stack'[p] # <<>> /\ Depth(p)' = Depth(p) /\ Top(p)' = call /\ stack'[p][Depth(p)] = call
      /\ \A k \in 1..Depth(p) : k # Depth(p) => stack'[p][k] = stack[p][k]
  BY SetTopFacts
<1>2. /\ Depth(p) \in Nat /\ Depth(p) >= 1
      /\ \A k \in 1..(Depth(p) - 1) : k \in 1..Depth(p) /\ k # Depth(p)
      /\ \A k \in 1..Depth(p) : k = Depth(p) \/ k \in 1..(Depth(p) - 1)
      /\ Depth(p) \in 1..Depth(p)
  BY CallFacts
<1>3. TempsOf(p)' = Range(call.temps) \cup Lower(p)
  <2>1. TempsOf(p)' = UNION {Range(stack'[p][k].temps) : k \in 1..Depth(p)}
    BY <1>1 DEF TempsOf
  <2> QED BY <1>1, <1>2, <2>1 DEF Lower
<1>4. ASSUME NEW k \in 1..Depth(p), k # Depth(p) PROVE CallOK(p, k)'
  <2>1. CallOK(p, k) /\ stack'[p][k] = stack[p][k]
    BY <1>1, <1>4 DEF PlayerOK, CallsOK
  <2>2. k # 1 => k - 1 \in 1..Depth(p) /\ k - 1 # Depth(p)
    BY <1>2, <1>4
  <2>3. k # 1 => stack'[p][k - 1] = stack[p][k - 1]
    BY <1>1, <2>2
  <2>4. \A n \in Range(stack[p][k].temps) : n \in Own(p)' /\ n.idx < tempCount'[p]
    <3>1. Range(stack[p][k].temps) \subseteq Lower(p)
      BY <1>2, <1>4 DEF Lower
    <3>2. \A n \in Range(stack[p][k].temps) : n.idx \in Nat /\ n.idx < tempCount[p] /\ n \in Own(p)'
      BY <2>1, <3>1, PlayerFacts, NameFacts DEF CallOK
    <3>3. tempCount[p] \in Nat
      BY DEF Lists
    <3> QED BY <3>2, <3>3
  <2>5. (IF k = 1 THEN inputs[p] ELSE stack[p][k - 1].temps)
          = (IF k = 1 THEN inputs'[p] ELSE stack'[p][k - 1].temps)
    BY <2>3
  <2> QED BY <2>1, <2>4, <2>5 DEF CallOK
<1>5. CallOK(p, Depth(p)) /\ Top(p) = stack[p][Depth(p)]
  BY <1>2 DEF PlayerOK, CallsOK, Top
<1>6. PICK D : D = Depth(p)
  OBVIOUS
<1>10. CallOK(p, D)'
  <2>1. Depth(p) # 1 => Depth(p) - 1 \in 1..Depth(p) /\ Depth(p) - 1 # Depth(p)
    BY <1>2
  <2>2. Depth(p) # 1 => stack'[p][Depth(p) - 1] = stack[p][Depth(p) - 1]
    BY <1>1, <2>1
  <2>3. call.ins = IF Depth(p) = 1 THEN inputs'[p] ELSE stack'[p][Depth(p) - 1].temps
    BY <1>5, <2>2 DEF CallOK
  <2> QED BY <1>1, <1>6, <2>3 DEF CallOK
<1>7. ASSUME NEW k \in 1..Depth(p), NEW l \in 1..Depth(p), k # l
      PROVE  Range(stack'[p][k].temps) \cap Range(stack'[p][l].temps) = {}
  <2>1. CASE k # Depth(p) /\ l # Depth(p)
    BY <1>1, <1>7, <2>1 DEF PlayerOK, CallsOK
  <2>2. CASE k = Depth(p)
    <3>1. stack'[p][k] = call /\ stack'[p][l] = stack[p][l] /\ Range(stack[p][l].temps) \subseteq Lower(p)
      BY <1>1, <1>2, <1>7, <2>2 DEF Lower
    <3> QED BY <3>1
  <2>3. CASE l = Depth(p)
    <3>1. stack'[p][l] = call /\ stack'[p][k] = stack[p][k] /\ Range(stack[p][k].temps) \subseteq Lower(p)
      BY <1>1, <1>2, <1>7, <2>3 DEF Lower
    <3> QED BY <3>1
  <2> QED BY <2>1, <2>2, <2>3
<1>8. {n \in Own(p)' : n.kind = "temp"} = TempsOf(p)' \cup Started(p)'
  BY <1>3
<1>9. \A k \in 1..Depth(p) : CallOK(p, k)'
  BY <1>4, <1>6, <1>10
<1> QED BY <1>1, <1>3, <1>7, <1>8, <1>9 DEF CallsOK

(* Steps that only move the thread on.                                     *)
LEMMA PlayerCalls ==
  ASSUME NEW p \in Players, TypeOK, Lists, PlayerOK(p),
         Direct(p) \/ NextGroup(p) \/ ReclaimTemp(p)
  PROVE  PlayerOK(p)'
<1>1. /\ disk' = disk /\ inputs' = inputs /\ stack' = stack /\ tempCount' = tempCount
      /\ readers' = readers /\ compress' = compress
      /\ pc[p] \in {"cascade", "unwind"} /\ pc'[p] \in {"open", "probe", "deleteTemp"}
      /\ pc'[p] = "probe" => Depth(p) = 1
      /\ pc'[p] = "deleteTemp" <=> pc[p] = "unwind"
      /\ pc'[p] = "deleteTemp" => Top(p).temps # <<>>
      /\ pc'[p] = "open" => target'[p] = Store(p) /\ queue'[p] = Top(p).ins
  BY GoesTo DEF Direct, NextGroup, MoreGroups, ReclaimTemp, BeginKWay, planVars, kwayVars, Lists
<1>2. stack[p] # <<>> /\ readers[p] = {} /\ Len(inputs[p]) >= 2
  BY <1>1, CallHolds DEF Within
<1>3. OwnKept(p) /\ ~MakingTemp(p) /\ ~MakingTemp(p)'
  BY <1>1, NameFacts DEF OwnKept, Own, MakingTemp
<1>4. /\ FilesOK(p)' /\ InputsOK(p)' /\ CallsOK(p)' /\ GrantOK(p)' /\ Own(p)' = Own(p)
      /\ Depth(p)' = Depth(p) /\ Top(p)' = Top(p) /\ TempsOf(p)' = TempsOf(p) /\ Window(p)' = Window(p)
  BY <1>1, <1>3, QuietStep
<1>5. PlaceOK(p)'
  <2>1. PlaceOK(p)
    BY DEF PlayerOK
  <2>2. Output(p)' <=> Output(p)
    BY <1>1 DEF Output
  <2>3. pc'[p] = "open" => /\ Range(queue'[p]) \cup readers'[p] \subseteq Own(p) \ {target'[p]}
                           /\ IsFiniteSet(readers'[p])
    <3>1. /\ Range(Top(p).ins) \subseteq Own(p)
          /\ \A n \in Range(Top(p).ins) : n.kind = IF Depth(p) = 1 THEN "input" ELSE "temp"
      BY <1>2, GroupIsOwn
    <3>2. Store(p) \notin Range(Top(p).ins)
      BY <3>1, NameFacts
    <3> QED BY <1>1, <1>2, <3>1, <3>2, FS_EmptySet
  <2> QED BY <1>1, <1>2, <1>3, <1>4, <2>1, <2>2, <2>3 DEF PlaceOK, Alone, Within
<1> QED BY <1>4, <1>5 DEF PlayerOK

(* Looking for a drive.                                                    *)
LEMMA PlayerLooks ==
  ASSUME NEW p \in Players, TypeOK, Lists, PlayerOK(p), pc[p] \in {"probe", "claim"},
         disk' = disk, inputs' = inputs, stack' = stack, tempCount' = tempCount, readers' = readers,
         queue' = queue, target' = target, probe' \in [Players -> Probes], compress' = compress,
         \/ pc'[p] = "probe"
         \/ pc'[p] = "claim" /\ probe'[p].count \in 1..Window(p)
  PROVE  PlayerOK(p)'
<1>2. stack[p] # <<>> /\ readers[p] = {} /\ Len(inputs[p]) >= 2
  BY CallHolds DEF Within
<1>3. OwnKept(p) /\ ~MakingTemp(p) /\ ~MakingTemp(p)'
  BY DEF OwnKept, Own, MakingTemp
<1>4. /\ FilesOK(p)' /\ InputsOK(p)' /\ CallsOK(p)' /\ GrantOK(p)' /\ Own(p)' = Own(p)
      /\ Depth(p)' = Depth(p) /\ Top(p)' = Top(p) /\ TempsOf(p)' = TempsOf(p) /\ Window(p)' = Window(p)
  BY <1>3, QuietStep
<1>5. PlaceOK(p)'
  <2>1. PlaceOK(p) /\ Depth(p) = 1
    BY DEF PlayerOK, PlaceOK
  <2>2. ~Output(p)' /\ ~Output(p)
    BY DEF Output
  <2> QED BY <1>2, <1>3, <1>4, <2>1, <2>2 DEF PlaceOK, Alone, Within
<1> QED BY <1>4, <1>5 DEF PlayerOK

(* Another drive is tried, or none is left.                                *)
LEMMA PlayerTriesNextDrive ==
  ASSUME NEW p \in Players, TypeOK, Lists, PlayerOK(p), pc[p] \in {"probe", "claim"}, Lists',
         disk' = disk, inputs' = inputs, stack' = stack, tempCount' = tempCount, readers' = readers,
         queue' = queue, target' = target, compress' = compress, reserved' = reserved, early' = early,
         TryNextDrive(p)
  PROVE  PlayerOK(p)'
<1>1. CASE probe[p].at < Len(TempDrives)
  <2>1. pc'[p] = "probe" /\ probe' \in [Players -> Probes]
    BY <1>1, GoesTo DEF TryNextDrive, Lists
  <2> QED BY <2>1, PlayerLooks
<1>2. CASE ~(probe[p].at < Len(TempDrives))
  <2>1. Kept(p)
    BY <1>2 DEF TryNextDrive, Kept, OwnKept, Own
  <2> QED BY <2>1, PlayerKept
<1> QED BY <1>1, <1>2

(* The files that fit on a drive are part of the next group.               *)
LEMMA PlayerProbe ==
  ASSUME NEW p \in Players, TypeOK, Lists, PlayerOK(p), Probe(p), Lists'
  PROVE  PlayerOK(p)'
<1>1. /\ pc[p] = "probe" /\ disk' = disk /\ inputs' = inputs /\ stack' = stack
      /\ tempCount' = tempCount /\ readers' = readers /\ queue' = queue /\ target' = target
      /\ compress' = compress /\ reserved' = reserved /\ early' = early
  BY DEF Probe, planVars, kwayVars
<1>2. PICK k : k = Fitting(p, TempDrives[probe[p].at])
  OBVIOUS
<1>3. k \in 0..Window(p) /\ Window(p) \in Nat
  <2>1. stack[p] # <<>> /\ TempDrives[probe[p].at] \in Drives /\ Window(p) \in Nat
    BY <1>1, CallHolds, Consts DEF Within
  <2> QED BY <1>2, <2>1, FittingFacts
<1>4. CASE k = 0
  BY <1>1, <1>2, <1>4, PlayerTriesNextDrive DEF Probe
<1>5. CASE k # 0
  <2>1. probe' = [probe EXCEPT ![p].count = k] /\ pc'[p] = "claim"
    BY <1>2, <1>5, GoesTo DEF Probe
  <2>2. probe' \in [Players -> Probes] /\ probe[p] \in Probes
    BY DEF Lists
  <2>3. probe'[p].count = k
    BY <2>1, <2>2 DEF Probes, Lists
  <2>4. k \in 1..Window(p)
    BY <1>3, <1>5
  <2> QED BY <1>1, <2>1, <2>2, <2>3, <2>4, PlayerLooks
<1> QED BY <1>4, <1>5

(* A temporary's name is new.                                              *)
LEMMA NewTemp ==
  ASSUME NEW p \in Players, TypeOK, Lists, PlayerOK(p), pc[p] \in {"claim", "cascade"}
  PROVE  /\ Temp(p, tempCount[p]) \notin Own(p) /\ Temp(p, tempCount[p]) \notin TempsOf(p)
         /\ Temp(p, tempCount[p]).player = p /\ Temp(p, tempCount[p]).kind = "temp"
         /\ Temp(p, tempCount[p]).idx = tempCount[p]
<1>1. Started(p) = {} /\ tempCount[p] \in Nat
  BY DEF Started, MakingTemp, Lists
<1>2. \A n \in TempsOf(p) : n.idx < tempCount[p]
  BY DEF TempsOf, PlayerOK, CallsOK, CallOK
<1>3. /\ Temp(p, tempCount[p]).player = p /\ Temp(p, tempCount[p]).kind = "temp"
      /\ Temp(p, tempCount[p]).idx = tempCount[p]
  BY <1>1, NameFacts
<1>4. Temp(p, tempCount[p]) \notin TempsOf(p)
  BY <1>1, <1>2, <1>3
<1>5. Temp(p, tempCount[p]) \notin Own(p)
  BY <1>1, <1>3, <1>4 DEF PlayerOK, CallsOK
<1> QED BY <1>3, <1>4, <1>5

(* What a group holds fits what it was granted, the trailer included.      *)
LEMMA GroupFits ==
  ASSUME NEW p \in Players, TypeOK, Lists, PlayerOK(p), pc[p] \in Within, Depth(p) = 1,
         NEW k \in 1..Window(p)
  PROVE  /\ Range(Group(p, k)) \subseteq Own(p) /\ GroupBytes(p, k) \in Nat
         /\ compress = "none" =>
              Cardinality(BoardsOf(Range(Group(p, k)))) + Trailer <= GroupBytes(p, k)
<1>1. /\ stack[p] # <<>> /\ k \in Nat /\ Top(p).pos + k <= Len(Top(p).ins)
  BY CallHolds
<1>2. Range(Group(p, k)) \subseteq Own(p) /\ GroupBytes(p, k) \in Nat
  BY <1>1, GroupIsOwn
<1>3. \A n \in Range(Group(p, k)) : n.kind = "input"
  <2>1. Range(Group(p, k)) \subseteq Range(Top(p).ins)
    BY <1>1, GroupFacts
  <2> QED BY <1>1, <2>1, GroupIsOwn
<1>4. PICK G : G = Range(Group(p, k))
  OBVIOUS
<1>5. IsFiniteSet(G)
  BY <1>2, <1>4, PlayerFacts, FS_Subset
<1>6. ASSUME compress = "none"
      PROVE  \A n \in G : /\ disk[n].bytes \in Nat /\ IsFiniteSet(disk[n].boards)
                          /\ PlainBytes(disk[n].boards) <= disk[n].bytes
  <2>1. ASSUME NEW n \in G
        PROVE  /\ disk[n].bytes \in Nat /\ IsFiniteSet(disk[n].boards)
               /\ PlainBytes(disk[n].boards) <= disk[n].bytes
    <3>1. FileOK(n) /\ n.kind = "input" /\ disk[n].bytes \in Nat
      BY <1>2, <1>3, <1>4, PlayerFacts DEF PlayerOK, FilesOK
    <3>2. disk[n].bytes = PlainBytes(disk[n].boards) /\ IsFiniteSet(disk[n].boards)
      BY <1>6, <3>1 DEF FileOK, Bytes
    <3> QED BY <3>1, <3>2
  <2> QED BY <2>1
<1>7. \E x : x \in G
  <2>1. Group(p, k) \in Seq(Names) /\ Len(Group(p, k)) = k /\ 1 \in 1..k
    BY <1>1, GroupFacts
  <2> QED BY <1>4, <2>1, RangeFacts
<1>8. compress = "none" => Cardinality(BoardsIn(disk, G)) + Trailer <= FileSum(disk, G)
  BY <1>5, <1>6, <1>7, TrailersFit
<1> QED BY <1>2, <1>4, <1>8, BytesOfIs DEF GroupBytes, BoardsOf, BoardsIn

(* A group's merge into a new temporary begins.                            *)
LEMMA TempBegins ==
  ASSUME NEW p \in Players, TypeOK, Lists, PlayerOK(p), pc[p] \in {"claim", "cascade"},
         NEW k \in 0..Window(p), BeginTemp(p, k), probe'[p].count = k,
         disk' = disk, inputs' = inputs, readers' = readers, stack'[p] # <<>>, compress' = compress,
         Depth(p)' = Depth(p), Top(p)'.ins = Top(p).ins, Top(p)'.pos = Top(p).pos,
         TempsOf(p)' = TempsOf(p)
  PROVE  /\ FilesOK(p)' /\ InputsOK(p)' /\ PlaceOK(p)' /\ MakingTemp(p)' /\ Started(p)' = {}
         /\ Started(p) = {} /\ Own(p)' = Own(p) /\ pc'[p] = "open"
         /\ (Range(queue[p]) \cup readers[p])' = Range(Group(p, k))
         /\ Range(Group(p, k)) \subseteq Own(p)
         /\ tempCount'[p] = tempCount[p] + 1 /\ tempCount[p] \in Nat
<1>1. /\ pc'[p] = "open" /\ queue'[p] = Group(p, k) /\ target'[p] = Temp(p, tempCount[p])
      /\ tempCount'[p] = tempCount[p] + 1 /\ tempCount[p] \in Nat
  BY GoesTo DEF BeginTemp, BeginKWay, Lists
<1>2. /\ stack[p] # <<>> /\ readers[p] = {} /\ Len(inputs[p]) >= 2 /\ k \in Nat
      /\ Top(p).pos + k <= Len(Top(p).ins)
  BY CallHolds DEF Within
<1>3. OwnKept(p) /\ Own(p)' = Own(p)
  BY DEF OwnKept, Own
<1>4. FilesOK(p)' /\ InputsOK(p)'
  BY <1>3, FilesKept, InputsKept DEF PlayerOK
<1>5. Range(Group(p, k)) \subseteq Own(p)
  BY <1>2, GroupIsOwn
<1>6. /\ target'[p] \notin Own(p) /\ target'[p] \notin TempsOf(p) /\ target'[p].player = p
      /\ target'[p].kind = "temp" /\ target'[p].idx = tempCount[p]
  BY <1>1, NewTemp
<1>7. MakingTemp(p)' /\ Started(p)' = {} /\ Started(p) = {}
  BY <1>1, <1>6 DEF MakingTemp, Started
<1>8. PlaceOK(p)'
  <2>1. PlaceOK(p)
    BY DEF PlayerOK
  <2>2. ~Output(p)' /\ ~Output(p)
    BY <1>1 DEF Output
  <2>3. (Range(queue[p]) \cup readers[p])' \subseteq Own(p) \ {target'[p]} /\ IsFiniteSet(readers'[p])
    BY <1>1, <1>2, <1>5, <1>6, FS_EmptySet
  <2>4. target'[p].idx < tempCount'[p]
    BY <1>1, <1>6
  <2> QED BY <1>1, <1>2, <1>3, <1>6, <1>7, <2>1, <2>2, <2>3, <2>4 DEF PlaceOK, Alone, Within
<1> QED BY <1>1, <1>2, <1>3, <1>4, <1>5, <1>7, <1>8

(* A call that is granted room is otherwise the same.                      *)
LEMMA GrantedCall ==
  ASSUME NEW c \in Calls, NEW b \in Nat
  PROVE  \E call \in Calls : /\ call = [c EXCEPT !.granted = b] /\ call.ins = c.ins
                             /\ call.pos = c.pos /\ call.temps = c.temps /\ call.granted = b
<1>1. PICK call : call = [c EXCEPT !.granted = b]
  OBVIOUS
<1>2. /\ call \in Calls /\ call.ins = c.ins /\ call.pos = c.pos /\ call.temps = c.temps
      /\ call.granted = b
  BY <1>1 DEF Calls
<1> QED BY <1>1, <1>2

(* The group is granted its bytes and its temporary a name of its own.     *)
LEMMA PlayerClaim ==
  ASSUME NEW p \in Players, TypeOK, Lists, PlayerOK(p), Claim(p), Lists'
  PROVE  PlayerOK(p)'
<1>1. /\ pc[p] = "claim" /\ disk' = disk /\ inputs' = inputs /\ readers' = readers
      /\ compress' = compress /\ reserved' = reserved /\ early' = early
  BY DEF Claim, planVars
<1>2. PICK k, b : k = probe[p].count /\ b = GroupBytes(p, k)
  OBVIOUS
<1>3. /\ k \in 1..Window(p) /\ k \in 0..Window(p) /\ Depth(p) = 1 /\ stack[p] # <<>>
      /\ Top(p) \in Calls /\ Once(Top(p).temps) /\ Top(p).pos <= Len(Top(p).ins) /\ pc[p] \in Within
  <2>1. k \in 1..Window(p) /\ Depth(p) = 1
    BY <1>1, <1>2 DEF PlayerOK, PlaceOK
  <2>2. 1..Window(p) \subseteq 0..Window(p)
    <3>1. Window(p) \in Nat
      BY <1>1, CallHolds DEF Within
    <3> QED BY <3>1
  <2> QED BY <1>1, <2>1, <2>2, CallHolds DEF Within
<1>4. /\ Range(Group(p, k)) \subseteq Own(p) /\ b \in Nat
      /\ compress = "none" => Cardinality(BoardsOf(Range(Group(p, k)))) + Trailer <= b
  BY <1>2, <1>3, GroupFits
<1>5. CASE SetTop(p, [Top(p) EXCEPT !.granted = b]) /\ BeginTemp(p, k) /\ UNCHANGED <<phase, probe>>
  <2>1. PICK call \in Calls : /\ call = [Top(p) EXCEPT !.granted = b]
                              /\ call.ins = Top(p).ins /\ call.pos = Top(p).pos
                              /\ call.temps = Top(p).temps /\ call.granted = b
    BY <1>3, <1>4, GrantedCall
  <2>2. SetTop(p, call)
    BY <1>5, <2>1
  <2>3. /\ stack'[p] # <<>> /\ Depth(p)' = Depth(p) /\ Top(p)' = call /\ stack'[p][1] = call
    BY <1>3, <2>2, SetTopFacts
  <2>4. TempsOf(p)' = TempsOf(p)
    <3>1. 1..Depth(p) = {1}
      BY <1>3
    <3>2. Top(p) = stack[p][1]
      BY <1>3 DEF Top
    <3>3. TempsOf(p) = Range(Top(p).temps)
      BY <3>1, <3>2 DEF TempsOf
    <3>4. TempsOf(p)' = Range(call.temps)
      BY <2>3, <3>1 DEF TempsOf
    <3> QED BY <2>1, <3>3, <3>4
  <2>5. /\ FilesOK(p)' /\ InputsOK(p)' /\ PlaceOK(p)' /\ MakingTemp(p)' /\ Started(p)' = {}
        /\ Started(p) = {} /\ Own(p)' = Own(p) /\ pc'[p] = "open"
        /\ (Range(queue[p]) \cup readers[p])' = Range(Group(p, k))
        /\ tempCount'[p] = tempCount[p] + 1 /\ tempCount[p] \in Nat
    <3>1. probe'[p].count = k
      BY <1>2, <1>5
    <3> QED BY <1>1, <1>3, <1>5, <2>1, <2>3, <2>4, <3>1, TempBegins
  <2>6. CallsOK(p)'
    <3>1. CallOK(p, 1) /\ Top(p) = stack[p][1]
      BY <1>3 DEF PlayerOK, CallsOK, Top
    <3>2. \A n \in Own(p) : n.idx \in Nat
      BY PlayerFacts, NameFacts
    <3>3. CallOK(p, 1)'
      BY <1>1, <2>1, <2>3, <2>5, <3>1, <3>2 DEF CallOK
    <3>4. \A i \in 1..Depth(p) : i = 1
      BY <1>3
    <3> QED BY <2>3, <2>4, <2>5, <3>3, <3>4 DEF CallsOK, PlayerOK
  <2>7. GrantOK(p)'
    <3>1. BoardsOf(Range(queue[p]) \cup readers[p])' = BoardsOf(Range(Group(p, k)))
      BY <1>1, <2>5 DEF BoardsOf
    <3> QED BY <1>1, <1>3, <1>4, <2>1, <2>3, <2>5, <3>1 DEF GrantOK
  <2> QED BY <2>5, <2>6, <2>7 DEF PlayerOK
<1>6. CASE TryNextDrive(p) /\ UNCHANGED <<ledger, stack, queue, target, tempCount>>
  BY <1>1, <1>6, PlayerTriesNextDrive
<1> QED BY <1>2, <1>5, <1>6 DEF Claim

(* A group of a nested call is granted nothing.                            *)
LEMMA PlayerNestedGroup ==
  ASSUME NEW p \in Players, TypeOK, Lists, PlayerOK(p), NestedGroup(p)
  PROVE  PlayerOK(p)'
<1>1. /\ pc[p] = "cascade" /\ disk' = disk /\ inputs' = inputs /\ readers' = readers /\ stack' = stack
      /\ Depth(p) > 1 /\ BeginTemp(p, Window(p)) /\ probe'[p].count = Window(p)
      /\ compress' = compress
  BY DEF NestedGroup, MoreGroups, planVars, Lists
<1>2. stack[p] # <<>> /\ Window(p) \in 0..Window(p)
  BY <1>1, CallHolds DEF Within
<1>3. Depth(p)' = Depth(p) /\ Top(p)' = Top(p) /\ TempsOf(p)' = TempsOf(p)
  BY <1>1, StackKept
<1>4. /\ FilesOK(p)' /\ InputsOK(p)' /\ PlaceOK(p)' /\ MakingTemp(p)' /\ Started(p)' = {}
      /\ Started(p) = {} /\ Own(p)' = Own(p)
      /\ tempCount'[p] = tempCount[p] + 1 /\ tempCount[p] \in Nat
  BY <1>1, <1>2, <1>3, TempBegins
<1>5. CallsOK(p)'
  <2>1. \A n \in Own(p) : n.idx \in Nat
    BY PlayerFacts, NameFacts
  <2>2. \A i \in 1..Depth(p) : CallOK(p, i)'
    BY <1>1, <1>4, <2>1 DEF PlayerOK, CallsOK, CallOK
  <2> QED BY <1>1, <1>3, <1>4, <2>2 DEF CallsOK, PlayerOK
<1>6. GrantOK(p)'
  <2>1. GrantOK(p) /\ ~(Depth(p) = 1)
    BY <1>1 DEF PlayerOK
  <2> QED BY <1>1, <1>3, <2>1 DEF GrantOK
<1> QED BY <1>4, <1>5, <1>6 DEF PlayerOK

(* The temporary joins its call's list.                                    *)
LEMMA PlayerFinishTemp ==
  ASSUME NEW p \in Players, TypeOK, Lists, PlayerOK(p), FinishTemp(p), Lists'
  PROVE  PlayerOK(p)'
<1>1. /\ pc[p] = "temp" /\ pc[p] \in Within /\ pc'[p] = "cascade" /\ disk' = disk /\ inputs' = inputs
      /\ readers' = readers /\ tempCount' = tempCount /\ compress' = compress
  BY GoesTo DEF FinishTemp, planVars, kwayVars, Within
<1>2. PICK x, k : x = target[p] /\ k = probe[p].count
  OBVIOUS
<1>3. /\ x \in Names /\ k \in Nat /\ MakingTemp(p) /\ Started(p) = {x} /\ x \in Own(p) /\ x.kind = "temp"
      /\ x.idx < tempCount[p] /\ x \notin TempsOf(p) /\ Top(p).pos + k <= Len(Top(p).ins)
  <2>1. MakingTemp(p) /\ x.kind = "temp" /\ x \in Names /\ k \in Nat
    BY <1>1, <1>2 DEF PlayerOK, PlaceOK, MakingTemp, Lists, Probes
  <2> QED BY <1>1, <1>2, <2>1 DEF PlayerOK, PlaceOK, Started
<1>4. /\ stack[p] # <<>> /\ Top(p) \in Calls /\ Top(p).temps \in Seq(Names) /\ Once(Top(p).temps)
      /\ Top(p).pos \in Nat /\ Top(p).ins \in Seq(Names) /\ Depth(p) \in Nat /\ Depth(p) \in 1..Depth(p)
      /\ tempCount[p] \in Nat /\ Len(inputs[p]) >= 2 /\ readers[p] = {} /\ CallOK(p, Depth(p))
  BY <1>1, CallHolds
<1>5. PICK call : call = [Top(p) EXCEPT !.pos = @ + k, !.temps = Append(@, x), !.granted = 0]
  OBVIOUS
<1>6. /\ call.ins = Top(p).ins /\ call.pos = Top(p).pos + k /\ call.temps = Append(Top(p).temps, x)
      /\ call.granted = 0 /\ call \in Calls
  <2>1. Append(Top(p).temps, x) \in Seq(Names) /\ Top(p).pos + k \in Nat
    BY <1>3, <1>4, AppendFacts
  <2>2. PICK c \in Calls, t \in Seq(Names), i \in Nat :
          c = Top(p) /\ t = Append(Top(p).temps, x) /\ i = Top(p).pos + k
    BY <1>4, <2>1
  <2>3. call = [c EXCEPT !.pos = i, !.temps = t, !.granted = 0]
    BY <1>5, <2>2
  <2>4. call.ins = c.ins /\ call.pos = i /\ call.temps = t /\ call.granted = 0 /\ call \in Calls
    <3>1. c = [ins |-> c.ins, pos |-> c.pos, temps |-> c.temps, granted |-> c.granted] /\ c.ins \in Seq(Names)
      BY DEF Calls
    <3>2. call = [ins |-> c.ins, pos |-> i, temps |-> t, granted |-> 0]
      BY <2>3, <3>1
    <3> QED BY <3>1, <3>2 DEF Calls
  <2> QED BY <2>2, <2>4
<1>7. SetTop(p, call)
  BY <1>2, <1>5 DEF FinishTemp
<1>8. /\ TempsOf(p) = Range(Top(p).temps) \cup Lower(p) /\ Range(Top(p).temps) \cap Lower(p) = {}
      /\ TempsOf(p) \subseteq Own(p) /\ {n \in Own(p) : n.kind = "temp"} = TempsOf(p) \cup {x}
  BY <1>3, <1>4, TempsSplit DEF PlayerOK, CallsOK
<1>9. /\ Range(call.temps) = Range(Top(p).temps) \cup {x} /\ Once(call.temps)
  BY <1>3, <1>4, <1>6, <1>8, AppendFacts
<1>10. ~MakingTemp(p)' /\ Started(p)' = {} /\ OwnKept(p) /\ Own(p)' = Own(p)
  BY <1>1 DEF MakingTemp, Started, OwnKept, Own
<1>11. CallsOK(p)'
  <2>1. \A n \in Range(call.temps) : n \in Own(p) /\ n.kind = "temp" /\ n.idx < tempCount[p]
    BY <1>3, <1>4, <1>9 DEF CallOK, Top
  <2>2. Lower(p) \subseteq Own(p)' /\ Range(call.temps) \cap Lower(p) = {}
    BY <1>3, <1>8, <1>9, <1>10
  <2>3. {n \in Own(p)' : n.kind = "temp"} = Range(call.temps) \cup Lower(p) \cup Started(p)'
    BY <1>8, <1>9, <1>10
  <2>4. call.pos <= Len(call.ins)
    BY <1>3, <1>6
  <2>5. \A n \in Range(call.temps) : n \in Own(p)' /\ n.kind = "temp" /\ n.idx < tempCount'[p]
    BY <1>1, <1>10, <2>1
  <2>6. tempCount'[p] \in Nat /\ tempCount'[p] >= tempCount[p] /\ inputs'[p] = inputs[p]
    BY <1>1, <1>4
  <2>7. call \in Calls /\ Once(call.temps) /\ call.ins = Top(p).ins /\ call.granted = 0
    BY <1>6, <1>9
  <2> QED BY <1>4, <1>7, <2>2, <2>3, <2>4, <2>5, <2>6, <2>7, TopChanged
<1>12. FilesOK(p)' /\ InputsOK(p)'
  BY <1>1, <1>10, FilesKept, InputsKept DEF PlayerOK
<1>13. /\ stack'[p] # <<>> /\ Depth(p)' = Depth(p) /\ stack'[p][Depth(p)] = call
       /\ \A i \in 1..Depth(p) : i # Depth(p) => stack'[p][i] = stack[p][i]
  BY <1>4, <1>6, <1>7, SetTopFacts
<1>14. PlaceOK(p)'
  <2>1. PlaceOK(p)
    BY DEF PlayerOK
  <2>2. ~Output(p)' /\ ~Output(p)
    BY <1>1 DEF Output
  <2> QED BY <1>1, <1>4, <1>10, <1>13, <2>1, <2>2 DEF PlaceOK, Alone, Within
<1>15. GrantOK(p)'
  <2>1. stack'[p][1].granted = 0
    <3>1. CASE Depth(p) = 1
      BY <1>6, <1>13, <3>1
    <3>2. CASE Depth(p) # 1
      <4>1. 1 \in 1..Depth(p) /\ stack[p][1].granted = 0
        BY <1>4, <3>2 DEF PlayerOK, GrantOK
      <4> QED BY <1>13, <3>2, <4>1
    <3> QED BY <3>1, <3>2
  <2> QED BY <1>10, <2>1 DEF GrantOK
<1> QED BY <1>11, <1>12, <1>14, <1>15 DEF PlayerOK

(* A temporary is deleted, the first of the innermost call.                *)
LEMMA PlayerDeleteTemp ==
  ASSUME NEW p \in Players, TypeOK, Lists, PlayerOK(p), DeleteTemp(p), Lists'
  PROVE  PlayerOK(p)'
<1>1. /\ pc[p] = "deleteTemp" /\ pc[p] \in Within /\ pc'[p] = "unwind" /\ inputs' = inputs
      /\ disk' = Restrict(disk, DOMAIN disk \ {Head(Top(p).temps)})
      /\ readers' = readers /\ tempCount' = tempCount /\ compress' = compress
  BY GoesTo DEF DeleteTemp, planVars, kwayVars, Within
<1>2. /\ stack[p] # <<>> /\ Top(p) \in Calls /\ Top(p).temps \in Seq(Names) /\ Once(Top(p).temps)
      /\ Top(p).pos \in Nat /\ Top(p).ins \in Seq(Names) /\ Depth(p) \in Nat /\ Depth(p) \in 1..Depth(p)
      /\ tempCount[p] \in Nat /\ Len(inputs[p]) >= 2 /\ readers[p] = {} /\ CallOK(p, Depth(p))
      /\ Top(p).pos <= Len(Top(p).ins)
  BY <1>1, CallHolds
<1>3. Top(p).temps # <<>>
  BY <1>1 DEF PlayerOK, PlaceOK
<1>4. PICK x : x = Head(Top(p).temps)
  OBVIOUS
<1>5. /\ x \in Range(Top(p).temps) /\ Once(Tail(Top(p).temps)) /\ Tail(Top(p).temps) \in Seq(Names)
      /\ Range(Tail(Top(p).temps)) = Range(Top(p).temps) \ {x}
  BY <1>2, <1>3, <1>4, TailFacts
<1>6. PICK call : call = [Top(p) EXCEPT !.temps = Tail(@)]
  OBVIOUS
<1>7. /\ call.ins = Top(p).ins /\ call.pos = Top(p).pos /\ call.temps = Tail(Top(p).temps)
      /\ call.granted = Top(p).granted /\ call \in Calls
  BY <1>2, <1>5, <1>6 DEF Calls
<1>8. SetTop(p, call)
  BY <1>6 DEF DeleteTemp
<1>9. x \in Own(p) /\ x.kind = "temp"
  BY <1>2, <1>5 DEF CallOK, Top
<1>10. /\ Own(p)' = Own(p) \ {x} /\ \A n \in Own(p) \ {x} : disk'[n] = disk[n]
  BY <1>1, <1>4, <1>9 DEF Own, Restrict
<1>11. ~MakingTemp(p)' /\ Started(p)' = {} /\ ~MakingTemp(p) /\ Started(p) = {}
  BY <1>1 DEF MakingTemp, Started
<1>12. /\ TempsOf(p) = Range(Top(p).temps) \cup Lower(p) /\ Range(Top(p).temps) \cap Lower(p) = {}
       /\ {n \in Own(p) : n.kind = "temp"} = TempsOf(p)
  BY <1>2, <1>11, TempsSplit DEF PlayerOK, CallsOK
<1>13. CallsOK(p)'
  <2>1. \A n \in Range(call.temps) : n \in Own(p)' /\ n.kind = "temp" /\ n.idx < tempCount[p]
    BY <1>2, <1>5, <1>7, <1>10 DEF CallOK, Top
  <2>2. Lower(p) \subseteq Own(p)' /\ Range(call.temps) \cap Lower(p) = {}
    BY <1>5, <1>7, <1>10, <1>12
  <2>3. {n \in Own(p)' : n.kind = "temp"} = Range(call.temps) \cup Lower(p) \cup Started(p)'
    BY <1>5, <1>7, <1>10, <1>11, <1>12
  <2>4. Depth(p) > 1 => call.granted = 0
    BY <1>2, <1>7 DEF CallOK, Top
  <2> QED BY <1>1, <1>2, <1>5, <1>7, <1>8, <2>1, <2>2, <2>3, <2>4, TopChanged
<1>14. FilesOK(p)'
  <2>1. IsFiniteSet(Own(p) \ {x})
    BY PlayerFacts, FS_Subset
  <2> QED BY <1>1, <1>10, <2>1 DEF PlayerOK, FilesOK, FileOK, Bytes, PlainBytes
<1>15. InputsOK(p)'
  BY <1>1, <1>9, <1>10 DEF PlayerOK, InputsOK
<1>16. /\ stack'[p] # <<>> /\ Depth(p)' = Depth(p) /\ stack'[p][Depth(p)] = call
       /\ \A i \in 1..Depth(p) : i # Depth(p) => stack'[p][i] = stack[p][i]
  BY <1>2, <1>7, <1>8, SetTopFacts
<1>17. PlaceOK(p)'
  <2>1. PlaceOK(p)
    BY DEF PlayerOK
  <2>2. Output(p)' /\ Output(p)
    BY <1>1 DEF Output
  <2>3. Store(p) \in Own(p)'
    BY <1>1, <1>9, <1>10, <2>1, <2>2, NameFacts DEF PlaceOK
  <2> QED BY <1>1, <1>2, <1>11, <1>16, <2>1, <2>2, <2>3 DEF PlaceOK, Alone, Within
<1>18. GrantOK(p)'
  <2>1. stack[p][1].granted = 0
    BY <1>2, <1>11 DEF PlayerOK, GrantOK
  <2>2. stack'[p][1].granted = 0
    <3>1. CASE Depth(p) = 1
      BY <1>7, <1>16, <2>1, <3>1 DEF Top
    <3>2. CASE Depth(p) # 1
      <4>1. 1 \in 1..Depth(p)
        BY <1>2
      <4> QED BY <1>16, <2>1, <3>2, <4>1
    <3> QED BY <3>1, <3>2
  <2> QED BY <1>11, <2>2 DEF GrantOK
<1> QED BY <1>13, <1>14, <1>15, <1>17, <1>18 DEF PlayerOK

(* The temporaries are the inputs of the call one level down.              *)
LEMMA PlayerDescend ==
  ASSUME NEW p \in Players, TypeOK, Lists, PlayerOK(p), Descend(p)
  PROVE  PlayerOK(p)'
<1>1. /\ pc[p] = "cascade" /\ pc[p] \in Within /\ pc' = pc /\ disk' = disk /\ inputs' = inputs
      /\ readers' = readers /\ tempCount' = tempCount /\ target' = target /\ probe' = probe
      /\ compress' = compress
  BY DEF Descend, planVars, kwayVars, Within
<1>2. /\ stack[p] # <<>> /\ Top(p).temps \in Seq(Names) /\ Len(inputs[p]) >= 2 /\ readers[p] = {}
      /\ stack[p] \in Seq(Calls) /\ Depth(p) = Len(stack[p])
  BY <1>1, CallHolds, CallFacts DEF Depth
<1>3. PICK D \in Nat, c \in Calls : /\ D = Depth(p) /\ D \in 1..D /\ D >= 1 /\ c = Call(Top(p).temps)
                                   /\ c.ins = Top(p).temps /\ c.pos = 0 /\ c.temps = <<>> /\ c.granted = 0
  BY <1>1, <1>2, CallHolds, CallType
<1>4. PICK t : t = Append(stack[p], c)
  OBVIOUS
<1>5. /\ t \in Seq(Calls) /\ Len(t) = D + 1 /\ t[D + 1] = c /\ \A i \in 1..D : t[i] = stack[p][i]
  BY <1>2, <1>3, <1>4, AppendFacts
<1>6. stack'[p] = t /\ stack'[p] # <<>>
  <2>1. t # <<>>
    BY <1>3, <1>5, RangeFacts
  <2> QED BY <1>3, <1>4, <2>1 DEF Descend, Lists
<1>7. Depth(p)' = D + 1 /\ \A i \in 1..(D + 1) : i \in 1..D \/ i = D + 1
  BY <1>3, <1>5, <1>6 DEF Depth
<1>8. Range(<<>>) = {} /\ Once(<<>>)
  <2>1. <<>> \in Seq(Names) /\ DOMAIN <<>> = {}
    BY EmptySeq, LenProperties
  <2> QED BY <2>1, RangeFacts DEF Once
<1>9. TempsOf(p)' = TempsOf(p)
  <2>1. TempsOf(p)' = UNION {Range(t[i].temps) : i \in 1..(D + 1)}
    BY <1>6, <1>7 DEF TempsOf
  <2>2. \A i \in 1..D : i \in 1..(D + 1)
    BY <1>3
  <2>3. TempsOf(p) = UNION {Range(stack[p][i].temps) : i \in 1..D}
    BY <1>3 DEF TempsOf
  <2>4. \A n : n \in TempsOf(p)' <=> \E i \in 1..(D + 1) : n \in Range(t[i].temps)
    BY <2>1
  <2>5. \A n : n \in TempsOf(p) <=> \E i \in 1..D : n \in Range(stack[p][i].temps)
    BY <2>3
  <2>6. Range(t[D + 1].temps) = {}
    BY <1>3, <1>5, <1>8
  <2>7. \A n : (\E i \in 1..(D + 1) : n \in Range(t[i].temps))
               <=> \E i \in 1..D : n \in Range(stack[p][i].temps)
    BY <1>5, <1>7, <2>2, <2>6
  <2> QED BY <2>4, <2>5, <2>7
<1>10. ~MakingTemp(p)' /\ Started(p)' = {} /\ ~MakingTemp(p) /\ Started(p) = {} /\ OwnKept(p) /\ Own(p)' = Own(p)
  BY <1>1 DEF MakingTemp, Started, OwnKept, Own
<1>11. CallsOK(p)'
  <2>1. ASSUME NEW i \in 1..D PROVE CallOK(p, i)'
    <3>1. CallOK(p, i) /\ stack'[p][i] = stack[p][i]
      BY <1>3, <1>5, <1>6 DEF PlayerOK, CallsOK
    <3>2. i # 1 => stack'[p][i - 1] = stack[p][i - 1]
      <4>1. i # 1 => i - 1 \in 1..D
        BY <1>3
      <4> QED BY <1>5, <1>6, <4>1
    <3> QED BY <1>1, <1>10, <3>1, <3>2 DEF CallOK
  <2>2. CallOK(p, D + 1)'
    <3>1. stack'[p][D + 1] = c /\ D + 1 # 1 /\ D + 1 - 1 = D /\ stack'[p][D] = stack[p][D]
      BY <1>3, <1>5, <1>6
    <3>2. 0 <= Len(c.ins)
      BY <1>2, <1>3, LenProperties
    <3> QED BY <1>1, <1>3, <1>8, <3>1, <3>2 DEF CallOK, Top
  <2>3. ASSUME NEW i \in 1..(D + 1), NEW j \in 1..(D + 1), i # j
        PROVE  Range(stack'[p][i].temps) \cap Range(stack'[p][j].temps) = {}
    <3>1. CASE i = D + 1 \/ j = D + 1
      BY <1>3, <1>5, <1>6, <1>8, <3>1
    <3>2. CASE i \in 1..D /\ j \in 1..D
      BY <1>3, <1>5, <1>6, <2>3, <3>2 DEF PlayerOK, CallsOK
    <3> QED BY <1>7, <3>1, <3>2
  <2>4. \A i \in 1..(D + 1) : CallOK(p, i)'
    BY <1>7, <2>1, <2>2
  <2> QED BY <1>7, <1>9, <1>10, <2>3, <2>4 DEF CallsOK, PlayerOK
<1>12. FilesOK(p)' /\ InputsOK(p)'
  BY <1>1, <1>10, FilesKept, InputsKept DEF PlayerOK
<1>13. PlaceOK(p)'
  <2>1. PlaceOK(p)
    BY DEF PlayerOK
  <2>2. ~Output(p)' /\ ~Output(p)
    BY <1>1 DEF Output
  <2> QED BY <1>1, <1>2, <1>6, <1>10, <2>1, <2>2 DEF PlaceOK, Alone, Within
<1>14. GrantOK(p)'
  <2>1. stack[p][1].granted = 0 /\ stack'[p][1] = stack[p][1]
    <3>1. 1 \in 1..D
      BY <1>3
    <3> QED BY <1>2, <1>5, <1>6, <1>10, <3>1 DEF PlayerOK, GrantOK
  <2> QED BY <1>10, <2>1 DEF GrantOK
<1> QED BY <1>11, <1>12, <1>13, <1>14 DEF PlayerOK

(* A call without temporaries returns.                                     *)
LEMMA PlayerReturn ==
  ASSUME NEW p \in Players, TypeOK, Lists, PlayerOK(p), Return(p)
  PROVE  PlayerOK(p)'
<1>1. /\ pc[p] = "unwind" /\ pc[p] \in Within /\ disk' = disk /\ inputs' = inputs
      /\ readers' = readers /\ tempCount' = tempCount /\ target' = target /\ probe' = probe
      /\ compress' = compress
      /\ pc'[p] = (IF Depth(p) = 1 THEN "settle" ELSE "unwind") /\ Top(p).temps = <<>>
  BY GoesTo DEF Return, planVars, kwayVars, Within
<1>2. /\ stack[p] # <<>> /\ Len(inputs[p]) >= 2 /\ readers[p] = {}
      /\ stack[p] \in Seq(Calls) /\ Depth(p) = Len(stack[p])
  BY <1>1, CallHolds, CallFacts DEF Depth
<1>3. PICK D \in Nat : D = Depth(p) /\ D \in 1..D /\ D >= 1
  BY <1>1, CallHolds
<1>4. PICK t : t = SubSeq(stack[p], 1, Len(stack[p]) - 1)
  OBVIOUS
<1>5. /\ t \in Seq(Calls) /\ Len(t) = D - 1 /\ \A i \in 1..(D - 1) : t[i] = stack[p][i]
  BY <1>2, <1>3, <1>4, FrontFacts
<1>6. stack'[p] = t /\ (t = <<>> <=> D = 1)
  <2>1. t = <<>> <=> D - 1 = 0
    BY <1>5, RangeFacts
  <2> QED BY <1>3, <1>4, <2>1 DEF Return, Lists
<1>7. /\ Depth(p)' = D - 1 /\ \A i \in 1..D : i \in 1..(D - 1) \/ i = D
      /\ \A i \in 1..(D - 1) : i \in 1..D
  BY <1>3, <1>5, <1>6 DEF Depth
<1>8. Range(<<>>) = {}
  <2>1. <<>> \in Seq(Names)
    BY EmptySeq
  <2> QED BY <2>1, RangeFacts
<1>9. TempsOf(p)' = TempsOf(p)
  <2>1. TempsOf(p)' = UNION {Range(t[i].temps) : i \in 1..(D - 1)}
    BY <1>6, <1>7 DEF TempsOf
  <2>2. Range(stack[p][D].temps) = {}
    BY <1>1, <1>3, <1>8 DEF Top
  <2>3. TempsOf(p) = UNION {Range(stack[p][i].temps) : i \in 1..D}
    BY <1>3 DEF TempsOf
  <2>4. \A n : n \in TempsOf(p)' <=> \E i \in 1..(D - 1) : n \in Range(t[i].temps)
    BY <2>1
  <2>5. \A n : n \in TempsOf(p) <=> \E i \in 1..D : n \in Range(stack[p][i].temps)
    BY <2>3
  <2>6. \A n : (\E i \in 1..(D - 1) : n \in Range(t[i].temps))
               <=> \E i \in 1..D : n \in Range(stack[p][i].temps)
    BY <1>5, <1>7, <2>2
  <2> QED BY <2>4, <2>5, <2>6
<1>10. ~MakingTemp(p)' /\ Started(p)' = {} /\ ~MakingTemp(p) /\ Started(p) = {} /\ OwnKept(p) /\ Own(p)' = Own(p)
  BY <1>1 DEF MakingTemp, Started, OwnKept, Own
<1>11. CallsOK(p)'
  <2>1. ASSUME NEW i \in 1..(D - 1) PROVE CallOK(p, i)'
    <3>1. CallOK(p, i) /\ stack'[p][i] = stack[p][i]
      BY <1>3, <1>5, <1>6, <1>7 DEF PlayerOK, CallsOK
    <3>2. i # 1 => stack'[p][i - 1] = stack[p][i - 1]
      <4>1. i # 1 => i - 1 \in 1..(D - 1)
        BY <1>3
      <4> QED BY <1>5, <1>6, <4>1
    <3> QED BY <1>1, <1>10, <3>1, <3>2 DEF CallOK
  <2>2. \A i, j \in 1..(D - 1) : i # j => Range(stack'[p][i].temps) \cap Range(stack'[p][j].temps) = {}
    BY <1>3, <1>5, <1>6, <1>7 DEF PlayerOK, CallsOK
  <2> QED BY <1>7, <1>9, <1>10, <2>1, <2>2 DEF CallsOK, PlayerOK
<1>12. FilesOK(p)' /\ InputsOK(p)'
  BY <1>1, <1>10, FilesKept, InputsKept DEF PlayerOK
<1>13. PlaceOK(p)'
  <2>1. PlaceOK(p)
    BY DEF PlayerOK
  <2>2. Output(p)' /\ Output(p)
    BY <1>1 DEF Output
  <2> QED BY <1>1, <1>2, <1>3, <1>6, <1>10, <2>1, <2>2 DEF PlaceOK, Alone, Within
<1>14. GrantOK(p)'
  <2>1. D # 1 => stack[p][1].granted = 0 /\ stack'[p][1] = stack[p][1]
    <3>1. D # 1 => 1 \in 1..(D - 1)
      BY <1>3
    <3> QED BY <1>2, <1>5, <1>6, <1>10, <3>1 DEF PlayerOK, GrantOK
  <2>2. D = 1 => Depth(p)' = 0
    BY <1>7
  <2> QED BY <1>6, <1>10, <2>1, <2>2 DEF GrantOK
<1> QED BY <1>11, <1>12, <1>13, <1>14 DEF PlayerOK

(* CascadingMerge keeps the player's files and lists in order.             *)
LEMMA PlayerCascade ==
  ASSUME NEW p \in Players, TypeOK, Lists, PlayerOK(p), CascadingMerge(p), Lists'
  PROVE  PlayerOK(p)'
BY PlayerCalls, PlayerProbe, PlayerClaim, PlayerNestedGroup, PlayerFinishTemp, PlayerDeleteTemp,
   PlayerDescend, PlayerReturn DEF CascadingMerge

(* A player's own steps keep his files and lists in order.                 *)
LEMMA PlayerStep ==
  ASSUME NEW p \in Players, TypeOK, Lists, PlayerOK(p), PlayerNext(p)
  PROVE  PlayerOK(p)' /\ Lists'
<1>1. Lists'
  BY ListsStep
<1>2. KWayMergeFiles(p) => PlayerOK(p)'
  BY PlayerOpenInput, PlayerCreateOutput, PlayerWriteOutput DEF KWayMergeFiles
<1> QED BY <1>1, <1>2, PlayerMergePlayer, PlayerCascade DEF PlayerNext

----------------------------------------------------------------------------
(* The books: what a step takes from a ledger it puts on the player's      *)
(* account, and what it takes off the account it gives back. The account   *)
(* less outgrowths rises only by what a ledger has.                        *)
BooksKept(p) ==
  /\ ReservedOK(p)' /\ ledger' \in [Drives -> Int]
  /\ \A d \in Drives : ledger'[d] + Charge(p, d)' = ledger[d] + Charge(p, d)
  /\ \A d \in Drives : ledger'[d] >= 0 \/ Net(p, d)' <= Net(p, d)

(* The parts of an account are amounts.                                    *)
LEMMA ChargeTypes ==
  ASSUME NEW p \in Players, TypeOK, Lists, PlayerOK(p)
  PROVE  /\ \A d \in Drives : /\ Booked(p, d) \subseteq Own(p) /\ BytesOf(Booked(p, d)) \in Nat
                              /\ IsFiniteSet(Booked(p, d)) /\ Charge(p, d) \in Nat
                              /\ NetOf(Booked(p, d)) \in Nat /\ Net(p, d) \in Nat
         /\ Grant(p) \in Nat /\ StoreCharge(p) \in Nat /\ NetStore(p) \in Nat /\ reserved[p] \in Nat
         /\ Store(p) \in DOMAIN disk =>
              /\ Counted(p) \in Nat /\ Counted(p) <= Bytes(Store(p)) /\ Bytes(Store(p)) \in Nat
              /\ disk[Store(p)].over \in Nat /\ disk[Store(p)].over <= Bytes(Store(p))
<1>1. reserved[p] \in Nat
  BY DEF TypeOK
<1>2. ASSUME NEW d \in Drives
      PROVE  /\ Booked(p, d) \subseteq Own(p) /\ BytesOf(Booked(p, d)) \in Nat
             /\ IsFiniteSet(Booked(p, d)) /\ NetOf(Booked(p, d)) \in Nat
  <2>1. Booked(p, d) \subseteq Own(p)
    BY DEF Booked
  <2>2. IsFiniteSet(Booked(p, d)) /\ \A n \in Booked(p, d) : disk[n].bytes \in Nat
    BY <2>1, PlayerFacts, FS_Subset
  <2>3. \A n \in Booked(p, d) : Nets[n].bytes \in Nat
    BY <2>1, NetFacts DEF PlayerOK
  <2> QED BY <2>1, <2>2, <2>3, FileSumRemove, BytesOfIs, NetOfIs
<1>3. Grant(p) \in Nat
  <2>1. CASE stack[p] = <<>>
    BY <2>1 DEF Grant
  <2>2. CASE stack[p] # <<>>
    <3>1. stack[p][1] \in Calls
      BY <2>2, CallFacts
    <3> QED BY <2>2, <3>1 DEF Grant, Calls
  <2> QED BY <2>1, <2>2
<1>4. Store(p) \in DOMAIN disk =>
        /\ Counted(p) \in Nat /\ Counted(p) <= Bytes(Store(p)) /\ Bytes(Store(p)) \in Nat
        /\ disk[Store(p)].over \in Nat /\ disk[Store(p)].over <= Bytes(Store(p))
  <2>1. Store(p) \in DOMAIN disk => /\ Bytes(Store(p)) \in Nat /\ disk[Store(p)].over \in Nat
                                    /\ disk[Store(p)].over <= Bytes(Store(p))
    BY NetFacts, StoreIsOwn DEF PlayerOK, FilesOK, FileOK, Bytes
  <2> QED BY <2>1 DEF Counted
<1>5. StoreCharge(p) \in Nat
  BY <1>1, <1>4 DEF StoreCharge
<1>6. NetStore(p) \in Nat
  BY <1>1, <1>4 DEF NetStore
<1>7. \A d \in Drives : Charge(p, d) \in Nat
  BY <1>2, <1>3, <1>5 DEF Charge
<1>8. \A d \in Drives : Net(p, d) \in Nat
  BY <1>2, <1>3, <1>6 DEF Net
<1> QED BY <1>1, <1>2, <1>3, <1>4, <1>5, <1>6, <1>7, <1>8

(* The temporaries of the outermost call.                                  *)
LEMMA OuterFacts ==
  ASSUME NEW p \in Players, TypeOK, Lists, PlayerOK(p)
  PROVE  /\ OuterTemps(p) \subseteq TempsOf(p) /\ OuterTemps(p) \subseteq Own(p)
         /\ \A n \in OuterTemps(p) : n.kind = "temp"
<1>1. CASE stack[p] = <<>>
  BY <1>1 DEF OuterTemps
<1>2. CASE stack[p] # <<>>
  <2>1. 1 \in 1..Depth(p)
    BY <1>2, CallFacts
  <2>2. CallOK(p, 1)
    BY <2>1 DEF PlayerOK, CallsOK
  <2> QED BY <1>2, <2>1, <2>2 DEF OuterTemps, TempsOf, CallOK
<1> QED BY <1>1, <1>2

(* Files that are left alone are over by the same.                         *)
LEMMA NetsKept ==
  ASSUME NEW p \in Players, NEW S \in SUBSET Own(p), S \subseteq Own(p)',
         \A n \in S : disk'[n] = disk[n]
  PROVE  \A n \in S : Nets'[n].bytes = Nets[n].bytes
BY DEF Nets, Own

(* The same files are booked, at the same sizes.                           *)
LEMMA BookedSame ==
  ASSUME NEW p \in Players, TypeOK, Lists, PlayerOK(p), NEW d \in Drives,
         Booked(p, d)' = Booked(p, d), \A n \in Booked(p, d) : disk'[n] = disk[n]
  PROVE  /\ BytesOf(Booked(p, d))' = BytesOf(Booked(p, d)) /\ BytesOf(Booked(p, d)) \in Nat
         /\ NetOf(Booked(p, d))' = NetOf(Booked(p, d)) /\ NetOf(Booked(p, d)) \in Nat
<1>1. FileSum(disk', Booked(p, d)) = FileSum(disk, Booked(p, d))
  BY ChargeTypes, FileSumSame
<1>2. \A n \in Booked(p, d) : Nets'[n].bytes = Nets[n].bytes
  <2>1. Booked(p, d) \in SUBSET Own(p) /\ Booked(p, d)' \subseteq Own(p)'
    BY DEF Booked
  <2>2. Booked(p, d) \subseteq Own(p)'
    BY <2>1
  <2> QED BY <2>1, <2>2, NetsKept
<1>3. FileSum(Nets', Booked(p, d)) = FileSum(Nets, Booked(p, d))
  BY <1>2, ChargeTypes, FileSumSame
<1>4. BytesOf(Booked(p, d))' = BytesOf(Booked(p, d))
  BY <1>1 DEF BytesOf, Bytes, FileSum
<1>5. NetOf(Booked(p, d))' = NetOf(Booked(p, d))
  BY <1>3 DEF NetOf, FileSum
<1> QED BY <1>4, <1>5, ChargeTypes

(* An output that is over by what its reservation does not cover.          *)
StoreFits(p) ==
  /\ compress = "none" => \A n \in Own(p) : disk[n].over = 0
  /\ ~Settled(p) /\ Store(p) \in Own(p) => Bytes(Store(p)) <= reserved[p] + disk[Store(p)].over

(* While the output is not settled a step that keeps the inputs and brings *)
(* no board in keeps the worst case covered.                               *)
LEMMA ReservedKept ==
  ASSUME NEW p \in Players, TypeOK, Lists, PlayerOK(p), PlayerOK(p)', ReservedOK(p),
         ~Settled(p), ~Settled(p)', reserved'[p] = reserved[p], early'[p] = early[p],
         inputs'[p] = inputs[p], compress' = compress, StoreFits(p)',
         BoardsOf(Own(p))' \subseteq BoardsOf(Own(p)),
         \A n \in Own(p) : n.kind = "input" => disk'[n].drive = disk[n].drive
  PROVE  ReservedOK(p)'
<1>1. {n \in Own(p)' : n.kind = "input"} = {n \in Own(p) : n.kind = "input"}
  BY DEF PlayerOK, InputsOK
<1>2. Cardinality(BoardsOf(Own(p))') <= Cardinality(BoardsOf(Own(p)))
      /\ Cardinality(BoardsOf(Own(p))) \in Nat /\ Cardinality(BoardsOf(Own(p))') \in Nat
  BY OwnBoards, FS_Subset, FS_CardinalityType
<1>3. compress = "none" /\ inputs[p] # <<>> =>
        Cardinality(BoardsOf(Own(p)))' + Trailer <= reserved'[p]
  <2>1. compress = "none" /\ inputs[p] # <<>> =>
          Cardinality(BoardsOf(Own(p))) + Trailer <= reserved[p]
    BY DEF ReservedOK
  <2> QED BY <1>2, <2>1, ChargeTypes, Consts
<1> QED BY <1>1, <1>3 DEF ReservedOK, StoreFits

(* A step that leaves the files alone.                                     *)
LEMMA StoreFitsKept ==
  ASSUME NEW p \in Players, ReservedOK(p), ~Settled(p), disk' = disk, compress' = compress,
         reserved'[p] = reserved[p]
  PROVE  StoreFits(p)'
BY DEF ReservedOK, StoreFits, Own, Bytes

(* A step that books nothing: at most one file changes that is not an      *)
(* input and booked neither before nor after.                              *)
LEMMA BooksBut ==
  ASSUME NEW p \in Players, TypeOK, Lists, PlayerOK(p), PlayerOK(p)', ReservedOK(p),
         ~Settled(p), ~Settled(p)', ledger' = ledger, compress' = compress,
         reserved'[p] = reserved[p], early'[p] = early[p], inputs'[p] = inputs[p],
         NEW x, x.kind # "input", Going(p) \subseteq {x}, Going(p)' \subseteq {x},
         x \in OuterTemps(p) => x \in Going(p), x \in OuterTemps(p)' => x \in Going(p)',
         \A n : n # x =>
           /\ n \in Own(p)' <=> n \in Own(p)
           /\ n \in Own(p) => disk'[n] = disk[n]
           /\ n \in OuterTemps(p)' <=> n \in OuterTemps(p),
         BoardsOf(Own(p))' \subseteq BoardsOf(Own(p)), StoreFits(p)',
         Grant(p)' = Grant(p), probe'[p].at = probe[p].at \/ Grant(p) = 0
  PROVE  BooksKept(p)
<1>1. ReservedOK(p)'
  <2>1. \A n \in Own(p) : n.kind = "input" => disk'[n] = disk[n]
    OBVIOUS
  <2> QED BY <2>1, ReservedKept
<1>2. StoreCharge(p)' = StoreCharge(p) /\ NetStore(p)' = NetStore(p)
  BY DEF StoreCharge, NetStore
<1>3. ASSUME NEW d \in Drives PROVE Charge(p, d)' = Charge(p, d) /\ Net(p, d)' = Net(p, d)
  <2>1. ASSUME NEW n PROVE n \in Booked(p, d)' <=> n \in Booked(p, d)
    <3>1. CASE n = x
      BY <3>1 DEF Booked
    <3>2. CASE n # x
      <4>1. /\ n \in Own(p)' <=> n \in Own(p)
            /\ n \in Own(p) => disk'[n] = disk[n]
            /\ n \in OuterTemps(p)' <=> n \in OuterTemps(p)
        BY <3>2
      <4>2. n \notin Going(p) /\ n \notin Going(p)'
        BY <3>2
      <4> QED BY <4>1, <4>2 DEF Booked
    <3> QED BY <3>1, <3>2
  <2>2. Booked(p, d)' = Booked(p, d)
    BY <2>1
  <2>3. \A n \in Booked(p, d) : disk'[n] = disk[n]
    <3>1. x \notin Booked(p, d)
      BY DEF Booked
    <3>2. \A n \in Own(p) : n # x => disk'[n] = disk[n]
      OBVIOUS
    <3> QED BY <3>1, <3>2, ChargeTypes
  <2>4. /\ BytesOf(Booked(p, d))' = BytesOf(Booked(p, d)) /\ BytesOf(Booked(p, d)) \in Nat
        /\ NetOf(Booked(p, d))' = NetOf(Booked(p, d)) /\ NetOf(Booked(p, d)) \in Nat
    BY <2>2, <2>3, BookedSame
  <2>5. (IF d = TempDrives[probe'[p].at] THEN Grant(p)' ELSE 0)
          = (IF d = TempDrives[probe[p].at] THEN Grant(p) ELSE 0)
    OBVIOUS
  <2>6. Charge(p, d)' = Charge(p, d)
    BY <1>2, <2>4, <2>5 DEF Charge
  <2>7. Net(p, d)' = Net(p, d)
    BY <1>2, <2>4, <2>5 DEF Net
  <2> QED BY <2>6, <2>7
<1>4. ledger' \in [Drives -> Int] /\ \A d \in Drives : ledger[d] \in Int
  BY DEF TypeOK
<1>5. \A d \in Drives : Net(p, d) <= Net(p, d)
  BY ChargeTypes
<1> QED BY <1>1, <1>3, <1>4, <1>5 DEF BooksKept

(* The same, of a file that is no temporary of the outermost call.         *)
LEMMA QuietBooks ==
  ASSUME NEW p \in Players, TypeOK, Lists, PlayerOK(p), PlayerOK(p)', ReservedOK(p),
         ~Settled(p), ~Settled(p)', ledger' = ledger, compress' = compress,
         reserved'[p] = reserved[p], early'[p] = early[p], inputs'[p] = inputs[p],
         NEW x, x.kind # "input", x \notin OuterTemps(p),
         \A n : n # x => (n \in Own(p)' <=> n \in Own(p)) /\ (n \in Own(p) => disk'[n] = disk[n]),
         BoardsOf(Own(p))' \subseteq BoardsOf(Own(p)), StoreFits(p)',
         OuterTemps(p)' = OuterTemps(p), Grant(p)' = Grant(p),
         Going(p) = {}, Going(p)' = {},
         probe'[p].at = probe[p].at \/ Grant(p) = 0
  PROVE  BooksKept(p)
BY BooksBut

(* The same, of a step that touches no file at all.                        *)
LEMMA QuietCalls ==
  ASSUME NEW p \in Players, TypeOK, Lists, PlayerOK(p), PlayerOK(p)', ReservedOK(p),
         pc[p] \notin {"inputs", "deleteInput", "done", "deleteTemp"},
         pc'[p] \notin {"inputs", "deleteInput", "done", "deleteTemp"},
         disk' = disk, ledger' = ledger, compress' = compress,
         reserved'[p] = reserved[p], early'[p] = early[p], inputs'[p] = inputs[p],
         OuterTemps(p)' = OuterTemps(p), Grant(p)' = Grant(p),
         probe'[p].at = probe[p].at \/ Grant(p) = 0
  PROVE  BooksKept(p)
<1>1. ~Settled(p) /\ ~Settled(p)' /\ Going(p) = {} /\ Going(p)' = {}
  BY DEF Settled, Going
<1>2. Own(p)' = Own(p) /\ BoardsOf(Own(p))' = BoardsOf(Own(p))
  BY DEF Own, BoardsOf
<1>3. Store(p).kind # "input" /\ Store(p) \notin OuterTemps(p)
  BY OuterFacts, NameFacts
<1>4. StoreFits(p)'
  BY <1>1, StoreFitsKept
<1> QED BY <1>1, <1>2, <1>3, <1>4, QuietBooks

(* The calls are the same, and with them what they booked.                 *)
LEMMA OuterKept ==
  ASSUME NEW p \in Players, stack'[p] = stack[p]
  PROVE  OuterTemps(p)' = OuterTemps(p) /\ Grant(p)' = Grant(p)
BY DEF OuterTemps, Grant

(* Only a temporary of the outermost call is granted anything.             *)
LEMMA NoGrant ==
  ASSUME NEW p \in Players, PlayerOK(p), ~(Depth(p) = 1 /\ MakingTemp(p))
  PROVE  Grant(p) = 0
BY DEF PlayerOK, GrantOK, Grant

(* An opened input books nothing.                                          *)
LEMMA BooksOpenInput ==
  ASSUME NEW p \in Players, TypeOK, Lists, PlayerOK(p), PlayerOK(p)', ReservedOK(p), OpenInput(p)
  PROVE  BooksKept(p)
<1>1. /\ pc[p] = "open" /\ pc' = pc /\ stack' = stack /\ probe' = probe /\ disk' = disk
      /\ ledger' = ledger /\ compress' = compress /\ inputs' = inputs /\ reserved' = reserved
      /\ early' = early
  BY DEF OpenInput, planVars, ledgerVars
<1> QED BY <1>1, OuterKept, QuietCalls

(* A new output has no boards yet and is booked only when it is finished.  *)
LEMMA BooksCreateOutput ==
  ASSUME NEW p \in Players, TypeOK, Lists, PlayerOK(p), PlayerOK(p)', ReservedOK(p), CreateOutput(p)
  PROVE  BooksKept(p)
<1>1. /\ pc[p] = "open" /\ stack' = stack /\ probe' = probe
      /\ ledger' = ledger /\ compress' = compress /\ inputs' = inputs /\ reserved' = reserved
      /\ early' = early
  BY DEF CreateOutput, planVars, ledgerVars
<1>2. CASE OpenFiles < MaxHandles
  <2> DEFINE x == target[p]
  <2>1. /\ disk' = [n \in DOMAIN disk \cup {x} |->
                     IF n = x THEN [drive |-> TargetDrive(p), boards |-> {}, bytes |-> 0, closed |-> FALSE, over |-> 0]
                     ELSE disk[n]]
        /\ pc'[p] = "write"
    BY <1>2, GoesTo DEF CreateOutput
  <2>2. x.kind # "input" /\ x \notin OuterTemps(p) /\ x.player = p /\ x \notin Own(p)
    <3>1. PlaceOK(p) /\ (x = Store(p) \/ x.kind = "temp")
      BY <1>1 DEF PlayerOK, PlaceOK
    <3>2. CASE x = Store(p)
      <4>1. Store(p) \notin Own(p)
        BY <1>1, <3>1 DEF PlaceOK, Output
      <4> QED BY <3>2, <4>1, OuterFacts, NameFacts
    <3>3. CASE x.kind = "temp"
      <4>1. MakingTemp(p)
        BY <1>1, <3>3 DEF MakingTemp
      <4> QED BY <1>1, <3>1, <3>3, <4>1, OuterFacts DEF PlaceOK
    <3> QED BY <3>1, <3>2, <3>3
  <2>3. \A n : n # x => (n \in Own(p)' <=> n \in Own(p)) /\ (n \in Own(p) => disk'[n] = disk[n])
    BY <2>1 DEF Own
  <2>4. BoardsOf(Own(p))' \subseteq BoardsOf(Own(p))
    <3>1. disk'[x].boards = {}
      BY <2>1
    <3> QED BY <2>2, <2>3, <3>1 DEF BoardsOf
  <2>5. ~Settled(p) /\ ~Settled(p)' /\ Going(p) = {} /\ Going(p)' = {}
    BY <1>1, <2>1 DEF Settled, Going
  <2>6. StoreFits(p)'
    <3>1. disk'[x].over = 0 /\ disk'[x].bytes = 0 /\ reserved[p] \in Nat
      BY <2>1, ChargeTypes
    <3>2. compress = "none" => \A n \in Own(p)' : disk'[n].over = 0
      BY <2>3, <3>1 DEF ReservedOK
    <3>3. Store(p) \in Own(p)' => Bytes(Store(p))' <= reserved[p] + disk'[Store(p)].over
      BY <2>3, <2>5, <3>1 DEF ReservedOK, Bytes
    <3> QED BY <1>1, <3>2, <3>3 DEF StoreFits
  <2> HIDE DEF x
  <2> QED BY <1>1, <2>2, <2>3, <2>4, <2>5, <2>6, OuterKept, QuietBooks
<1>3. CASE ~(OpenFiles < MaxHandles)
  <2>1. disk' = disk /\ pc' = pc
    BY <1>3 DEF CreateOutput
  <2> QED BY <1>1, <2>1, OuterKept, QuietCalls
<1> QED BY <1>2, <1>3

(* What is written fits what was reserved or granted for it, but for what  *)
(* it is over; without compression it is over by nothing.                  *)
LEMMA WriteFits ==
  ASSUME NEW p \in Players, TypeOK, Lists, PlayerOK(p), ReservedOK(p), pc[p] = "write",
         NEW out \in SUBSET BoardsOf(readers[p]), NEW b \in OutSizes(out), NEW o, o = Overrun(p, b),
         disk' = [disk EXCEPT ![target[p]] =
                    [@ EXCEPT !.boards = out, !.bytes = b, !.closed = TRUE, !.over = o]],
         \A n : n # target[p] =>
           (n \in Own(p)' <=> n \in Own(p)) /\ (n \in Own(p) => disk'[n] = disk[n]),
         compress' = compress, reserved' = reserved, ~Settled(p), ~Settled(p)'
  PROVE  StoreFits(p)'
<1>1. PICK x : x = target[p]
  OBVIOUS
<1>2. /\ x = Store(p) \/ (x.kind = "temp" /\ x # Store(p) /\ stack[p] # <<>> /\ MakingTemp(p))
      /\ readers[p] \subseteq Own(p) /\ Range(queue[p]) \cup readers[p] \subseteq Own(p)
      /\ inputs[p] # <<>>
  <2>1. PlaceOK(p) /\ inputs[p] \in Seq(Names)
    BY DEF PlayerOK, Lists
  <2>2. x = Store(p) \/ x.kind = "temp"
    BY <1>1, <2>1 DEF PlaceOK
  <2>3. Len(inputs[p]) = 1 \/ Len(inputs[p]) >= 2
    BY <2>1 DEF PlaceOK
  <2>4. inputs[p] # <<>>
    BY <2>1, <2>3, RangeFacts
  <2>5. x # Store(p) => MakingTemp(p) /\ stack[p] # <<>>
    BY <1>1, <2>1, <2>2 DEF PlaceOK, MakingTemp
  <2> QED BY <2>1, <2>2, <2>4, <2>5 DEF PlaceOK
<1>3. /\ IsFiniteSet(out) /\ Cardinality(out) \in Nat
      /\ Cardinality(out) <= Cardinality(BoardsOf(Own(p))) /\ Cardinality(BoardsOf(Own(p))) \in Nat
      /\ Cardinality(out) <= Cardinality(BoardsOf(Range(queue[p]) \cup readers[p]))
      /\ Cardinality(BoardsOf(Range(queue[p]) \cup readers[p])) \in Nat
  <2>1. PICK S \in SUBSET Own(p), T \in SUBSET Own(p), U \in SUBSET Own(p) :
          /\ S = Range(queue[p]) \cup readers[p] /\ T = readers[p] /\ U = Own(p)
          /\ T \subseteq S /\ S \subseteq U /\ T \subseteq U
    BY <1>2
  <2>2. /\ IsFiniteSet(BoardsOf(S)) /\ BoardsOf(T) \subseteq BoardsOf(S) /\ Cardinality(BoardsOf(S)) \in Nat
        /\ IsFiniteSet(BoardsOf(U)) /\ BoardsOf(T) \subseteq BoardsOf(U) /\ Cardinality(BoardsOf(U)) \in Nat
    BY <2>1, OwnBoards
  <2>3. out \subseteq BoardsOf(S) /\ out \subseteq BoardsOf(U)
    BY <2>1, <2>2
  <2> QED BY <2>1, <2>2, <2>3, FS_Subset, FS_CardinalityType
<1>4. b \in Nat /\ (compress = "none" => b = Cardinality(out) + Trailer) /\ reserved[p] \in Nat
  BY <1>3, OutSizesAre, ChargeTypes
<1>5. x = Store(p) => o = Beyond(b, reserved[p])
  BY <1>1 DEF Overrun, Granted
<1>6. ASSUME compress = "none" PROVE o = 0
  <2>1. CASE x = Store(p)
    <3>1. Cardinality(BoardsOf(Own(p))) + Trailer <= reserved[p]
      BY <1>2, <1>6 DEF ReservedOK
    <3>2. b <= reserved[p]
      BY <1>3, <1>4, <1>6, <3>1, Consts
    <3> QED BY <1>4, <1>5, <2>1, <3>2, BeyondIs
  <2>2. CASE x # Store(p) /\ Depth(p) > 1
    BY <1>1, <2>2 DEF Overrun
  <2>3. CASE x # Store(p) /\ ~(Depth(p) > 1)
    <3>1. Depth(p) = 1 /\ MakingTemp(p) /\ Top(p) = stack[p][1] /\ stack[p][1].granted \in Nat
      <4>1. stack[p] # <<>> /\ MakingTemp(p)
        BY <1>2, <2>3
      <4>2. Depth(p) \in Nat /\ Depth(p) >= 1 /\ stack[p][1] \in Calls
        BY <4>1, CallFacts
      <4>3. Depth(p) = 1
        BY <2>3, <4>2
      <4> QED BY <4>1, <4>2, <4>3 DEF Top, Calls
    <3>2. Cardinality(BoardsOf(Range(queue[p]) \cup readers[p])) + Trailer <= stack[p][1].granted
      BY <1>6, <3>1 DEF PlayerOK, GrantOK
    <3>3. b <= stack[p][1].granted
      BY <1>3, <1>4, <1>6, <3>1, <3>2, Consts
    <3>4. o = Beyond(b, stack[p][1].granted)
      BY <1>1, <2>3, <3>1 DEF Overrun, Granted
    <3> QED BY <1>4, <3>1, <3>3, <3>4, BeyondIs
  <2> QED BY <2>1, <2>2, <2>3
<1>7. x \in Own(p) => disk'[x].over = o /\ disk'[x].bytes = b
  <2>1. x \in Own(p) => disk[x] \in Files /\ x \in DOMAIN disk
    BY DEF PlayerOK, FilesOK, FileOK, Own
  <2> QED BY <1>1, <2>1 DEF Files
<1>8. x \in Own(p)' <=> x \in Own(p)
  BY <1>1 DEF Own
<1>9. compress = "none" => \A n \in Own(p)' : disk'[n].over = 0
  BY <1>1, <1>6, <1>7, <1>8 DEF ReservedOK
<1>10. Store(p) \in Own(p)' => Bytes(Store(p))' <= reserved[p] + disk'[Store(p)].over
  <2>1. CASE x = Store(p)
    BY <1>4, <1>5, <1>7, <1>8, <2>1, BeyondIs DEF Bytes
  <2>2. CASE x # Store(p)
    BY <1>1, <2>2 DEF ReservedOK, Bytes
  <2> QED BY <2>1, <2>2
<1> QED BY <1>9, <1>10 DEF StoreFits

(* Writing an output brings in no board the player's files do not hold.    *)
LEMMA BooksWriteOutput ==
  ASSUME NEW p \in Players, TypeOK, Lists, PlayerOK(p), PlayerOK(p)', ReservedOK(p), WriteOutput(p)
  PROVE  BooksKept(p)
<1> DEFINE x == target[p]
<1>1. /\ pc[p] = "write" /\ stack' = stack /\ probe' = probe
      /\ ledger' = ledger /\ compress' = compress /\ inputs' = inputs /\ reserved' = reserved
      /\ early' = early
  BY DEF WriteOutput, planVars, ledgerVars
<1>2. PICK out, b, o :
        /\ out \in SUBSET BoardsOf(readers[p]) /\ b \in OutSizes(out) /\ o = Overrun(p, b)
        /\ disk' = [disk EXCEPT ![x] = [@ EXCEPT !.boards = out, !.bytes = b, !.closed = TRUE, !.over = o]]
  BY DEF WriteOutput, BoardsOf
<1>3. pc'[p] \in {"temp", "single", "unwind"}
  BY GoesTo DEF WriteOutput
<1>4. x.kind # "input" /\ x \notin OuterTemps(p) /\ readers[p] \subseteq Own(p) \ {x}
  <2>1. PlaceOK(p) /\ (x = Store(p) \/ x.kind = "temp") /\ readers[p] \subseteq Own(p) \ {x}
    BY <1>1 DEF PlayerOK, PlaceOK
  <2>2. CASE x = Store(p)
    BY <2>1, <2>2, OuterFacts, NameFacts
  <2>3. CASE x.kind = "temp"
    <3>1. MakingTemp(p)
      BY <1>1, <2>3 DEF MakingTemp
    <3> QED BY <2>1, <2>3, <3>1, OuterFacts DEF PlaceOK
  <2> QED BY <2>1, <2>2, <2>3
<1>5. \A n : n # x => (n \in Own(p)' <=> n \in Own(p)) /\ (n \in Own(p) => disk'[n] = disk[n])
  BY <1>2 DEF Own
<1>6. Own(p)' = Own(p)
  BY <1>2 DEF Own
<1>7. BoardsOf(Own(p))' \subseteq BoardsOf(Own(p))
  <2>1. x \in Own(p) => disk'[x].boards = out
    <3>1. x \in Own(p) => disk[x] \in Files /\ x \in DOMAIN disk
      BY DEF PlayerOK, FilesOK, FileOK, Own
    <3> QED BY <1>2, <3>1 DEF Files
  <2>2. out \subseteq BoardsOf(Own(p))
    BY <1>2, <1>4 DEF BoardsOf
  <2> QED BY <1>5, <1>6, <2>1, <2>2 DEF BoardsOf
<1>8. ~Settled(p) /\ ~Settled(p)' /\ Going(p) = {} /\ Going(p)' = {}
  BY <1>1, <1>3 DEF Settled, Going
<1>9. StoreFits(p)'
  BY <1>1, <1>2, <1>5, <1>8, WriteFits
<1> HIDE DEF x
<1> QED BY <1>1, <1>4, <1>5, <1>7, <1>8, <1>9, OuterKept, QuietBooks

(* Steps of CascadingMerge that book nothing.                              *)
LEMMA BooksCalls ==
  ASSUME NEW p \in Players, TypeOK, Lists, PlayerOK(p), PlayerOK(p)', ReservedOK(p),
         Direct(p) \/ NextGroup(p) \/ Probe(p) \/ NestedGroup(p) \/ RecompressSingle(p)
  PROVE  BooksKept(p)
<1>1. /\ stack' = stack /\ disk' = disk /\ ledger' = ledger /\ compress' = compress
      /\ inputs' = inputs /\ reserved' = reserved /\ early' = early
  BY DEF Direct, NextGroup, Probe, NestedGroup, RecompressSingle, planVars, ledgerVars, kwayVars
<1>2. pc[p] \in {"begin", "cascade", "probe"} /\ pc'[p] \in {"open", "probe", "claim"}
  <2>1. CASE Direct(p)
    BY <2>1, GoesTo DEF Direct, BeginKWay
  <2>2. CASE NextGroup(p)
    BY <2>2, GoesTo DEF NextGroup, MoreGroups
  <2>3. CASE NestedGroup(p)
    BY <2>3, GoesTo DEF NestedGroup, MoreGroups, BeginTemp, BeginKWay
  <2>4. CASE RecompressSingle(p)
    BY <2>4, GoesTo DEF RecompressSingle, BeginKWay
  <2>5. CASE Probe(p)
    <3>1. pc[p] = "probe" /\ (Goto(p, "probe") \/ Goto(p, "claim") \/ pc' = pc)
      BY <2>5 DEF Probe, TryNextDrive
    <3> QED BY <3>1, GoesTo
  <2> QED BY <2>1, <2>2, <2>3, <2>4, <2>5
<1>3. Grant(p) = 0
  BY <1>2, NoGrant DEF MakingTemp
<1> QED BY <1>1, <1>2, <1>3, OuterKept, QuietCalls

(* The outermost call begins with no temporary.                            *)
LEMMA BooksMergeSeveral ==
  ASSUME NEW p \in Players, TypeOK, Lists, PlayerOK(p), PlayerOK(p)', ReservedOK(p), MergeSeveral(p)
  PROVE  BooksKept(p)
<1>1. /\ pc[p] = "begin" /\ pc'[p] = "cascade" /\ disk' = disk /\ ledger' = ledger
      /\ compress' = compress /\ inputs' = inputs /\ reserved' = reserved /\ early' = early
      /\ probe' = probe
  BY GoesTo DEF MergeSeveral, planVars, ledgerVars
<1>2. PICK c \in Calls : c = Call(inputs[p]) /\ c.temps = <<>> /\ c.granted = 0
  BY CallType DEF Lists
<1>3. stack'[p] = <<c>> /\ stack[p] = <<>>
  BY <1>1, <1>2 DEF MergeSeveral, Lists, PlayerOK, PlaceOK, Alone
<1>4. Range(<<>>) = {}
  BY DEF Range
<1>5. <<c>> # <<>> /\ <<c>>[1] = c
  OBVIOUS
<1>6. OuterTemps(p)' = OuterTemps(p) /\ Grant(p)' = Grant(p)
  BY <1>2, <1>3, <1>4, <1>5 DEF OuterTemps, Grant
<1> QED BY <1>1, <1>6, QuietCalls

(* A nested call begins.                                                   *)
LEMMA BooksDescend ==
  ASSUME NEW p \in Players, TypeOK, Lists, PlayerOK(p), PlayerOK(p)', ReservedOK(p), Descend(p)
  PROVE  BooksKept(p)
<1>1. /\ pc[p] = "cascade" /\ pc' = pc /\ disk' = disk /\ ledger' = ledger
      /\ compress' = compress /\ inputs' = inputs /\ reserved' = reserved /\ early' = early
      /\ probe' = probe /\ stack' = [stack EXCEPT ![p] = Append(@, Call(Top(p).temps))]
  BY DEF Descend, planVars, ledgerVars
<1>2. stack[p] # <<>> /\ Top(p).temps \in Seq(Names) /\ stack[p] \in Seq(Calls)
  BY <1>1, CallHolds, CallFacts DEF Within
<1>3. PICK s \in Seq(Calls), c \in Calls : s = stack[p] /\ c = Call(Top(p).temps)
  BY <1>2, CallType
<1>4. stack'[p] = Append(s, c)
  BY <1>1, <1>3 DEF Lists
<1>5. Append(s, c) # <<>> /\ Append(s, c)[1] = s[1]
  <2>1. Append(s, c) \in Seq(Calls) /\ Len(Append(s, c)) = Len(s) + 1 /\ Len(s) \in Nat
        /\ \A i \in 1..Len(s) : Append(s, c)[i] = s[i]
    BY AppendFacts, LenProperties
  <2>2. 1 \in 1..Len(s)
    BY <1>2, <1>3, <2>1, RangeFacts
  <2> QED BY <2>1, <2>2, RangeFacts
<1>6. OuterTemps(p)' = OuterTemps(p) /\ Grant(p)' = Grant(p)
  BY <1>2, <1>3, <1>4, <1>5 DEF OuterTemps, Grant
<1> QED BY <1>1, <1>6, QuietCalls

(* A call returns when its temporaries are gone.                           *)
LEMMA BooksReturn ==
  ASSUME NEW p \in Players, TypeOK, Lists, PlayerOK(p), PlayerOK(p)', ReservedOK(p), Return(p)
  PROVE  BooksKept(p)
<1>1. /\ pc[p] = "unwind" /\ disk' = disk /\ ledger' = ledger
      /\ compress' = compress /\ inputs' = inputs /\ reserved' = reserved /\ early' = early
      /\ probe' = probe /\ stack' = [stack EXCEPT ![p] = SubSeq(@, 1, Len(@) - 1)]
      /\ Top(p).temps = <<>>
  BY DEF Return, planVars, ledgerVars
<1>2. pc'[p] \in {"settle", "unwind"}
  BY GoesTo DEF Return
<1>3. Grant(p) = 0
  BY <1>1, NoGrant DEF MakingTemp
<1>4. PICK s \in Seq(Calls) : s = stack[p] /\ s # <<>>
  BY <1>1, CallHolds, CallFacts DEF Within
<1>5. PICK t \in Seq(Calls) : /\ t = SubSeq(s, 1, Len(s) - 1) /\ Len(t) = Len(s) - 1
                              /\ \A j \in 1..(Len(s) - 1) : t[j] = s[j]
  <2>1. /\ SubSeq(s, 1, Len(s) - 1) \in Seq(Calls) /\ Len(SubSeq(s, 1, Len(s) - 1)) = Len(s) - 1
        /\ \A j \in 1..(Len(s) - 1) : SubSeq(s, 1, Len(s) - 1)[j] = s[j]
    BY <1>4, FrontFacts
  <2> QED BY <2>1
<1>6. stack'[p] = t
  BY <1>1, <1>4, <1>5 DEF Lists
<1>7. Len(s) \in Nat /\ Len(s) >= 1 /\ Depth(p) = Len(s)
  BY <1>4, RangeFacts, LenProperties DEF Depth
<1>8. CASE Len(s) = 1
  <2>1. t = <<>>
    BY <1>5, <1>8, RangeFacts
  <2>2. s[1].temps = <<>>
    BY <1>1, <1>4, <1>7, <1>8 DEF Top
  <2>3. Range(<<>>) = {}
    BY DEF Range
  <2>4. OuterTemps(p)' = OuterTemps(p) /\ Grant(p)' = Grant(p)
    BY <1>3, <1>4, <1>6, <2>1, <2>2, <2>3 DEF OuterTemps, Grant
  <2> QED BY <1>1, <1>2, <2>4, QuietCalls
<1>9. CASE Len(s) # 1
  <2>1. t # <<>> /\ t[1] = s[1]
    <3>1. 1 \in 1..(Len(s) - 1) /\ Len(t) # 0
      BY <1>5, <1>7, <1>9
    <3> QED BY <1>5, <3>1, RangeFacts
  <2>2. OuterTemps(p)' = OuterTemps(p) /\ Grant(p)' = Grant(p)
    BY <1>4, <1>6, <2>1 DEF OuterTemps, Grant
  <2> QED BY <1>1, <1>2, <2>2, QuietCalls
<1> QED BY <1>8, <1>9

----------------------------------------------------------------------------
(* Bookings of CascadingMerge. *)

(* What is reclaimed comes on top of the ledger, or off it.                *)
LEMMA ReclaimAdds ==
  ASSUME NEW L \in [Drives -> Int], NEW d \in Drives, NEW b \in Int
  PROVE  /\ [L EXCEPT ![d] = @ + b] \in [Drives -> Int]
         /\ \A e \in Drives : [L EXCEPT ![d] = @ + b][e] = L[e] + (IF e = d THEN b ELSE 0)
OBVIOUS

(* A reclaim changes one ledger.                                           *)
LEMMA ReclaimFacts ==
  ASSUME TypeOK, NEW d \in Drives, NEW b \in Int, DriveReclaim(d, b)
  PROVE  /\ ledger' \in [Drives -> Int]
         /\ \A e \in Drives : ledger'[e] = ledger[e] + (IF e = d THEN b ELSE 0)
BY ReclaimAdds DEF TypeOK, DriveReclaim

(* A reservation that is not given up stays on the account.                *)
LEMMA UnsettledKept ==
  ASSUME NEW p \in Players, ~Settled(p), ~Settled(p)', reserved'[p] = reserved[p]
  PROVE  StoreCharge(p)' = StoreCharge(p) /\ NetStore(p)' = NetStore(p)
BY DEF StoreCharge, NetStore

(* What is granted is taken from the ledger of the drive it is granted on. *)
LEMMA BooksClaim ==
  ASSUME NEW p \in Players, TypeOK, Lists, PlayerOK(p), PlayerOK(p)', ReservedOK(p), Claim(p)
  PROVE  BooksKept(p)
<1> DEFINE d == TempDrives[probe[p].at]
<1> DEFINE b == GroupBytes(p, probe[p].count)
<1>1. /\ pc[p] = "claim" /\ disk' = disk /\ compress' = compress
      /\ inputs' = inputs /\ reserved' = reserved /\ early' = early
  BY DEF Claim, planVars
<1>2. /\ stack[p] # <<>> /\ Depth(p) = 1 /\ probe[p].at \in 1..Len(TempDrives) /\ Top(p) \in Calls
      /\ probe[p].count \in 1..Window(p)
  BY <1>1, CallHolds DEF Within, PlayerOK, PlaceOK
<1>3. d \in Drives /\ b \in Nat
  BY <1>1, <1>2, Consts, GroupFits DEF Within
<1>4. Grant(p) = 0
  BY <1>1, NoGrant DEF MakingTemp
<1>5. CASE /\ DriveReserve(d, b) /\ SetTop(p, [Top(p) EXCEPT !.granted = b])
           /\ BeginTemp(p, probe[p].count) /\ UNCHANGED <<phase, probe>>
  <2>1. pc'[p] = "open" /\ probe' = probe
    BY <1>5, GoesTo DEF BeginTemp, BeginKWay
  <2>2. PICK c \in Calls : c = [Top(p) EXCEPT !.granted = b] /\ c.temps = Top(p).temps /\ c.granted = b
    BY <1>2, <1>3, GrantedCall
  <2>3. SetTop(p, c)
    BY <1>5, <2>2
  <2>4. stack'[p] # <<>> /\ stack'[p][1] = c /\ Top(p) = stack[p][1]
    BY <1>2, <2>3, SetTopFacts DEF Top
  <2>5. OuterTemps(p)' = OuterTemps(p) /\ Grant(p)' = b
    BY <1>2, <2>2, <2>4 DEF OuterTemps, Grant
  <2>6. ~Settled(p) /\ ~Settled(p)' /\ Going(p) = {} /\ Going(p)' = {} /\ Own(p)' = Own(p)
    BY <1>1, <2>1 DEF Settled, Going, Own
  <2>7. ReservedOK(p)'
    <3>1. BoardsOf(Own(p))' = BoardsOf(Own(p))
      BY <1>1, <2>6 DEF BoardsOf
    <3>2. StoreFits(p)'
      BY <1>1, <2>6, StoreFitsKept
    <3> QED BY <1>1, <2>6, <3>1, <3>2, ReservedKept
  <2>8. StoreCharge(p)' = StoreCharge(p) /\ NetStore(p)' = NetStore(p)
    BY <1>1, <2>6, UnsettledKept
  <2>9. /\ ledger' \in [Drives -> Int] /\ ledger'[d] >= 0
        /\ \A e \in Drives : ledger'[e] + (IF e = d THEN b ELSE 0) = ledger[e]
    <3>1. ledger \in [Drives -> Int] /\ ledger' = [ledger EXCEPT ![d] = @ - b] /\ ledger[d] >= b
      BY <1>5 DEF DriveReserve, TypeOK
    <3>2. ledger[d] - b \in Nat /\ ledger[d] \in Int
      BY <1>3, <3>1
    <3>3. ledger' \in [Drives -> Int] /\ ledger'[d] = ledger[d] - b
      BY <1>3, <3>1, <3>2
    <3>4. ledger'[d] + b = ledger[d] /\ ledger'[d] >= 0
      BY <1>3, <3>2, <3>3
    <3> HIDE DEF d, b
    <3>5. \A e \in Drives : e # d => ledger'[e] = ledger[e] /\ ledger[e] \in Int
      BY <3>1
    <3> QED BY <3>3, <3>4, <3>5
  <2>10. ASSUME NEW e \in Drives
         PROVE  /\ Charge(p, e)' = Charge(p, e) + (IF e = d THEN b ELSE 0)
                /\ e # d => Net(p, e)' = Net(p, e)
    <3>1. Booked(p, e)' = Booked(p, e) /\ \A n \in Booked(p, e) : disk'[n] = disk[n]
      BY <1>1, <2>5, <2>6 DEF Booked
    <3>2. /\ BytesOf(Booked(p, e))' = BytesOf(Booked(p, e)) /\ BytesOf(Booked(p, e)) \in Nat
          /\ NetOf(Booked(p, e))' = NetOf(Booked(p, e))
      BY <3>1, BookedSame
    <3>3. StoreCharge(p) \in Nat
      BY ChargeTypes
    <3>4. Charge(p, e)' = BytesOf(Booked(p, e)) + (IF e = StoreDrive THEN StoreCharge(p) ELSE 0)
                            + (IF e = d THEN b ELSE 0)
      BY <2>1, <2>5, <2>8, <3>2 DEF Charge
    <3>5. Charge(p, e) = BytesOf(Booked(p, e)) + (IF e = StoreDrive THEN StoreCharge(p) ELSE 0)
                            + (IF e = d THEN 0 ELSE 0)
      BY <1>4 DEF Charge
    <3>6. ASSUME e # d PROVE Net(p, e)' = Net(p, e)
      <4>1. Net(p, e)' = NetOf(Booked(p, e)) + (IF e = StoreDrive THEN NetStore(p) ELSE 0) + 0
        BY <2>1, <2>8, <3>2, <3>6 DEF Net
      <4>2. Net(p, e) = NetOf(Booked(p, e)) + (IF e = StoreDrive THEN NetStore(p) ELSE 0) + 0
        BY <3>6 DEF Net
      <4> QED BY <4>1, <4>2
    <3> HIDE DEF d, b
    <3>7. Charge(p, e)' = Charge(p, e) + (IF e = d THEN b ELSE 0)
      BY <1>3, <3>2, <3>3, <3>4, <3>5
    <3> QED BY <3>6, <3>7
  <2>11. \A e \in Drives : ledger[e] \in Int /\ ledger'[e] \in Int
    BY <2>9 DEF TypeOK
  <2> HIDE DEF d, b
  <2>12. \A e \in Drives : ledger'[e] + Charge(p, e)' = ledger[e] + Charge(p, e)
    BY <1>3, <2>9, <2>10, <2>11, ChargeTypes
  <2>13. \A e \in Drives : ledger'[e] >= 0 \/ Net(p, e)' <= Net(p, e)
    <3>1. \A e \in Drives : Net(p, e) <= Net(p, e)
      BY ChargeTypes
    <3> QED BY <2>9, <2>10, <3>1
  <2> QED BY <2>7, <2>9, <2>12, <2>13 DEF BooksKept
<1>6. CASE ledger[d] < b /\ TryNextDrive(p) /\ UNCHANGED <<ledger, stack, queue, target, tempCount>>
  <2>1. pc'[p] \in {"probe", "claim"}
    BY <1>1, <1>6, GoesTo DEF TryNextDrive
  <2> QED BY <1>1, <1>4, <1>6, <2>1, OuterKept, QuietCalls
<1> QED BY <1>5, <1>6 DEF Claim

(* One file more on the account.                                           *)
LEMMA BookedGains ==
  ASSUME NEW p \in Players, TypeOK, Lists, PlayerOK(p), NEW d \in Drives,
         NEW x \in Own(p), x \notin Booked(p, d), Booked(p, d)' = Booked(p, d) \cup {x}, disk' = disk
  PROVE  /\ BytesOf(Booked(p, d))' = BytesOf(Booked(p, d)) + Bytes(x)
         /\ NetOf(Booked(p, d))' = NetOf(Booked(p, d)) + Nets[x].bytes
<1>1. /\ IsFiniteSet(Booked(p, d)) /\ Booked(p, d) \subseteq Own(p)
      /\ \A n \in Own(p) : disk[n].bytes \in Nat /\ Nets[n].bytes \in Nat
  BY ChargeTypes, NetFacts DEF PlayerOK
<1>2. FileSum(disk, Booked(p, d) \cup {x}) = FileSum(disk, Booked(p, d)) + disk[x].bytes
  <2>1. \A n \in Booked(p, d) \cup {x} : disk[n].bytes \in Nat
    BY <1>1
  <2> QED BY <1>1, <2>1, FileSumAdd
<1>3. FileSum(Nets, Booked(p, d) \cup {x}) = FileSum(Nets, Booked(p, d)) + Nets[x].bytes
  <2>1. \A n \in Booked(p, d) \cup {x} : Nets[n].bytes \in Nat
    BY <1>1
  <2> QED BY <1>1, <2>1, FileSumAdd
<1>4. BytesOf(Booked(p, d))' = BytesOf(Booked(p, d)) + Bytes(x)
  BY <1>2 DEF BytesOf, Bytes, FileSum
<1>5. NetOf(Booked(p, d))' = NetOf(Booked(p, d)) + Nets[x].bytes
  <2>1. Nets' = Nets
    BY DEF Nets
  <2>2. NetOf(Booked(p, d))' = FileSum(Nets, Booked(p, d) \cup {x})
    BY <2>1 DEF NetOf, FileSum
  <2> QED BY <1>3, <2>2, NetOfIs
<1> QED BY <1>4, <1>5

(* One file less on the account.                                           *)
LEMMA BookedLoses ==
  ASSUME NEW p \in Players, TypeOK, Lists, PlayerOK(p), NEW d \in Drives,
         NEW x \in Booked(p, d), Booked(p, d)' = Booked(p, d) \ {x},
         \A n \in Booked(p, d) \ {x} : disk'[n] = disk[n]
  PROVE  /\ BytesOf(Booked(p, d))' + Bytes(x) = BytesOf(Booked(p, d))
         /\ BytesOf(Booked(p, d))' \in Nat /\ Bytes(x) \in Nat
         /\ NetOf(Booked(p, d))' + Nets[x].bytes = NetOf(Booked(p, d))
         /\ NetOf(Booked(p, d))' \in Nat /\ Nets[x].bytes \in Nat
<1>1. /\ IsFiniteSet(Booked(p, d)) /\ Booked(p, d) \subseteq Own(p)
      /\ \A n \in Booked(p, d) : disk[n].bytes \in Nat /\ Nets[n].bytes \in Nat
  BY ChargeTypes, NetFacts DEF PlayerOK
<1>2. PICK B : B = Booked(p, d)
  OBVIOUS
<1>3. /\ IsFiniteSet(B) /\ x \in B /\ IsFiniteSet(B \ {x}) /\ B \ {x} \in SUBSET Own(p)
      /\ \A n \in B : disk[n].bytes \in Nat /\ Nets[n].bytes \in Nat
  BY <1>1, <1>2, FS_RemoveElement
<1>4. /\ FileSum(disk, B) = disk[x].bytes + FileSum(disk, B \ {x}) /\ FileSum(disk, B \ {x}) \in Nat
      /\ FileSum(Nets, B) = Nets[x].bytes + FileSum(Nets, B \ {x}) /\ FileSum(Nets, B \ {x}) \in Nat
  BY <1>3, FileSumRemove
<1>5. FileSum(disk', B \ {x}) = FileSum(disk, B \ {x})
  BY <1>2, <1>3, FileSumSame
<1>6. FileSum(Nets', B \ {x}) = FileSum(Nets, B \ {x})
  <2>1. B \ {x} \subseteq Own(p)'
    BY <1>2 DEF Booked
  <2>2. \A n \in B \ {x} : Nets'[n].bytes = Nets[n].bytes
    BY <1>2, <1>3, <2>1, NetsKept
  <2> QED BY <1>3, <2>2, FileSumSame
<1>7. BytesOf(Booked(p, d))' = FileSum(disk, B \ {x}) /\ NetOf(Booked(p, d))' = FileSum(Nets, B \ {x})
  <2>1. BytesOf(Booked(p, d))' = FileSum(disk', B \ {x})
    BY <1>2 DEF BytesOf, Bytes, FileSum
  <2>2. NetOf(Booked(p, d))' = FileSum(Nets', B \ {x})
    BY <1>2 DEF NetOf, FileSum
  <2> QED BY <1>5, <1>6, <2>1, <2>2
<1>8. BytesOf(Booked(p, d)) = FileSum(disk, B) /\ Bytes(x) = disk[x].bytes /\ NetOf(Booked(p, d)) = FileSum(Nets, B)
  BY <1>2, BytesOfIs, NetOfIs DEF Bytes
<1>9. disk[x].bytes \in Nat /\ Nets[x].bytes \in Nat
  BY <1>3
<1> QED BY <1>4, <1>7, <1>8, <1>9

(* The call when a group is merged into x.                                 *)
LEMMA FinishedCall ==
  ASSUME NEW c \in Calls, NEW k \in Nat, NEW x \in Names
  PROVE  \E call \in Calls :
           /\ call = [c EXCEPT !.pos = @ + k, !.temps = Append(@, x), !.granted = 0]
           /\ call.granted = 0 /\ call.temps = Append(c.temps, x)
<1>1. PICK i \in Nat, t \in Seq(Names) : i = c.pos + k /\ t = Append(c.temps, x)
  <2>1. c.pos \in Nat /\ c.temps \in Seq(Names)
    BY DEF Calls
  <2>2. c.pos + k \in Nat
    BY <2>1
  <2>3. Append(c.temps, x) \in Seq(Names)
    BY <2>1, AppendFacts
  <2> QED BY <2>2, <2>3
<1>2. PICK call : call = [c EXCEPT !.pos = i, !.temps = t, !.granted = 0]
  OBVIOUS
<1>3. call = [c EXCEPT !.pos = @ + k, !.temps = Append(@, x), !.granted = 0]
  BY <1>1, <1>2
<1>4. /\ c = [ins |-> c.ins, pos |-> c.pos, temps |-> c.temps, granted |-> c.granted]
      /\ c.ins \in Seq(Names)
  BY DEF Calls
<1>5. call = [ins |-> c.ins, pos |-> i, temps |-> t, granted |-> 0]
  BY <1>2, <1>4
<1>6. call \in Calls /\ call.granted = 0 /\ call.temps = t
  BY <1>4, <1>5 DEF Calls
<1> QED BY <1>1, <1>3, <1>6

(* A finished temporary is booked on its drive, and what it did not need   *)
(* of its grant goes back.                                                 *)
LEMMA BooksFinishTemp ==
  ASSUME NEW p \in Players, TypeOK, Lists, PlayerOK(p), PlayerOK(p)', ReservedOK(p), FinishTemp(p)
  PROVE  BooksKept(p)
<1> DEFINE x == target[p]
<1> DEFINE d == TempDrives[probe[p].at]
<1>1. /\ pc[p] = "temp" /\ pc'[p] = "cascade" /\ disk' = disk /\ compress' = compress
      /\ inputs' = inputs /\ reserved' = reserved /\ early' = early /\ probe' = probe
  BY GoesTo DEF FinishTemp, planVars
<1>2. /\ stack[p] # <<>> /\ Depth(p) \in Nat /\ Depth(p) >= 1 /\ probe[p].at \in 1..Len(TempDrives)
      /\ Top(p) \in Calls /\ Top(p).temps \in Seq(Names) /\ probe[p].count \in Nat
      /\ Top(p).pos \in Nat
  BY <1>1, CallHolds DEF Within
<1>3. /\ MakingTemp(p) /\ x.kind = "temp" /\ x \in Own(p) /\ x \notin TempsOf(p) /\ x \in Names
  BY <1>1 DEF PlayerOK, PlaceOK, MakingTemp, Lists
<1>4. PICK c \in Calls : /\ SetTop(p, c) /\ c.granted = 0 /\ c.temps = Append(Top(p).temps, x)
  <2>0. PICK t \in Calls, k \in Nat, y \in Names : t = Top(p) /\ k = probe[p].count /\ y = x
    BY <1>2, <1>3
  <2>1. PICK c \in Calls :
          /\ c = [t EXCEPT !.pos = @ + k, !.temps = Append(@, y), !.granted = 0]
          /\ c.granted = 0 /\ c.temps = Append(t.temps, y)
    BY FinishedCall
  <2>2. SetTop(p, c)
    BY <2>0, <2>1 DEF FinishTemp
  <2> QED BY <2>0, <2>1, <2>2
<1>5. /\ stack'[p] # <<>> /\ stack'[p][Depth(p)] = c
      /\ \A k \in 1..Depth(p) : k # Depth(p) => stack'[p][k] = stack[p][k]
  BY <1>2, <1>4, SetTopFacts
<1>6. CASE Depth(p) # 1
  <2>1. ledger' = ledger
    BY <1>6 DEF FinishTemp
  <2>2. stack'[p][1] = stack[p][1]
    BY <1>2, <1>5, <1>6
  <2>3. OuterTemps(p)' = OuterTemps(p) /\ Grant(p)' = Grant(p)
    BY <1>2, <1>5, <2>2 DEF OuterTemps, Grant
  <2> QED BY <1>1, <2>1, <2>3, QuietCalls
<1>7. CASE Depth(p) = 1
  <2>1. /\ OuterTemps(p) = Range(Top(p).temps) /\ Grant(p) = Top(p).granted
        /\ OuterTemps(p)' = Range(Append(Top(p).temps, x)) /\ Grant(p)' = 0
    BY <1>2, <1>4, <1>5, <1>7 DEF OuterTemps, Grant, Top
  <2>2. OuterTemps(p)' = OuterTemps(p) \cup {x}
    BY <1>2, <1>3, <2>1, AppendFacts
  <2>3. /\ disk[x].drive = d /\ d \in Drives /\ Bytes(x) \in Nat /\ Grant(p) \in Nat
        /\ Nets[x].bytes <= Grant(p) /\ Nets[x].bytes \in Nat
    <3>1. Bytes(x) <= stack[p][1].granted + disk[x].over /\ disk[x].drive = d
      BY <1>1, <1>3, <1>7 DEF PlayerOK, GrantOK
    <3>2. /\ Nets[x].bytes = disk[x].bytes - disk[x].over /\ Nets[x].bytes \in Nat
          /\ disk[x].bytes \in Nat /\ disk[x].over \in Nat
      BY <1>3, NetFacts DEF PlayerOK
    <3>3. Grant(p) \in Nat /\ Grant(p) = stack[p][1].granted /\ Bytes(x) = disk[x].bytes
      BY <1>2, ChargeTypes DEF Grant, Bytes
    <3>4. disk[x].drive \in Drives
      BY <1>3, PlayerFacts
    <3>5. Nets[x].bytes <= Grant(p)
      BY <3>1, <3>2, <3>3
    <3> QED BY <3>1, <3>2, <3>3, <3>4, <3>5
  <2>4. PICK b \in Int : b = Grant(p) - Bytes(x)
    BY <2>3
  <2>5. DriveReclaim(d, b)
    BY <1>7, <2>1, <2>4 DEF FinishTemp
  <2>6. /\ ledger' \in [Drives -> Int]
        /\ \A e \in Drives : ledger'[e] = ledger[e] + (IF e = d THEN b ELSE 0)
    BY <2>3, <2>5, ReclaimFacts
  <2>7. ~Settled(p) /\ ~Settled(p)' /\ Going(p) = {} /\ Going(p)' = {} /\ Own(p)' = Own(p)
    BY <1>1 DEF Settled, Going, Own
  <2>8. ReservedOK(p)'
    <3>1. BoardsOf(Own(p))' = BoardsOf(Own(p))
      BY <1>1, <2>7 DEF BoardsOf
    <3>2. StoreFits(p)'
      BY <1>1, <2>7, StoreFitsKept
    <3> QED BY <1>1, <2>7, <3>1, <3>2, ReservedKept
  <2>9. StoreCharge(p)' = StoreCharge(p) /\ NetStore(p)' = NetStore(p)
    BY <1>1, <2>7, UnsettledKept
  <2>10. x \notin OuterTemps(p)
    BY <1>3, OuterFacts
  <2>11. ASSUME NEW e \in Drives
         PROVE  /\ BytesOf(Booked(p, e))' = BytesOf(Booked(p, e)) + (IF e = d THEN Bytes(x) ELSE 0)
                /\ NetOf(Booked(p, e))' = NetOf(Booked(p, e)) + (IF e = d THEN Nets[x].bytes ELSE 0)
    <3>1. \A n : n \in Booked(p, e)' <=> n \in Booked(p, e) \/ (n = x /\ e = d)
      BY <1>1, <1>3, <2>2, <2>3, <2>7 DEF Booked
    <3>2. CASE e = d
      <4>1. Booked(p, e)' = Booked(p, e) \cup {x} /\ x \notin Booked(p, e)
        BY <1>3, <2>10, <3>1, <3>2 DEF Booked
      <4> QED BY <1>1, <1>3, <3>2, <4>1, BookedGains
    <3>3. CASE e # d
      <4>1. Booked(p, e)' = Booked(p, e) /\ \A n \in Booked(p, e) : disk'[n] = disk[n]
        BY <1>1, <3>1, <3>3
      <4>2. /\ BytesOf(Booked(p, e))' = BytesOf(Booked(p, e)) /\ BytesOf(Booked(p, e)) \in Nat
            /\ NetOf(Booked(p, e))' = NetOf(Booked(p, e)) /\ NetOf(Booked(p, e)) \in Nat
        BY <4>1, BookedSame
      <4> QED BY <3>3, <4>2
    <3> QED BY <3>2, <3>3
  <2>12. ASSUME NEW e \in Drives
         PROVE  ledger'[e] + Charge(p, e)' = ledger[e] + Charge(p, e)
    <3>1. /\ StoreCharge(p) \in Nat /\ BytesOf(Booked(p, e)) \in Nat /\ ledger[e] \in Int
      BY ChargeTypes DEF TypeOK
    <3>2. Charge(p, e)' = BytesOf(Booked(p, e))' + (IF e = StoreDrive THEN StoreCharge(p) ELSE 0)
                            + (IF e = d THEN 0 ELSE 0)
      BY <1>1, <2>1, <2>9 DEF Charge
    <3>3. Charge(p, e) = BytesOf(Booked(p, e)) + (IF e = StoreDrive THEN StoreCharge(p) ELSE 0)
                            + (IF e = d THEN Grant(p) ELSE 0)
      BY DEF Charge
    <3>4. ledger'[e] = ledger[e] + (IF e = d THEN b ELSE 0) /\ b \in Int /\ b = Grant(p) - Bytes(x)
      BY <2>4, <2>6
    <3> HIDE DEF d, x
    <3> QED BY <2>3, <2>11, <3>1, <3>2, <3>3, <3>4
  <2>13. ASSUME NEW e \in Drives PROVE Net(p, e)' <= Net(p, e)
    <3>1. NetStore(p) \in Nat /\ NetOf(Booked(p, e)) \in Nat
      BY ChargeTypes
    <3>2. Net(p, e)' = NetOf(Booked(p, e))' + (IF e = StoreDrive THEN NetStore(p) ELSE 0)
                         + (IF e = d THEN 0 ELSE 0)
      BY <1>1, <2>1, <2>9 DEF Net
    <3>3. Net(p, e) = NetOf(Booked(p, e)) + (IF e = StoreDrive THEN NetStore(p) ELSE 0)
                        + (IF e = d THEN Grant(p) ELSE 0)
      BY DEF Net
    <3> HIDE DEF d, x
    <3> QED BY <2>3, <2>11, <3>1, <3>2, <3>3
  <2> QED BY <2>6, <2>8, <2>12, <2>13 DEF BooksKept
<1> QED BY <1>6, <1>7

(* A temporary of the outermost call is given back before it is deleted.   *)
LEMMA BooksReclaimTemp ==
  ASSUME NEW p \in Players, TypeOK, Lists, PlayerOK(p), PlayerOK(p)', ReservedOK(p), ReclaimTemp(p)
  PROVE  BooksKept(p)
<1>1. /\ pc[p] = "unwind" /\ pc'[p] = "deleteTemp" /\ disk' = disk /\ compress' = compress
      /\ inputs' = inputs /\ reserved' = reserved /\ early' = early /\ probe' = probe
      /\ stack' = stack /\ Top(p).temps # <<>>
  BY GoesTo DEF ReclaimTemp, planVars
<1>2. /\ stack[p] # <<>> /\ Depth(p) \in Nat /\ Depth(p) >= 1 /\ Top(p).temps \in Seq(Names)
  BY <1>1, CallHolds DEF Within
<1>3. PICK h : h = Head(Top(p).temps)
  OBVIOUS
<1>4. h \in Range(Top(p).temps) /\ h \in TempsOf(p) /\ Range(Top(p).temps) \cap Lower(p) = {}
  BY <1>1, <1>2, <1>3, TailFacts, TempsSplit
<1>5. h \in Own(p) /\ h.kind = "temp"
  BY <1>4 DEF PlayerOK, CallsOK
<1>6. Going(p) = {} /\ Going(p)' = {h} /\ ~Settled(p) /\ ~Settled(p)' /\ Own(p)' = Own(p)
  BY <1>1, <1>3, StackKept DEF Going, Settled, Own
<1>7. OuterTemps(p)' = OuterTemps(p) /\ Grant(p)' = Grant(p) /\ Grant(p) = 0
  BY <1>1, OuterKept, NoGrant DEF MakingTemp
<1>8. BoardsOf(Own(p))' = BoardsOf(Own(p))
  BY <1>1, <1>6 DEF BoardsOf
<1>9. StoreFits(p)'
  BY <1>1, <1>6, StoreFitsKept
<1>10. CASE Depth(p) # 1
  <2>1. ledger' = ledger
    BY <1>10 DEF ReclaimTemp
  <2>2. h \notin OuterTemps(p)
    <3>1. 1 \in 1..Depth(p) /\ Depth(p) \in 1..Depth(p)
      BY <1>2
    <3>2. Range(stack[p][1].temps) \cap Range(stack[p][Depth(p)].temps) = {}
      BY <1>10, <3>1 DEF PlayerOK, CallsOK
    <3> QED BY <1>2, <1>4, <3>2 DEF OuterTemps, Top
  <2> QED BY <1>1, <1>5, <1>6, <1>7, <1>8, <1>9, <2>1, <2>2, BooksBut
<1>11. CASE Depth(p) = 1
  <2>1. OuterTemps(p) = Range(Top(p).temps)
    BY <1>2, <1>11 DEF OuterTemps, Top
  <2>2. PICK d \in Drives : d = disk[h].drive
    BY <1>5, PlayerFacts
  <2>3. Bytes(h) \in Nat
    BY <1>5, PlayerFacts DEF Bytes
  <2>4. DriveReclaim(d, Bytes(h))
    BY <1>3, <1>11, <2>2 DEF ReclaimTemp
  <2>5. /\ ledger' \in [Drives -> Int]
        /\ \A e \in Drives : ledger'[e] = ledger[e] + (IF e = d THEN Bytes(h) ELSE 0)
    BY <2>3, <2>4, ReclaimFacts
  <2>6. ReservedOK(p)'
    BY <1>1, <1>6, <1>8, <1>9, ReservedKept
  <2>7. StoreCharge(p)' = StoreCharge(p) /\ NetStore(p)' = NetStore(p)
    BY <1>1, <1>6, UnsettledKept
  <2>8. ASSUME NEW e \in Drives
        PROVE  /\ BytesOf(Booked(p, e))' + (IF e = d THEN Bytes(h) ELSE 0) = BytesOf(Booked(p, e))
               /\ BytesOf(Booked(p, e))' \in Nat
               /\ NetOf(Booked(p, e))' <= NetOf(Booked(p, e)) /\ NetOf(Booked(p, e))' \in Nat
    <3>1. \A n : n \in Booked(p, e)' <=> n \in Booked(p, e) /\ n # h
      BY <1>1, <1>6, <1>7 DEF Booked
    <3>2. h \in Booked(p, e) <=> e = d
      BY <1>4, <1>5, <1>6, <2>1, <2>2 DEF Booked
    <3>3. CASE e = d
      <4>1. Booked(p, e)' = Booked(p, e) \ {h} /\ h \in Booked(p, e)
        BY <3>1, <3>2, <3>3
      <4>2. \A n \in Booked(p, e) \ {h} : disk'[n] = disk[n]
        BY <1>1
      <4>3. /\ BytesOf(Booked(p, e))' + Bytes(h) = BytesOf(Booked(p, e))
            /\ BytesOf(Booked(p, e))' \in Nat
            /\ NetOf(Booked(p, e))' + Nets[h].bytes = NetOf(Booked(p, e))
            /\ NetOf(Booked(p, e))' \in Nat /\ Nets[h].bytes \in Nat
        BY <4>1, <4>2, BookedLoses
      <4> QED BY <3>3, <4>3
    <3>4. CASE e # d
      <4>1. Booked(p, e)' = Booked(p, e)
        BY <3>1, <3>2, <3>4
      <4>2. /\ BytesOf(Booked(p, e))' = BytesOf(Booked(p, e)) /\ BytesOf(Booked(p, e)) \in Nat
            /\ NetOf(Booked(p, e))' = NetOf(Booked(p, e)) /\ NetOf(Booked(p, e)) \in Nat
        BY <1>1, <4>1, BookedSame
      <4> QED BY <3>4, <4>2
    <3> QED BY <3>3, <3>4
  <2>9. ASSUME NEW e \in Drives
        PROVE  ledger'[e] + Charge(p, e)' = ledger[e] + Charge(p, e)
    <3>1. /\ StoreCharge(p) \in Nat /\ BytesOf(Booked(p, e)) \in Nat /\ ledger[e] \in Int
      BY ChargeTypes DEF TypeOK
    <3>2. Charge(p, e)' = BytesOf(Booked(p, e))' + (IF e = StoreDrive THEN StoreCharge(p) ELSE 0)
      BY <1>1, <1>7, <2>7, <2>8, <3>1 DEF Charge
    <3>3. Charge(p, e) = BytesOf(Booked(p, e)) + (IF e = StoreDrive THEN StoreCharge(p) ELSE 0)
      BY <1>7, <3>1 DEF Charge
    <3> QED BY <2>3, <2>5, <2>8, <3>1, <3>2, <3>3
  <2>10. ASSUME NEW e \in Drives PROVE Net(p, e)' <= Net(p, e)
    <3>1. NetStore(p) \in Nat /\ NetOf(Booked(p, e)) \in Nat
      BY ChargeTypes
    <3>2. Net(p, e)' = NetOf(Booked(p, e))' + (IF e = StoreDrive THEN NetStore(p) ELSE 0)
      BY <1>1, <1>7, <2>7, <2>8, <3>1 DEF Net
    <3>3. Net(p, e) = NetOf(Booked(p, e)) + (IF e = StoreDrive THEN NetStore(p) ELSE 0)
      BY <1>7, <3>1 DEF Net
    <3> QED BY <2>8, <3>1, <3>2, <3>3
  <2> QED BY <2>5, <2>6, <2>9, <2>10 DEF BooksKept
<1> QED BY <1>10, <1>11

(* The temporary is deleted: it was taken off the account before.          *)
LEMMA BooksDeleteTemp ==
  ASSUME NEW p \in Players, TypeOK, Lists, PlayerOK(p), PlayerOK(p)', ReservedOK(p), DeleteTemp(p)
  PROVE  BooksKept(p)
<1>1. /\ pc[p] = "deleteTemp" /\ pc'[p] = "unwind" /\ compress' = compress
      /\ inputs' = inputs /\ reserved' = reserved /\ early' = early /\ probe' = probe
      /\ ledger' = ledger /\ Top(p).temps # <<>>
  BY GoesTo DEF DeleteTemp, planVars, ledgerVars, PlayerOK, PlaceOK
<1>2. /\ stack[p] # <<>> /\ Depth(p) \in Nat /\ Depth(p) >= 1 /\ Top(p).temps \in Seq(Names)
      /\ Top(p) \in Calls /\ Once(Top(p).temps)
  BY <1>1, CallHolds DEF Within
<1>3. PICK h : h = Head(Top(p).temps)
  OBVIOUS
<1>4. /\ h \in Range(Top(p).temps) /\ h \in TempsOf(p) /\ Tail(Top(p).temps) \in Seq(Names)
      /\ Range(Tail(Top(p).temps)) = Range(Top(p).temps) \ {h}
  BY <1>1, <1>2, <1>3, TailFacts, TempsSplit
<1>5. h \in Own(p) /\ h.kind = "temp"
  BY <1>4 DEF PlayerOK, CallsOK
<1>6. disk' = Restrict(disk, DOMAIN disk \ {h})
  BY <1>3 DEF DeleteTemp
<1>7. \A n : n # h => (n \in Own(p)' <=> n \in Own(p)) /\ (n \in Own(p) => disk'[n] = disk[n])
  BY <1>6 DEF Own, Restrict
<1>8. Own(p)' \subseteq Own(p) /\ BoardsOf(Own(p))' \subseteq BoardsOf(Own(p))
  <2>1. h \notin Own(p)'
    BY <1>6 DEF Own, Restrict
  <2> QED BY <1>7, <2>1 DEF BoardsOf
<1>9. PICK c \in Calls : SetTop(p, c) /\ c.granted = Top(p).granted /\ c.temps = Tail(Top(p).temps)
  <2>1. PICK c : c = [Top(p) EXCEPT !.temps = Tail(@)]
    OBVIOUS
  <2>2. c \in Calls /\ c.granted = Top(p).granted /\ c.temps = Tail(Top(p).temps)
    BY <1>2, <1>4, <2>1 DEF Calls
  <2>3. SetTop(p, c)
    BY <2>1 DEF DeleteTemp
  <2> QED BY <2>2, <2>3
<1>10. /\ stack'[p] # <<>> /\ stack'[p][Depth(p)] = c
       /\ \A k \in 1..Depth(p) : k # Depth(p) => stack'[p][k] = stack[p][k]
  BY <1>2, <1>9, SetTopFacts
<1>11. Grant(p)' = Grant(p) /\ \A n : n # h => (n \in OuterTemps(p)' <=> n \in OuterTemps(p))
       /\ (h \in OuterTemps(p)' => FALSE)
  <2>1. CASE Depth(p) = 1
    <3>1. /\ OuterTemps(p) = Range(Top(p).temps) /\ Grant(p) = Top(p).granted
          /\ OuterTemps(p)' = Range(Tail(Top(p).temps)) /\ Grant(p)' = Top(p).granted
      BY <1>2, <1>9, <1>10, <2>1 DEF OuterTemps, Grant, Top
    <3> QED BY <1>4, <3>1
  <2>2. CASE Depth(p) # 1
    <3>1. 1 \in 1..Depth(p) /\ Depth(p) \in 1..Depth(p)
      BY <1>2
    <3>2. Range(stack[p][1].temps) \cap Range(stack[p][Depth(p)].temps) = {}
      BY <2>2, <3>1 DEF PlayerOK, CallsOK
    <3>3. stack'[p][1] = stack[p][1]
      BY <1>10, <2>2, <3>1
    <3>4. Grant(p)' = Grant(p) /\ OuterTemps(p)' = OuterTemps(p)
      BY <1>2, <1>10, <3>3 DEF OuterTemps, Grant
    <3>5. h \notin OuterTemps(p)
      BY <1>2, <1>4, <3>2 DEF OuterTemps, Top
    <3> QED BY <3>4, <3>5
  <2> QED BY <2>1, <2>2
<1>12. Going(p) = {h} /\ Going(p)' = {} /\ ~Settled(p) /\ ~Settled(p)'
  BY <1>1, <1>3 DEF Going, Settled
<1>13. StoreFits(p)'
  <2>1. \A n \in Own(p)' : n \in Own(p) /\ disk'[n] = disk[n]
    <3>1. h \notin Own(p)'
      BY <1>6 DEF Own, Restrict
    <3> QED BY <1>7, <3>1
  <2> QED BY <1>1, <1>12, <2>1 DEF StoreFits, ReservedOK, Bytes
<1> QED BY <1>1, <1>5, <1>7, <1>8, <1>11, <1>12, <1>13, BooksBut

----------------------------------------------------------------------------
(* Bookings of mergePlayer. *)

(* Without a call only inputs are booked.                                  *)
LEMMA NoCallBooked ==
  ASSUME NEW p \in Players, stack[p] = <<>>
  PROVE  /\ OuterTemps(p) = {} /\ Grant(p) = 0
         /\ \A d \in Drives : \A n : n \in Booked(p, d) <=>
              /\ n \in Own(p) /\ disk[n].drive = d /\ n \notin Going(p) /\ n.kind = "input"
              /\ ~(early[p] /\ d = StoreDrive)
         /\ \A d \in Drives : Charge(p, d) = BytesOf(Booked(p, d))
                                + (IF d = StoreDrive THEN StoreCharge(p) ELSE 0)
                                + (IF d = TempDrives[probe[p].at] THEN 0 ELSE 0)
         /\ \A d \in Drives : Net(p, d) = NetOf(Booked(p, d))
                                + (IF d = StoreDrive THEN NetStore(p) ELSE 0)
                                + (IF d = TempDrives[probe[p].at] THEN 0 ELSE 0)
BY DEF OuterTemps, Grant, Booked, Charge, Net

(* The same afterwards.                                                    *)
LEMMA NoCallBookedNext ==
  ASSUME NEW p \in Players, stack'[p] = <<>>
  PROVE  /\ \A d \in Drives : \A n : n \in Booked(p, d)' <=>
              /\ n \in Own(p)' /\ disk'[n].drive = d /\ n \notin Going(p)' /\ n.kind = "input"
              /\ ~(early'[p] /\ d = StoreDrive)
         /\ \A d \in Drives : Charge(p, d)' = BytesOf(Booked(p, d))'
                                + (IF d = StoreDrive THEN StoreCharge(p)' ELSE 0)
                                + (IF d = TempDrives[probe'[p].at] THEN 0 ELSE 0)
         /\ \A d \in Drives : Net(p, d)' = NetOf(Booked(p, d))'
                                + (IF d = StoreDrive THEN NetStore(p)' ELSE 0)
                                + (IF d = TempDrives[probe'[p].at] THEN 0 ELSE 0)
BY DEF OuterTemps, Grant, Booked, Charge, Net

(* Once the output is settled its bytes stay on the account.               *)
LEMMA SettledKept ==
  ASSUME NEW p \in Players, TypeOK, Lists, PlayerOK(p), ReservedOK(p), Settled(p), Settled(p)',
         reserved'[p] = reserved[p], early'[p] = early[p], compress' = compress,
         \A n \in Own(p)' : n \in Own(p) /\ disk'[n] = disk[n],
         Store(p) \in Own(p)' <=> Store(p) \in Own(p)
  PROVE  ReservedOK(p)' /\ StoreCharge(p)' = StoreCharge(p) /\ NetStore(p)' = NetStore(p)
<1>1. /\ Store(p) \in DOMAIN disk' <=> Store(p) \in DOMAIN disk
      /\ Store(p) \in DOMAIN disk => disk'[Store(p)] = disk[Store(p)]
  BY NameFacts DEF Own
<1>2. ReservedOK(p)'
  BY DEF ReservedOK
<1> QED BY <1>1, <1>2 DEF StoreCharge, NetStore, Counted, Uncounted, Bytes

(* A step after that which books nothing.                                  *)
LEMMA SettledBooks ==
  ASSUME NEW p \in Players, TypeOK, Lists, PlayerOK(p), ReservedOK(p), Settled(p), Settled(p)',
         reserved'[p] = reserved[p], early'[p] = early[p], compress' = compress, ledger' = ledger,
         stack[p] = <<>>, stack'[p] = <<>>,
         \A n \in Own(p)' : n \in Own(p) /\ disk'[n] = disk[n],
         Store(p) \in Own(p)' <=> Store(p) \in Own(p),
         \A n : n \in Own(p)' /\ n.kind = "input" /\ n \notin Going(p)' <=>
                n \in Own(p) /\ n.kind = "input" /\ n \notin Going(p)
  PROVE  BooksKept(p)
<1>1. ReservedOK(p)' /\ StoreCharge(p)' = StoreCharge(p) /\ NetStore(p)' = NetStore(p)
  BY SettledKept
<1>2. ASSUME NEW d \in Drives PROVE Charge(p, d)' = Charge(p, d) /\ Net(p, d)' = Net(p, d)
  <2>1. ASSUME NEW n PROVE n \in Booked(p, d)' <=> n \in Booked(p, d)
    BY NoCallBooked, NoCallBookedNext
  <2>2. Booked(p, d)' = Booked(p, d) /\ \A n \in Booked(p, d) : n \in Own(p)'
    <3>1. Booked(p, d)' = Booked(p, d)
      BY <2>1
    <3>2. Booked(p, d)' \subseteq Own(p)'
      BY DEF Booked
    <3> QED BY <3>1, <3>2
  <2>3. /\ BytesOf(Booked(p, d))' = BytesOf(Booked(p, d)) /\ BytesOf(Booked(p, d)) \in Nat
        /\ NetOf(Booked(p, d))' = NetOf(Booked(p, d)) /\ NetOf(Booked(p, d)) \in Nat
    BY <2>2, BookedSame
  <2>4. StoreCharge(p) \in Nat /\ NetStore(p) \in Nat
    BY ChargeTypes
  <2>5. Charge(p, d)' = Charge(p, d)
    BY <1>1, <2>3, <2>4, NoCallBooked, NoCallBookedNext
  <2>6. Net(p, d)' = Net(p, d)
    BY <1>1, <2>3, <2>4, NoCallBooked, NoCallBookedNext
  <2> QED BY <2>5, <2>6
<1>3. ledger' \in [Drives -> Int] /\ \A d \in Drives : ledger[d] \in Int
  BY DEF TypeOK
<1>4. \A d \in Drives : Net(p, d) <= Net(p, d)
  BY ChargeTypes
<1> QED BY <1>1, <1>2, <1>3, <1>4 DEF BooksKept

(* A player without inputs ends at once and with nothing to settle.        *)
LEMMA BooksNoFiles ==
  ASSUME NEW p \in Players, TypeOK, Lists, PlayerOK(p), ReservedOK(p), NoFiles(p)
  PROVE  BooksKept(p)
<1>1. /\ pc[p] = "begin" /\ pc'[p] = "done" /\ inputs[p] = <<>> /\ stack' = stack /\ disk' = disk
      /\ compress' = compress /\ ledger' = ledger /\ reserved' = reserved /\ early' = early
      /\ stack[p] = <<>>
  BY GoesTo DEF NoFiles, planVars, ledgerVars, PlayerOK, PlaceOK, Alone
<1>2. Store(p) \notin DOMAIN disk /\ reserved[p] = 0
  <2>1. Store(p) \notin Own(p)
    BY <1>1 DEF PlayerOK, PlaceOK, Output
  <2> QED BY <1>1, <2>1, StoreIsOwn DEF ReservedOK
<1>3. Settled(p)' /\ ~Settled(p) /\ Going(p)' = {} /\ Going(p) = {} /\ Own(p)' = Own(p)
  BY <1>1 DEF Settled, Going, Own
<1>4. /\ ReservedOK(p)' /\ StoreCharge(p)' = 0 /\ StoreCharge(p) = 0
      /\ NetStore(p)' = 0 /\ NetStore(p) = 0
  BY <1>1, <1>2, <1>3 DEF ReservedOK, StoreCharge, NetStore
<1>5. ASSUME NEW d \in Drives PROVE Charge(p, d)' = Charge(p, d) /\ Net(p, d)' = Net(p, d)
  <2>1. ASSUME NEW n PROVE n \in Booked(p, d)' <=> n \in Booked(p, d)
    BY <1>1, <1>3, NoCallBooked, NoCallBookedNext
  <2>2. Booked(p, d)' = Booked(p, d)
    BY <2>1
  <2>3. /\ BytesOf(Booked(p, d))' = BytesOf(Booked(p, d)) /\ BytesOf(Booked(p, d)) \in Nat
        /\ NetOf(Booked(p, d))' = NetOf(Booked(p, d)) /\ NetOf(Booked(p, d)) \in Nat
    BY <1>1, <2>2, BookedSame
  <2>4. Charge(p, d)' = Charge(p, d)
    BY <1>1, <1>4, <2>3, NoCallBooked, NoCallBookedNext
  <2>5. Net(p, d)' = Net(p, d)
    BY <1>1, <1>4, <2>3, NoCallBooked, NoCallBookedNext
  <2> QED BY <2>4, <2>5
<1>6. ledger' \in [Drives -> Int] /\ \A d \in Drives : ledger[d] \in Int
  BY <1>1 DEF TypeOK
<1>7. \A d \in Drives : Net(p, d) <= Net(p, d)
  BY ChargeTypes
<1> QED BY <1>1, <1>4, <1>5, <1>6, <1>7 DEF BooksKept

(* Nothing is booked when the last input is gone.                          *)
LEMMA BooksFinishPlayer ==
  ASSUME NEW p \in Players, TypeOK, Lists, PlayerOK(p), ReservedOK(p), FinishPlayer(p)
  PROVE  BooksKept(p)
<1>1. /\ pc[p] = "inputs" /\ pc'[p] = "done" /\ stack' = stack /\ disk' = disk
      /\ compress' = compress /\ ledger' = ledger /\ reserved' = reserved /\ early' = early
      /\ stack[p] = <<>>
  BY GoesTo DEF FinishPlayer, planVars, ledgerVars, PlayerOK, PlaceOK, Alone
<1>2. Settled(p)' /\ Settled(p) /\ Going(p)' = {} /\ Going(p) = {} /\ Own(p)' = Own(p)
  BY <1>1 DEF Settled, Going, Own
<1> QED BY <1>1, <1>2, SettledBooks

(* The input is deleted: it was taken off the account before.              *)
LEMMA BooksDeleteInput ==
  ASSUME NEW p \in Players, TypeOK, Lists, PlayerOK(p), ReservedOK(p), DeleteInput(p)
  PROVE  BooksKept(p)
<1>1. /\ pc[p] = "deleteInput" /\ pc'[p] = "inputs" /\ stack' = stack
      /\ compress' = compress /\ ledger' = ledger /\ reserved' = reserved /\ early' = early
      /\ stack[p] = <<>> /\ inputs[p] # <<>> /\ inputs[p] \in Seq(Names)
  BY GoesTo DEF DeleteInput, ledgerVars, PlayerOK, PlaceOK, Alone, Lists
<1>2. PICK h : h = Head(inputs[p])
  OBVIOUS
<1>3. disk' = Restrict(disk, DOMAIN disk \ {h})
  BY <1>2 DEF DeleteInput
<1>4. h \in Own(p) /\ h.kind = "input"
  BY <1>1, <1>2, TailFacts DEF PlayerOK, InputsOK
<1>5. /\ \A n : n \in Own(p)' <=> n \in Own(p) /\ n # h
      /\ \A n \in Own(p)' : disk'[n] = disk[n]
  BY <1>3 DEF Own, Restrict
<1>6. Settled(p)' /\ Settled(p) /\ Going(p)' = {} /\ Going(p) = {h}
  BY <1>1, <1>2 DEF Settled, Going
<1>7. Store(p) # h
  BY <1>4, NameFacts
<1> QED BY <1>1, <1>5, <1>6, <1>7, SettledBooks

(* An input is given back before it is deleted, unless it was before the   *)
(* threads began.                                                          *)
LEMMA BooksReclaimInput ==
  ASSUME NEW p \in Players, TypeOK, Lists, PlayerOK(p), ReservedOK(p), ReclaimInput(p)
  PROVE  BooksKept(p)
<1>1. /\ pc[p] = "inputs" /\ pc'[p] = "deleteInput" /\ stack' = stack /\ disk' = disk
      /\ compress' = compress /\ reserved' = reserved /\ early' = early /\ inputs' = inputs
      /\ stack[p] = <<>> /\ inputs[p] # <<>> /\ inputs[p] \in Seq(Names)
  BY GoesTo DEF ReclaimInput, planVars, PlayerOK, PlaceOK, Alone, Lists
<1>2. PICK h : h = Head(inputs[p])
  OBVIOUS
<1>3. h \in Own(p) /\ h.kind = "input"
  BY <1>1, <1>2, TailFacts DEF PlayerOK, InputsOK
<1>4. Settled(p)' /\ Settled(p) /\ Going(p)' = {h} /\ Going(p) = {} /\ Own(p)' = Own(p)
  BY <1>1, <1>2 DEF Settled, Going, Own
<1>5. ReservedOK(p)' /\ StoreCharge(p)' = StoreCharge(p) /\ NetStore(p)' = NetStore(p)
  BY <1>1, <1>4, SettledKept
<1>6. PICK d \in Drives : d = disk[h].drive
  BY <1>3, PlayerFacts
<1>7. Bytes(h) \in Nat
  BY <1>3, PlayerFacts DEF Bytes
<1>8. PICK b \in Nat : b = IF early[p] /\ d = StoreDrive THEN 0 ELSE Bytes(h)
  BY <1>7
<1>9. /\ ledger' \in [Drives -> Int]
      /\ \A e \in Drives : ledger'[e] = ledger[e] + (IF e = d THEN b ELSE 0)
  <2>1. CASE early[p] /\ d = StoreDrive
    <3>1. ledger' = ledger
      BY <1>2, <1>6, <2>1 DEF ReclaimInput
    <3> QED BY <1>8, <2>1, <3>1 DEF TypeOK
  <2>2. CASE ~(early[p] /\ d = StoreDrive)
    <3>1. DriveReclaim(d, b)
      BY <1>2, <1>6, <1>8, <2>2 DEF ReclaimInput
    <3> QED BY <3>1, ReclaimFacts
  <2> QED BY <2>1, <2>2
<1>10. ASSUME NEW e \in Drives
       PROVE  /\ BytesOf(Booked(p, e))' + (IF e = d THEN b ELSE 0) = BytesOf(Booked(p, e))
              /\ BytesOf(Booked(p, e))' \in Nat
              /\ NetOf(Booked(p, e))' <= NetOf(Booked(p, e)) /\ NetOf(Booked(p, e))' \in Nat
  <2>1. \A n : n \in Booked(p, e)' <=> n \in Booked(p, e) /\ n # h
    BY <1>1, <1>4, NoCallBooked, NoCallBookedNext
  <2>2. h \in Booked(p, e) <=> e = d /\ ~(early[p] /\ d = StoreDrive)
    BY <1>1, <1>3, <1>4, <1>6, NoCallBooked
  <2>3. CASE h \in Booked(p, e)
    <3>1. Booked(p, e)' = Booked(p, e) \ {h}
      BY <2>1
    <3>2. \A n \in Booked(p, e) \ {h} : disk'[n] = disk[n]
      BY <1>1
    <3>3. /\ BytesOf(Booked(p, e))' + Bytes(h) = BytesOf(Booked(p, e))
          /\ BytesOf(Booked(p, e))' \in Nat
          /\ NetOf(Booked(p, e))' + Nets[h].bytes = NetOf(Booked(p, e))
          /\ NetOf(Booked(p, e))' \in Nat /\ Nets[h].bytes \in Nat
      BY <2>3, <3>1, <3>2, BookedLoses
    <3>4. (IF e = d THEN b ELSE 0) = Bytes(h)
      BY <1>8, <2>2, <2>3
    <3>5. NetOf(Booked(p, e))' <= NetOf(Booked(p, e))
      BY <3>3
    <3> QED BY <3>3, <3>4, <3>5
  <2>4. CASE h \notin Booked(p, e)
    <3>1. Booked(p, e)' = Booked(p, e)
      BY <2>1, <2>4
    <3>2. /\ BytesOf(Booked(p, e))' = BytesOf(Booked(p, e)) /\ BytesOf(Booked(p, e)) \in Nat
          /\ NetOf(Booked(p, e))' = NetOf(Booked(p, e)) /\ NetOf(Booked(p, e)) \in Nat
      BY <1>1, <3>1, BookedSame
    <3>3. (IF e = d THEN b ELSE 0) = 0
      BY <1>8, <2>2, <2>4
    <3> QED BY <3>2, <3>3
  <2> QED BY <2>3, <2>4
<1>11. ASSUME NEW e \in Drives PROVE ledger'[e] + Charge(p, e)' = ledger[e] + Charge(p, e)
  <2>1. StoreCharge(p) \in Nat /\ BytesOf(Booked(p, e)) \in Nat /\ ledger[e] \in Int
    BY ChargeTypes DEF TypeOK
  <2>2. Charge(p, e)' = BytesOf(Booked(p, e))' + (IF e = StoreDrive THEN StoreCharge(p) ELSE 0)
    BY <1>1, <1>5, <1>10, <2>1, NoCallBookedNext
  <2>3. Charge(p, e) = BytesOf(Booked(p, e)) + (IF e = StoreDrive THEN StoreCharge(p) ELSE 0)
    BY <1>1, <2>1, NoCallBooked
  <2> QED BY <1>8, <1>9, <1>10, <2>1, <2>2, <2>3
<1>12. ASSUME NEW e \in Drives PROVE Net(p, e)' <= Net(p, e)
  <2>1. NetStore(p) \in Nat /\ NetOf(Booked(p, e)) \in Nat
    BY ChargeTypes
  <2>2. Net(p, e)' = NetOf(Booked(p, e))' + (IF e = StoreDrive THEN NetStore(p) ELSE 0)
    BY <1>1, <1>5, <1>10, <2>1, NoCallBookedNext
  <2>3. Net(p, e) = NetOf(Booked(p, e)) + (IF e = StoreDrive THEN NetStore(p) ELSE 0)
    BY <1>1, <2>1, NoCallBooked
  <2> QED BY <1>10, <2>1, <2>2, <2>3
<1> QED BY <1>5, <1>9, <1>11, <1>12 DEF BooksKept

(* Without compression the reservation covers an input that is renamed.    *)
LEMMA InputFits ==
  ASSUME NEW p \in Players, TypeOK, Lists, PlayerOK(p), ReservedOK(p), ~Settled(p), compress = "none",
         inputs[p] # <<>>, NEW x \in Own(p), x.kind = "input"
  PROVE  Bytes(x) <= reserved[p] /\ Bytes(x) \in Nat
<1>1. Bytes(x) = PlainBytes(disk[x].boards) /\ Bytes(x) \in Nat /\ IsFiniteSet(disk[x].boards)
  BY PlayerFacts DEF PlayerOK, FilesOK, FileOK, Bytes
<1>2. /\ Cardinality(BoardsOf({x})) <= Cardinality(BoardsOf(Own(p)))
      /\ Cardinality(BoardsOf({x})) \in Nat /\ Cardinality(BoardsOf(Own(p))) \in Nat
  BY OwnBoards
<1>3. BoardsOf({x}) = disk[x].boards
  BY DEF BoardsOf
<1>4. Cardinality(BoardsOf(Own(p))) + Trailer <= reserved[p]
  BY DEF ReservedOK
<1> QED BY <1>1, <1>2, <1>3, <1>4, Consts, ChargeTypes DEF PlainBytes

(* What the output did not need of the reservation goes back; an           *)
(* uncompressed output without boards gives its trailer back too.          *)
LEMMA BooksSettle ==
  ASSUME NEW p \in Players, TypeOK, Lists, PlayerOK(p), ReservedOK(p), Settle(p)
  PROVE  BooksKept(p)
<1>1. /\ pc[p] = "settle" /\ pc'[p] = "inputs" /\ stack' = stack /\ disk' = disk
      /\ compress' = compress /\ early' = early /\ inputs' = inputs
      /\ stack[p] = <<>> /\ inputs[p] # <<>> /\ reserved'[p] = 0
  <2>1. pc[p] = "settle" /\ reserved'[p] = 0 /\ stack[p] = <<>> /\ Len(inputs[p]) >= 2
    BY DEF Settle, PlayerOK, PlaceOK, Alone, TypeOK
  <2>2. inputs[p] # <<>>
    BY <2>1, RangeFacts DEF Lists
  <2> QED BY <2>1, <2>2, GoesTo DEF Settle
<1>2. Store(p) \in Own(p) /\ Store(p) \in DOMAIN disk
  BY <1>1, StoreIsOwn DEF PlayerOK, PlaceOK, Output
<1>3. Settled(p)' /\ ~Settled(p) /\ Going(p)' = {} /\ Going(p) = {} /\ Own(p)' = Own(p)
  BY <1>1 DEF Settled, Going, Own
<1>4. /\ Counted(p) \in Nat /\ reserved[p] \in Nat
      /\ Bytes(Store(p)) <= reserved[p] + disk[Store(p)].over
      /\ Bytes(Store(p)) \in Nat /\ disk[Store(p)].over \in Nat
  BY <1>2, <1>3, ChargeTypes DEF ReservedOK
<1>5. Counted(p)' = Counted(p) /\ Bytes(Store(p))' = Bytes(Store(p))
  BY <1>1 DEF Counted, Uncounted, Bytes
<1>6. PICK b \in Int : b = reserved[p] - Counted(p)
  BY <1>4
<1>7. /\ ledger' \in [Drives -> Int]
      /\ \A e \in Drives : ledger'[e] = ledger[e] + (IF e = StoreDrive THEN b ELSE 0)
  BY <1>6, Consts, ReclaimFacts DEF Settle
<1>8. ReservedOK(p)'
  BY <1>1, <1>3 DEF ReservedOK
<1>9. /\ StoreCharge(p)' = Counted(p) /\ StoreCharge(p) = reserved[p]
      /\ NetStore(p)' <= reserved[p] /\ NetStore(p)' \in Int /\ NetStore(p) = reserved[p]
  <2>1. StoreCharge(p)' = Counted(p) /\ StoreCharge(p) = reserved[p]
    BY <1>1, <1>2, <1>3, <1>4, <1>5 DEF StoreCharge
  <2>2. NetStore(p) = reserved[p]
    BY <1>3, <1>4 DEF NetStore
  <2>3. NetStore(p)' = 0 \/ NetStore(p)' = Bytes(Store(p)) - disk[Store(p)].over
    BY <1>1, <1>4, <1>5 DEF NetStore
  <2>4. NetStore(p)' <= reserved[p] /\ NetStore(p)' \in Int
    BY <1>4, <2>3
  <2> QED BY <2>1, <2>2, <2>4
<1>10. ASSUME NEW e \in Drives PROVE ledger'[e] + Charge(p, e)' = ledger[e] + Charge(p, e)
  <2>1. \A n : n \in Booked(p, e)' <=> n \in Booked(p, e)
    BY <1>1, <1>3, NoCallBooked, NoCallBookedNext
  <2>2. Booked(p, e)' = Booked(p, e)
    BY <2>1
  <2>3. BytesOf(Booked(p, e))' = BytesOf(Booked(p, e)) /\ BytesOf(Booked(p, e)) \in Nat /\ ledger[e] \in Int
    BY <1>1, <2>2, BookedSame DEF TypeOK
  <2>4. Charge(p, e)' = BytesOf(Booked(p, e)) + (IF e = StoreDrive THEN Counted(p) ELSE 0)
    BY <1>1, <1>4, <1>9, <2>3, NoCallBookedNext
  <2>5. Charge(p, e) = BytesOf(Booked(p, e)) + (IF e = StoreDrive THEN reserved[p] ELSE 0)
    BY <1>1, <1>4, <1>9, <2>3, NoCallBooked
  <2> QED BY <1>4, <1>6, <1>7, <2>3, <2>4, <2>5
<1>11. ASSUME NEW e \in Drives PROVE Net(p, e)' <= Net(p, e)
  <2>1. \A n : n \in Booked(p, e)' <=> n \in Booked(p, e)
    BY <1>1, <1>3, NoCallBooked, NoCallBookedNext
  <2>2. Booked(p, e)' = Booked(p, e)
    BY <2>1
  <2>3. NetOf(Booked(p, e))' = NetOf(Booked(p, e)) /\ NetOf(Booked(p, e)) \in Nat
    BY <1>1, <2>2, BookedSame
  <2>4. Net(p, e)' = NetOf(Booked(p, e)) + (IF e = StoreDrive THEN NetStore(p)' ELSE 0)
    BY <1>1, <1>9, <2>3, NoCallBookedNext
  <2>5. Net(p, e) = NetOf(Booked(p, e)) + (IF e = StoreDrive THEN reserved[p] ELSE 0)
    BY <1>1, <1>4, <1>9, <2>3, NoCallBooked
  <2> QED BY <1>4, <1>9, <2>3, <2>4, <2>5
<1> QED BY <1>7, <1>8, <1>10, <1>11 DEF BooksKept

(* The only input became an output of size b: both reclaims in one step.   *)
LEMMA SingleBooks ==
  ASSUME NEW p \in Players, TypeOK, Lists, PlayerOK(p), ReservedOK(p), pc[p] \in {"begin", "single"},
         Len(inputs[p]) = 1, NEW only, only = inputs[p][1], NEW b \in Nat,
         NEW o \in Nat, b <= reserved[p] + o,
         ledger' = LET back == [ledger EXCEPT ![StoreDrive] = @ + reserved[p] - b]
                   IN  IF early[p] THEN back ELSE [back EXCEPT ![disk[only].drive] = @ + Bytes(only)],
         reserved'[p] = 0, early'[p] = early[p], pc'[p] = "done", stack'[p] = <<>>,
         \A n \in Own(p)' : n.kind # "input",
         Store(p) \in DOMAIN disk', Counted(p)' = b, Bytes(Store(p))' = b, disk'[Store(p)].over = o,
         compress' = "none" => \A n \in Own(p)' : disk'[n].over = 0
  PROVE  BooksKept(p)
<1>1. only \in Own(p) /\ only.kind = "input" /\ \A n \in Own(p) : n.kind = "input" <=> n = only
  BY OnlyInput DEF PlayerOK, InputsOK
<1>2. stack[p] = <<>> /\ Settled(p)' /\ ~Settled(p) /\ Going(p) = {} /\ reserved[p] \in Nat
  BY DEF PlayerOK, PlaceOK, Alone, Settled, Going, TypeOK
<1>3. PICK d \in Drives, r \in Nat : d = disk[only].drive /\ r = Bytes(only)
  BY <1>1, PlayerFacts DEF Bytes
<1>4. early[p] <=> d = StoreDrive
  BY <1>1, <1>2, <1>3 DEF ReservedOK
<1>5. ReservedOK(p)'
  BY <1>2 DEF ReservedOK
<1>6. /\ StoreCharge(p)' = b /\ StoreCharge(p) = reserved[p]
      /\ NetStore(p)' <= reserved[p] /\ NetStore(p)' \in Int /\ NetStore(p) = reserved[p]
  <2>1. StoreCharge(p)' = b /\ StoreCharge(p) = reserved[p]
    BY <1>2 DEF StoreCharge
  <2>2. NetStore(p) = reserved[p]
    BY <1>2 DEF NetStore
  <2>3. NetStore(p)' = 0 \/ NetStore(p)' = b - o
    BY DEF NetStore
  <2>4. NetStore(p)' <= reserved[p] /\ NetStore(p)' \in Int
    BY <1>2, <2>3
  <2> QED BY <2>1, <2>2, <2>4
<1>7. PICK back \in Int : back = reserved[p] - b
  BY <1>2
<1>8. /\ ledger' \in [Drives -> Int]
      /\ \A e \in Drives : ledger'[e] = ledger[e] + (IF e = StoreDrive THEN back ELSE 0)
                                          + (IF e = d /\ ~early[p] THEN r ELSE 0)
  <2>1. PICK L : L = [ledger EXCEPT ![StoreDrive] = @ + reserved[p] - b]
    OBVIOUS
  <2>2. /\ L \in [Drives -> Int]
        /\ \A e \in Drives : L[e] = ledger[e] + (IF e = StoreDrive THEN back ELSE 0)
    <3>1. ledger \in [Drives -> Int] /\ StoreDrive \in Drives
      BY Consts DEF TypeOK
    <3>2. ledger[StoreDrive] + reserved[p] - b = ledger[StoreDrive] + back
          /\ ledger[StoreDrive] + back \in Int
      BY <1>2, <1>7, <3>1
    <3> QED BY <2>1, <3>1, <3>2
  <2>3. CASE early[p]
    <3>1. ledger' = L
      BY <2>1, <2>3
    <3>2. \A e \in Drives : ledger'[e] = ledger[e] + (IF e = StoreDrive THEN back ELSE 0) + 0
      BY <1>7, <2>2, <3>1 DEF TypeOK
    <3> QED BY <2>2, <2>3, <3>1, <3>2
  <2>4. CASE ~early[p]
    <3>1. PICK M : M = [L EXCEPT ![d] = @ + r]
      OBVIOUS
    <3>2. ledger' = M
      BY <1>3, <2>1, <2>4, <3>1
    <3>3. L \in [Drives -> Int] /\ d \in Drives /\ r \in Nat
      BY <1>3, <2>2
    <3>4. M \in [Drives -> Int]
      BY <3>1, <3>3, ReclaimAdds
    <3>5. \A e \in Drives : M[e] = L[e] + (IF e = d THEN r ELSE 0)
      BY <3>1, <3>3, ReclaimAdds
    <3>6. \A e \in Drives : M[e] = ledger[e] + (IF e = StoreDrive THEN back ELSE 0)
                                             + (IF e = d /\ ~early[p] THEN r ELSE 0)
      BY <2>2, <2>4, <3>5
    <3> QED BY <3>2, <3>4, <3>6
  <2> QED BY <2>3, <2>4
<1>9. ASSUME NEW e \in Drives
      PROVE  /\ BytesOf(Booked(p, e))' = 0 /\ NetOf(Booked(p, e))' = 0
             /\ BytesOf(Booked(p, e)) = IF e = d /\ ~early[p] THEN r ELSE 0
  <2>1. Booked(p, e)' = {}
    BY NoCallBookedNext
  <2>2. BytesOf(Booked(p, e))' = 0 /\ NetOf(Booked(p, e))' = 0
    BY <2>1, FileSumEmpty DEF BytesOf, NetOf, Bytes, FileSum
  <2>3. \A n : n \in Booked(p, e) <=> n = only /\ e = d /\ ~early[p]
    BY <1>1, <1>2, <1>3, <1>4, NoCallBooked
  <2>4. CASE e = d /\ ~early[p]
    <3>1. Booked(p, e) = {} \cup {only}
      BY <2>3, <2>4
    <3>2. FileSum(disk, {} \cup {only}) = FileSum(disk, {}) + disk[only].bytes
      <4>1. IsFiniteSet({}) /\ only \notin {} /\ \A m \in {} \cup {only} : disk[m].bytes \in Nat
        BY <1>1, FS_EmptySet, PlayerFacts
      <4> QED BY <4>1, FileSumAdd
    <3> QED BY <1>3, <2>2, <2>4, <3>1, <3>2, FileSumEmpty, BytesOfIs DEF Bytes
  <2>5. CASE ~(e = d /\ ~early[p])
    <3>1. Booked(p, e) = {}
      BY <2>3, <2>5
    <3> QED BY <2>2, <2>5, <3>1, FileSumEmpty, BytesOfIs
  <2> QED BY <2>4, <2>5
<1>10. ASSUME NEW e \in Drives PROVE ledger'[e] + Charge(p, e)' = ledger[e] + Charge(p, e)
  <2>1. ledger[e] \in Int
    BY DEF TypeOK
  <2>2. Charge(p, e)' = IF e = StoreDrive THEN b ELSE 0
    BY <1>6, <1>9, NoCallBookedNext
  <2>3. Charge(p, e) = (IF e = d /\ ~early[p] THEN r ELSE 0) + (IF e = StoreDrive THEN reserved[p] ELSE 0)
    BY <1>2, <1>3, <1>6, <1>9, NoCallBooked
  <2>4. ledger'[e] = ledger[e] + (IF e = StoreDrive THEN back ELSE 0) + (IF e = d /\ ~early[p] THEN r ELSE 0)
    BY <1>8
  <2>5. /\ r \in Nat /\ reserved[p] \in Nat /\ b \in Nat /\ back \in Int /\ back = reserved[p] - b
    BY <1>2, <1>3, <1>7
  <2>6. CASE e = d /\ ~early[p]
    BY <2>1, <2>2, <2>3, <2>4, <2>5, <2>6
  <2>7. CASE ~(e = d /\ ~early[p])
    BY <2>1, <2>2, <2>3, <2>4, <2>5, <2>7
  <2> QED BY <2>6, <2>7
<1>11. ASSUME NEW e \in Drives PROVE Net(p, e)' <= Net(p, e)
  <2>1. NetOf(Booked(p, e)) \in Nat
    BY ChargeTypes
  <2>2. Net(p, e)' = IF e = StoreDrive THEN NetStore(p)' ELSE 0
    BY <1>6, <1>9, NoCallBookedNext
  <2>3. Net(p, e) = NetOf(Booked(p, e)) + (IF e = StoreDrive THEN reserved[p] ELSE 0)
    BY <1>2, <1>6, <2>1, NoCallBooked
  <2> QED BY <1>2, <1>6, <2>1, <2>2, <2>3
<1> QED BY <1>5, <1>8, <1>10, <1>11 DEF BooksKept

(* The only input was written again, compressed.                           *)
LEMMA BooksFinishSingle ==
  ASSUME NEW p \in Players, TypeOK, Lists, PlayerOK(p), ReservedOK(p), FinishSingle(p)
  PROVE  BooksKept(p)
<1>1. PICK only : only = inputs[p][1]
  OBVIOUS
<1>2. /\ pc[p] = "single" /\ pc'[p] = "done" /\ stack' = stack /\ compress' = compress
      /\ early' = early /\ stack[p] = <<>> /\ reserved'[p] = 0 /\ Len(inputs[p]) = 1 /\ compress # "none"
      /\ disk' = Restrict(disk, DOMAIN disk \ {only})
  BY <1>1, GoesTo DEF FinishSingle, PlayerOK, PlaceOK, Alone, TypeOK
<1>3. only \in Own(p) /\ only.kind = "input" /\ inputs[p] # <<>>
      /\ \A n \in Own(p) : n.kind = "input" => n = only
  BY <1>1, <1>2, OnlyInput DEF PlayerOK, InputsOK
<1>4. Store(p) \in Own(p) /\ Store(p) \in DOMAIN disk /\ Store(p) # only
  BY <1>2, <1>3, StoreIsOwn, NameFacts DEF PlayerOK, PlaceOK, Output
<1>5. PICK b \in Nat, o \in Nat : b = Bytes(Store(p)) /\ o = disk[Store(p)].over /\ b <= reserved[p] + o
  <2>1. ~Settled(p)
    BY <1>2 DEF Settled
  <2> QED BY <1>4, <2>1, ChargeTypes DEF ReservedOK
<1>6. disk'[Store(p)] = disk[Store(p)] /\ Store(p) \in DOMAIN disk'
  BY <1>2, <1>4 DEF Restrict
<1>7. Counted(p)' = b /\ Bytes(Store(p))' = b /\ disk'[Store(p)].over = o
  BY <1>2, <1>5, <1>6 DEF Counted, Uncounted, Bytes
<1>8. \A n \in Own(p)' : n.kind # "input"
  BY <1>2, <1>3 DEF Own, Restrict
<1>9. ledger' = LET back == [ledger EXCEPT ![StoreDrive] = @ + reserved[p] - b]
                IN  IF early[p] THEN back ELSE [back EXCEPT ![disk[only].drive] = @ + Bytes(only)]
  BY <1>1, <1>5 DEF FinishSingle
<1>10. /\ pc[p] \in {"begin", "single"} /\ Len(inputs[p]) = 1
       /\ reserved'[p] = 0 /\ early'[p] = early[p] /\ pc'[p] = "done" /\ stack'[p] = <<>>
  BY <1>2
<1>11. Store(p) \in DOMAIN disk' /\ (compress' = "none" => \A n \in Own(p)' : disk'[n].over = 0)
  BY <1>2, <1>6
<1> QED BY <1>1, <1>5, <1>7, <1>8, <1>9, <1>10, <1>11, SingleBooks

(* The only input was renamed.                                             *)
LEMMA BooksMoveSingle ==
  ASSUME NEW p \in Players, TypeOK, Lists, PlayerOK(p), ReservedOK(p), MoveSingle(p)
  PROVE  BooksKept(p)
<1>1. PICK only : only = inputs[p][1]
  OBVIOUS
<1>2. /\ pc[p] = "begin" /\ pc'[p] = "done" /\ stack' = stack /\ compress' = compress
      /\ early' = early /\ stack[p] = <<>> /\ reserved'[p] = 0 /\ Len(inputs[p]) = 1 /\ compress = "none"
      /\ disk' = [n \in (DOMAIN disk \ {only}) \cup {Store(p)} |->
                    IF n = Store(p) THEN [disk[only] EXCEPT !.drive = StoreDrive] ELSE disk[n]]
  BY <1>1, GoesTo DEF MoveSingle, PlayerOK, PlaceOK, Alone, TypeOK
<1>3. only \in Own(p) /\ only.kind = "input" /\ inputs[p] # <<>>
      /\ \A n \in Own(p) : n.kind = "input" => n = only
  BY <1>1, <1>2, OnlyInput DEF PlayerOK, InputsOK
<1>4. PICK b \in Nat, o \in Nat : b = Bytes(only) /\ o = 0 /\ b <= reserved[p] + o
  <2>1. ~Settled(p)
    BY <1>2 DEF Settled
  <2>2. Bytes(only) <= reserved[p] /\ Bytes(only) \in Nat /\ reserved[p] \in Nat
    BY <1>2, <1>3, <2>1, InputFits, ChargeTypes
  <2> QED BY <2>2
<1>5. /\ Store(p) \in DOMAIN disk' /\ disk'[Store(p)].bytes = b
      /\ disk'[Store(p)].boards = disk[only].boards /\ disk[only].boards # {}
      /\ disk'[Store(p)].over = o
  <2>1. disk[only] \in Files /\ disk[only].boards # {} /\ disk[only].over = 0
    BY <1>2, <1>3 DEF PlayerOK, FilesOK, FileOK, ReservedOK
  <2> QED BY <1>2, <1>4, <2>1 DEF Files, Bytes
<1>6. Counted(p)' = b /\ Bytes(Store(p))' = b
  BY <1>5 DEF Counted, Uncounted, Bytes
<1>7. \A n \in Own(p)' : n.kind # "input"
  BY <1>2, <1>3, NameFacts DEF Own
<1>8. ledger' = LET back == [ledger EXCEPT ![StoreDrive] = @ + reserved[p] - b]
                IN  IF early[p] THEN back ELSE [back EXCEPT ![disk[only].drive] = @ + Bytes(only)]
  BY <1>1, <1>4 DEF MoveSingle
<1>9. /\ pc[p] \in {"begin", "single"} /\ Len(inputs[p]) = 1
      /\ reserved'[p] = 0 /\ early'[p] = early[p] /\ pc'[p] = "done" /\ stack'[p] = <<>>
  BY <1>2
<1>10. Store(p) \in DOMAIN disk' /\ disk'[Store(p)].over = o
  BY <1>5
<1>11. \A n \in Own(p)' : disk'[n].over = 0
  BY <1>2, <1>4, <1>10 DEF Own, ReservedOK
<1> QED BY <1>1, <1>4, <1>6, <1>7, <1>8, <1>9, <1>10, <1>11, SingleBooks

(* Every step of a player keeps the books.                                 *)
LEMMA BooksStep ==
  ASSUME NEW p \in Players, TypeOK, Lists, PlayerOK(p), PlayerOK(p)', ReservedOK(p), PlayerNext(p)
  PROVE  BooksKept(p)
<1>1. CASE KWayMergeFiles(p)
  BY <1>1, BooksOpenInput, BooksCreateOutput, BooksWriteOutput DEF KWayMergeFiles
<1>2. CASE CascadingMerge(p)
  BY <1>2, BooksCalls, BooksClaim, BooksFinishTemp, BooksDescend, BooksReturn, BooksReclaimTemp,
     BooksDeleteTemp DEF CascadingMerge
<1>3. CASE mergePlayer(p)
  BY <1>3, BooksNoFiles, BooksMoveSingle, BooksCalls, BooksFinishSingle, BooksMergeSeveral,
     BooksSettle, BooksReclaimInput, BooksDeleteInput, BooksFinishPlayer DEF mergePlayer
<1> QED BY <1>1, <1>2, <1>3 DEF PlayerNext

----------------------------------------------------------------------------
(* The inductive invariant. *)

(* What the players' invariants say of all files.                          *)
LEMMA AllFiles ==
  ASSUME TypeOK, Lists, \A p \in Players : PlayerOK(p)
  PROVE  /\ DOMAIN disk = Own(White) \cup Own(Black) /\ Own(White) \cap Own(Black) = {}
         /\ IsFiniteSet(DOMAIN disk)
         /\ \A n \in DOMAIN disk : disk[n].bytes \in Nat
<1>1. DOMAIN disk = Own(White) \cup Own(Black) /\ Own(White) \cap Own(Black) = {}
  <2>1. \A n \in DOMAIN disk : n.player \in Players
    BY NameFacts DEF Lists
  <2> QED BY <2>1, TwoPlayers DEF Own
<1>2. IsFiniteSet(Own(White)) /\ IsFiniteSet(Own(Black))
  BY TwoPlayers, PlayerFacts
<1>3. IsFiniteSet(Own(White) \cup Own(Black))
  BY <1>2, FS_Union
<1>4. \A n \in DOMAIN disk : disk[n].bytes \in Nat
  BY DEF TypeOK
<1> QED BY <1>1, <1>3, <1>4

(* The fields, the ledger, the lists and the files make up the type.       *)
LEMMA TypesMade ==
  ASSUME Fields', Lists', ledger' \in [Drives -> Int], \A p \in Players : PlayerOK(p)'
  PROVE  TypeOK'
<1>1. ASSUME NEW n \in DOMAIN disk'
      PROVE  /\ disk'[n].drive \in Drives /\ disk'[n].closed \in BOOLEAN
             /\ disk'[n].bytes \in Nat /\ disk'[n].over \in Nat
  <2>1. n.player \in Players
    BY NameFacts DEF Lists
  <2>2. FileOK(n)'
    BY <2>1 DEF Own, PlayerOK, FilesOK
  <2> QED BY <2>2 DEF FileOK, Files
<1>2. \A p \in Players : probe'[p].at \in DOMAIN TempDrives
  BY Consts DEF Lists, Probes
<1> QED BY <1>1, <1>2 DEF TypeOK, Fields

(* A step that leaves files, ledgers and threads alone.                    *)
LEMMA StillKept ==
  ASSUME TypeOK, Lists, \A p \in Players : PlayerOK(p), phase' \in {"reserve", "merge", "done", "fatal"},
         terminate' \in BOOLEAN,
         UNCHANGED <<compress, ledgerVars, disk, pc, planVars, stack, probe, kwayVars, tempCount>>
  PROVE  /\ TypeOK' /\ Lists' /\ \A p \in Players : PlayerOK(p)'
         /\ Untouched => Untouched'
         /\ Balanced => Balanced'
<1>1. TypeOK' /\ Lists' /\ ledger' = ledger /\ limit' = limit /\ disk' = disk
  BY DEF TypeOK, Lists, ledgerVars, planVars, kwayVars
<1>2. \A p \in Players : Kept(p)
  BY DEF Kept, OwnKept, Own, planVars, kwayVars
<1>3. \A p \in Players : PlayerOK(p)'
  BY <1>2, PlayerKept
<1>4. Untouched => Untouched'
  BY <1>1 DEF Untouched, BytesOf, Bytes, OnDrive
<1>5. ASSUME Balanced PROVE Balanced'
  <2>1. \A p \in Players : /\ ReservedOK(p)'
                           /\ \A d \in Drives : Charge(p, d)' = Charge(p, d) /\ Net(p, d)' = Net(p, d)
    BY <1>2, <1>5, ChargeKept DEF Balanced
  <2> QED BY <1>1, <1>5, <2>1, TwoPlayers DEF Balanced
<1> QED BY <1>1, <1>3, <1>4, <1>5

(* What was asked of a ledger is on the account.                           *)
LEMMA NetBelow ==
  ASSUME NEW p \in Players, TypeOK, Lists, PlayerOK(p), NEW d \in Drives
  PROVE  Net(p, d) <= Charge(p, d)
<1>1. NetOf(Booked(p, d)) <= BytesOf(Booked(p, d))
  <2>1. PICK B : B = Booked(p, d)
    OBVIOUS
  <2>2. IsFiniteSet(B) /\ B \subseteq Own(p)
    BY <2>1, ChargeTypes
  <2>3. \A n \in B : disk[n].bytes \in Nat /\ Nets[n].bytes \in Nat /\ Nets[n].bytes <= disk[n].bytes
    BY <2>2, NetFacts DEF PlayerOK
  <2>4. FileSum(Nets, B) <= FileSum(disk, B)
    BY <2>2, <2>3, FileSumBelow
  <2> QED BY <2>1, <2>4, BytesOfIs, NetOfIs
<1>2. NetStore(p) <= StoreCharge(p)
  <2>1. CASE Settled(p) /\ Store(p) \in DOMAIN disk /\ ~Uncounted(p)
    <3>1. StoreCharge(p) = reserved[p] + Bytes(Store(p))
      BY <2>1 DEF StoreCharge, Counted
    <3>2. NetStore(p) = reserved[p] + (Bytes(Store(p)) - disk[Store(p)].over)
      BY <2>1 DEF NetStore
    <3>3. reserved[p] \in Nat /\ Bytes(Store(p)) \in Nat /\ disk[Store(p)].over \in Nat
      BY <2>1, ChargeTypes
    <3> QED BY <3>1, <3>2, <3>3
  <2>2. CASE ~(Settled(p) /\ Store(p) \in DOMAIN disk /\ ~Uncounted(p))
    <3>1. NetStore(p) = reserved[p] + 0
      BY <2>2 DEF NetStore
    <3>2. StoreCharge(p) = reserved[p] + 0
      BY <2>2 DEF StoreCharge, Counted
    <3> QED BY <3>1, <3>2, ChargeTypes
  <2> QED BY <2>1, <2>2
<1>3. /\ NetOf(Booked(p, d)) \in Nat /\ BytesOf(Booked(p, d)) \in Nat
      /\ NetStore(p) \in Nat /\ StoreCharge(p) \in Nat /\ Grant(p) \in Nat
  BY ChargeTypes
<1> QED BY <1>1, <1>2, <1>3 DEF Net, Charge

(* Accounts are amounts afterwards, too.                                   *)
LEMMA ChargeTypesNext ==
  (\A p \in Players : TypeOK /\ Lists /\ PlayerOK(p) =>
     \A d \in Drives : /\ Charge(p, d) \in Nat /\ Net(p, d) \in Nat
                       /\ Net(p, d) <= Charge(p, d))'
<1>1. \A p \in Players : TypeOK /\ Lists /\ PlayerOK(p) =>
        \A d \in Drives : /\ Charge(p, d) \in Nat /\ Net(p, d) \in Nat
                          /\ Net(p, d) <= Charge(p, d)
  BY ChargeTypes, NetBelow
<1> QED BY <1>1, PTL

(* A step of one player keeps the books of both balanced.                  *)
LEMMA BalancedStep ==
  ASSUME NEW p \in Players, NEW q \in Players, p # q, TypeOK, Lists, PlayerOK(p), PlayerOK(q),
         BooksKept(p), Kept(q), limit' = limit, Balanced, TypeOK', Lists', PlayerOK(p)', PlayerOK(q)'
  PROVE  Balanced'
<1>1. /\ ReservedOK(q)'
      /\ \A d \in Drives : Charge(q, d)' = Charge(q, d) /\ Net(q, d)' = Net(q, d)
  BY ChargeKept DEF Balanced
<1>2. /\ ReservedOK(p)' /\ ledger' \in [Drives -> Int]
      /\ \A d \in Drives : ledger'[d] + Charge(p, d)' = ledger[d] + Charge(p, d)
      /\ \A d \in Drives : ledger'[d] >= 0 \/ Net(p, d)' <= Net(p, d)
  BY DEF BooksKept
<1>3. (p = White /\ q = Black) \/ (p = Black /\ q = White)
  BY TwoPlayers
<1>4. \A d \in Drives : /\ Charge(p, d) \in Nat /\ Charge(q, d) \in Nat
                        /\ Net(p, d) \in Nat /\ Net(q, d) \in Nat
  BY ChargeTypes
<1>5. \A d \in Drives : ledger[d] \in Int /\ ledger'[d] \in Int /\ limit[d] \in Nat
  BY <1>2 DEF TypeOK
<1>6. \A d \in Drives : ledger'[d] + Charge(White, d)' + Charge(Black, d)' = limit'[d]
  <2>1. ASSUME NEW d \in Drives PROVE ledger'[d] + Charge(White, d)' + Charge(Black, d)' = limit'[d]
    <3>1. ledger[d] + Charge(White, d) + Charge(Black, d) = limit[d]
      BY DEF Balanced
    <3>2. Charge(p, d)' \in Nat
      BY ChargeTypesNext
    <3>3. PICK a \in Int, b \in Nat, c \in Nat, e \in Nat, k \in Int :
            /\ a = ledger[d] /\ b = Charge(p, d) /\ c = Charge(q, d) /\ e = Charge(p, d)' /\ k = ledger'[d]
      BY <1>4, <1>5, <3>2
    <3>4. a + b + c = limit[d]
      <4>1. CASE p = White /\ q = Black
        BY <3>1, <3>3, <4>1
      <4>2. CASE p = Black /\ q = White
        BY <1>4, <1>5, <3>1, <3>3, <4>2
      <4> QED BY <1>3, <4>1, <4>2
    <3>5. k + e = a + b
      BY <1>2, <3>3
    <3>6. k + e + c = limit'[d]
      BY <3>3, <3>4, <3>5
    <3>7. k = ledger'[d] /\ e = Charge(p, d)' /\ c = Charge(q, d)'
      BY <1>1, <3>3
    <3>8. CASE p = White /\ q = Black
      BY <3>6, <3>7, <3>8
    <3>9. CASE p = Black /\ q = White
      <4>1. k + c + e = limit'[d]
        BY <3>3, <3>6
      <4> QED BY <3>7, <3>9, <4>1
    <3> QED BY <1>3, <3>8, <3>9
  <2> QED BY <2>1
<1>7. ASSUME NEW d \in Drives PROVE Net(White, d)' + Net(Black, d)' <= limit'[d]
  <2>1. /\ Net(White, d)' \in Nat /\ Charge(White, d)' \in Nat /\ Net(White, d)' <= Charge(White, d)'
        /\ Net(Black, d)' \in Nat /\ Charge(Black, d)' \in Nat /\ Net(Black, d)' <= Charge(Black, d)'
    BY <1>3, ChargeTypesNext
  <2>2. CASE ledger'[d] >= 0
    <3>1. ledger'[d] + Charge(White, d)' + Charge(Black, d)' = limit'[d]
      BY <1>6
    <3>2. ledger'[d] \in Int /\ limit'[d] \in Nat
      BY <1>5
    <3> QED BY <2>1, <2>2, <3>1, <3>2
  <2>3. CASE Net(p, d)' <= Net(p, d)
    <3>1. Net(White, d) + Net(Black, d) <= limit[d]
      BY DEF Balanced
    <3>2. Net(White, d)' <= Net(White, d) /\ Net(Black, d)' <= Net(Black, d)
      BY <1>1, <1>3, <1>4, <2>3
    <3> QED BY <1>3, <1>4, <1>5, <2>1, <3>1, <3>2
  <2> QED BY <1>2, <2>2, <2>3
<1>8. \A o \in Players : ReservedOK(o)'
  <2>1. ReservedOK(White)' /\ ReservedOK(Black)'
    BY <1>1, <1>2, <1>3
  <2> QED BY <2>1, TwoPlayers
<1> QED BY <1>6, <1>7, <1>8 DEF Balanced

(* A step of a player thread.                                              *)
LEMMA ThreadStep ==
  ASSUME NEW p \in Players, EolInv, phase = "merge", PlayerNext(p)
  PROVE  EolInv'
<1>1. TypeOK /\ Lists /\ Balanced /\ \A o \in Players : PlayerOK(o) /\ ReservedOK(o)
  BY DEF EolInv, Books, Balanced
<1>2. PICK q \in Players : q # p /\ \A o \in Players : o = p \/ o = q
  BY TwoPlayers
<1>3. Lists' /\ PlayerOK(p)'
  BY <1>1, PlayerStep
<1>4. Kept(q) /\ PlayerOK(q)'
  BY <1>1, <1>2, OthersKept, PlayerKept
<1>5. \A o \in Players : PlayerOK(o)'
  BY <1>2, <1>3, <1>4
<1>6. BooksKept(p)
  BY <1>1, <1>3, BooksStep
<1>7. Fields' /\ limit' = limit /\ phase' \in {"merge", "fatal"}
  BY <1>1, FieldsStep
<1>8. TypeOK'
  BY <1>3, <1>5, <1>6, <1>7, TypesMade DEF BooksKept
<1>9. Balanced'
  BY <1>1, <1>2, <1>3, <1>4, <1>6, <1>7, <1>8, BalancedStep
<1> QED BY <1>3, <1>5, <1>7, <1>8, <1>9 DEF EolInv, Books

(* Joining, an interrupt and the end change nothing but the phase and the  *)
(* flag.                                                                   *)
LEMMA StillStep ==
  ASSUME EolInv, JoinThreads \/ Interrupt \/ Over \/ UNCHANGED vars
  PROVE  EolInv'
<1>1. /\ UNCHANGED <<compress, ledgerVars, disk, pc, planVars, stack, probe, kwayVars, tempCount>>
      /\ phase' \in {"reserve", "merge", "done", "fatal"} /\ terminate' \in BOOLEAN
      /\ \/ phase' = phase
         \/ phase = "merge" /\ phase' = "done" /\ \A p \in Players : pc[p] = "done"
  BY DEF JoinThreads, Interrupt, Over, vars, EolInv, TypeOK
<1>2. TypeOK /\ Lists /\ \A p \in Players : PlayerOK(p)
  BY DEF EolInv
<1>3. /\ TypeOK' /\ Lists' /\ \A p \in Players : PlayerOK(p)'
      /\ Untouched => Untouched'
      /\ Balanced => Balanced'
  BY <1>1, <1>2, StillKept
<1>4. Books'
  BY <1>1, <1>3 DEF EolInv, Books
<1>5. pc' = pc
  BY <1>1
<1> QED BY <1>1, <1>3, <1>4, <1>5 DEF EolInv

(* Before the threads run, a player's files are its inputs.                *)
LEMMA BeginFacts ==
  ASSUME NEW p \in Players, TypeOK, Lists, PlayerOK(p), pc[p] = "begin"
  PROVE  /\ stack[p] = <<>> /\ Own(p) = Range(inputs[p]) /\ Grant(p) = 0
         /\ \A n \in Own(p) : /\ n.kind = "input" /\ disk[n].boards # {}
                              /\ compress = "none" => disk[n].bytes = PlainBytes(disk[n].boards)
                              /\ disk[n].bytes \in Nat /\ disk[n].bytes > 0
                              /\ IsFiniteSet(disk[n].boards)
<1>1. stack[p] = <<>> /\ pc[p] \in Alone
  BY DEF PlayerOK, PlaceOK, Alone
<1>2. \A n \in Own(p) : n.kind = "input"
  <2>1. Store(p) \notin Own(p)
    BY DEF PlayerOK, PlaceOK, Output
  <2>2. ASSUME NEW n \in Own(p), n.kind = "store" PROVE FALSE
    <3>1. n \in Names /\ n.player = p /\ n.idx = 0
      BY <2>2, PlayerFacts DEF PlayerOK, FilesOK, FileOK
    <3> QED BY <2>1, <2>2, <3>1, NameFacts
  <2>3. \A n \in Own(p) : n.kind # "temp" /\ n \in Names
    BY <1>1, NoCallFacts, PlayerFacts
  <2> QED BY <2>2, <2>3, NameFacts
<1>3. Own(p) = Range(inputs[p])
  BY <1>2 DEF PlayerOK, InputsOK
<1>4. ASSUME NEW n \in Own(p)
      PROVE  /\ disk[n].boards # {}
             /\ compress = "none" => disk[n].bytes = PlainBytes(disk[n].boards)
             /\ disk[n].bytes \in Nat /\ disk[n].bytes > 0 /\ IsFiniteSet(disk[n].boards)
  <2>1. /\ disk[n].boards # {} /\ IsFiniteSet(disk[n].boards)
        /\ disk[n].bytes \in Nat /\ Trailer <= disk[n].bytes
        /\ compress = "none" => disk[n].bytes = PlainBytes(disk[n].boards)
    BY <1>2, PlayerFacts DEF PlayerOK, FilesOK, FileOK, Bytes
  <2>2. Trailer \in Nat /\ Trailer > 0
    BY EolAssumption
  <2>3. disk[n].bytes > 0
    BY <2>1, <2>2
  <2> QED BY <2>1, <2>3
<1> QED BY <1>1, <1>2, <1>3, <1>4 DEF Grant

(* A player's files on a drive.                                            *)
OwnOn(p, d) == {n \in Own(p) : disk[n].drive = d}

(* What a drive holds is what the two players have there.                  *)
LEMMA DriveSplit ==
  ASSUME TypeOK, Lists, \A p \in Players : PlayerOK(p), NEW d \in Drives
  PROVE  /\ BytesOf(OnDrive(d)) = BytesOf(OwnOn(White, d)) + BytesOf(OwnOn(Black, d))
         /\ BytesOf(OwnOn(White, d)) \in Nat /\ BytesOf(OwnOn(Black, d)) \in Nat
<1>1. /\ DOMAIN disk = Own(White) \cup Own(Black) /\ Own(White) \cap Own(Black) = {}
      /\ IsFiniteSet(DOMAIN disk) /\ \A n \in DOMAIN disk : disk[n].bytes \in Nat
  BY AllFiles
<1>2. PICK W, B : W = OwnOn(White, d) /\ B = OwnOn(Black, d)
  OBVIOUS
<1>3. OnDrive(d) = W \cup B /\ W \cap B = {} /\ W \subseteq DOMAIN disk /\ B \subseteq DOMAIN disk
  BY <1>1, <1>2 DEF OnDrive, OwnOn
<1>4. IsFiniteSet(W) /\ IsFiniteSet(B) /\ \A n \in W \cup B : disk[n].bytes \in Nat
  BY <1>1, <1>3, FS_Subset
<1>5. FileSum(disk, W \cup B) = FileSum(disk, W) + FileSum(disk, B)
  BY <1>3, <1>4, FileSumDisjoint
<1>6. FileSum(disk, W) \in Nat /\ FileSum(disk, B) \in Nat
  BY <1>4, FileSumRemove
<1> QED BY <1>2, <1>3, <1>5, <1>6, BytesOfIs

(* Without compression the sizes of a player's inputs cover the records of *)
(* its output and a trailer.                                               *)
LEMMA WorstCase ==
  ASSUME NEW p \in Players, TypeOK, Lists, PlayerOK(p), pc[p] = "begin"
  PROVE  /\ StoreNeeded(p) \in Nat /\ StoreNeeded(p) = BytesOf(Own(p))
         /\ compress = "none" /\ inputs[p] # <<>> =>
              Cardinality(BoardsOf(Own(p))) + Trailer <= StoreNeeded(p)
         /\ inputs[p] = <<>> => StoreNeeded(p) = 0
<1>1. /\ Own(p) = Range(inputs[p]) /\ IsFiniteSet(Own(p)) /\ inputs[p] \in Seq(Names)
      /\ \A n \in Own(p) : /\ disk[n].bytes \in Nat /\ IsFiniteSet(disk[n].boards)
                           /\ compress = "none" => disk[n].bytes = PlainBytes(disk[n].boards)
  BY BeginFacts, PlayerFacts DEF Lists
<1>2. PICK S : S = Own(p)
  OBVIOUS
<1>3. /\ IsFiniteSet(S) /\ S = Range(inputs[p])
      /\ \A n \in S : disk[n].bytes \in Nat /\ IsFiniteSet(disk[n].boards)
  BY <1>1, <1>2
<1>4. /\ StoreNeeded(p) = FileSum(disk, S) /\ BytesOf(Own(p)) = FileSum(disk, S)
      /\ BoardsOf(Own(p)) = BoardsIn(disk, S)
  BY <1>2, <1>3, BytesOfIs DEF StoreNeeded, BoardsOf, BoardsIn
<1>5. FileSum(disk, S) \in Nat
  BY <1>3, FileSumRemove
<1>6. ASSUME inputs[p] = <<>> PROVE FileSum(disk, S) = 0
  <2>1. S = {}
    BY <1>1, <1>3, <1>6, RangeFacts
  <2> QED BY <2>1, FileSumEmpty
<1>7. ASSUME compress = "none", inputs[p] # <<>>
      PROVE  Cardinality(BoardsIn(disk, S)) + Trailer <= FileSum(disk, S)
  <2>1. inputs[p][1] \in S
    <3>1. Len(inputs[p]) \in Nat /\ Len(inputs[p]) # 0
      BY <1>1, <1>7, RangeFacts, LenProperties
    <3>2. 1 \in 1..Len(inputs[p])
      BY <3>1
    <3> QED BY <1>1, <1>3, <3>2, RangeFacts
  <2>2. \A n \in S : /\ disk[n].bytes \in Nat /\ IsFiniteSet(disk[n].boards)
                     /\ PlainBytes(disk[n].boards) <= disk[n].bytes
    BY <1>1, <1>2, <1>7
  <2> QED BY <1>3, <2>1, <2>2, TrailersFit
<1> QED BY <1>4, <1>5, <1>6, <1>7

(* The reservation touches no file and no thread.                          *)
LEMMA ReserveKeeps ==
  ASSUME NEW p \in Players, TypeOK, Lists, PlayerOK(p), pc[p] = "begin", ReserveOutputs
  PROVE  /\ PlayerOK(p)' /\ Own(p)' = Own(p)
         /\ BoardsOf(Own(p))' = BoardsOf(Own(p))
         /\ reserved'[p] = StoreNeeded(p) /\ (early'[p] <=> BytesOf(OnStore(p)) > 0)
<1>1. /\ compress' = compress /\ disk' = disk /\ inputs' = inputs /\ stack' = stack /\ pc' = pc
      /\ probe' = probe /\ queue' = queue /\ readers' = readers /\ target' = target
      /\ tempCount' = tempCount
  BY DEF ReserveOutputs, kwayVars
<1>2. OwnKept(p) /\ ~MakingTemp(p) /\ ~MakingTemp(p)' /\ (Output(p)' <=> Output(p))
  BY <1>1 DEF OwnKept, Own, MakingTemp, Output
<1>3. /\ FilesOK(p)' /\ InputsOK(p)' /\ CallsOK(p)' /\ GrantOK(p)' /\ Own(p)' = Own(p)
      /\ Depth(p)' = Depth(p) /\ Top(p)' = Top(p) /\ TempsOf(p)' = TempsOf(p) /\ Window(p)' = Window(p)
  BY <1>1, <1>2, QuietStep
<1>4. PlaceOK(p)'
  <2>1. PlaceOK(p)
    BY DEF PlayerOK
  <2> QED BY <1>1, <1>2, <1>3, <2>1 DEF PlaceOK
<1>5. BoardsOf(Own(p))' = BoardsOf(Own(p))
  BY <1>1, <1>3 DEF BoardsOf
<1>6. reserved'[p] = StoreNeeded(p) /\ (early'[p] <=> BytesOf(OnStore(p)) > 0)
  BY DEF ReserveOutputs
<1> QED BY <1>3, <1>4, <1>5, <1>6 DEF PlayerOK

(* Files that are not empty take room.                                     *)
LEMMA SizeGrows ==
  ASSUME NEW f, NEW S, IsFiniteSet(S), S # {},
         \A n \in S : f[n].bytes \in Nat /\ f[n].bytes > 0
  PROVE  FileSum(f, S) > 0
<1>1. \A n \in S : f[n].bytes \in Nat
  OBVIOUS
<1>2. PICK n : n \in S
  OBVIOUS
<1>3. FileSum(f, S) = f[n].bytes + FileSum(f, S \ {n}) /\ FileSum(f, S \ {n}) \in Nat
  BY <1>1, <1>2, FileSumRemove
<1>4. f[n].bytes \in Nat /\ f[n].bytes > 0
  BY <1>2
<1> QED BY <1>3, <1>4

(* What the store drive is short of is the reservation, every other drive  *)
(* the inputs that lie there.                                              *)
LEMMA ReserveCharges ==
  ASSUME NEW p \in Players, TypeOK, Lists, PlayerOK(p), pc[p] = "begin", ReserveOutputs,
         \A n \in Own(p) : disk[n].over = 0
  PROVE  /\ ReservedOK(p)'
         /\ OnStore(p) = OwnOn(p, StoreDrive)
         /\ \A d \in Drives : Charge(p, d)' = IF d = StoreDrive THEN StoreNeeded(p) ELSE BytesOf(OwnOn(p, d))
<1>1. /\ Own(p)' = Own(p) /\ BoardsOf(Own(p))' = BoardsOf(Own(p))
      /\ reserved'[p] = StoreNeeded(p) /\ (early'[p] <=> BytesOf(OnStore(p)) > 0)
  BY ReserveKeeps
<1>2. /\ stack[p] = <<>> /\ Own(p) = Range(inputs[p])
      /\ \A n \in Own(p) : n.kind = "input" /\ disk[n].bytes \in Nat /\ disk[n].bytes > 0
  BY BeginFacts
<1>3. /\ stack'[p] = <<>> /\ pc'[p] = "begin" /\ disk' = disk /\ inputs' = inputs /\ compress' = compress
  BY <1>2 DEF ReserveOutputs
<1>4. OnStore(p) = OwnOn(p, StoreDrive)
  BY <1>2 DEF OnStore, OwnOn
<1>5. \A d \in Drives : IsFiniteSet(OwnOn(p, d)) /\ OwnOn(p, d) \subseteq Own(p) /\ BytesOf(OwnOn(p, d)) \in Nat
  <2>1. ASSUME NEW d \in Drives
        PROVE  IsFiniteSet(OwnOn(p, d)) /\ OwnOn(p, d) \subseteq Own(p) /\ BytesOf(OwnOn(p, d)) \in Nat
    <3>1. IsFiniteSet(OwnOn(p, d)) /\ OwnOn(p, d) \subseteq Own(p)
      BY PlayerFacts, FS_Subset DEF OwnOn
    <3> QED BY <1>2, <3>1, FileSumRemove, BytesOfIs
  <2> QED BY <2>1
<1>6. early'[p] <=> OwnOn(p, StoreDrive) # {}
  <2>1. PICK S : S = OwnOn(p, StoreDrive)
    OBVIOUS
  <2>2. IsFiniteSet(S) /\ \A n \in S : disk[n].bytes \in Nat /\ disk[n].bytes > 0
    BY <1>2, <1>5, <2>1, Consts
  <2>4. S # {} => FileSum(disk, S) > 0
    BY <2>2, SizeGrows
  <2>5. S = {} => FileSum(disk, S) = 0
    BY FileSumEmpty
  <2> QED BY <1>1, <1>4, <2>1, <2>4, <2>5, BytesOfIs
<1>7. ~Settled(p)' /\ Going(p)' = {}
  BY <1>3 DEF Settled, Going
<1>8. ReservedOK(p)'
  <2>1. /\ compress = "none" /\ inputs[p] # <<>> => Cardinality(BoardsOf(Own(p)))' + Trailer <= reserved'[p]
        /\ inputs[p] = <<>> => reserved'[p] = 0
    BY <1>1, WorstCase
  <2>2. \A n \in Own(p) : n \in OwnOn(p, StoreDrive) <=> disk[n].drive = StoreDrive
    BY DEF OwnOn
  <2>3. OwnOn(p, StoreDrive) # {} => \E n \in Own(p) : n.kind = "input" /\ disk[n].drive = StoreDrive
    BY <1>2 DEF OwnOn
  <2>4. Store(p) \notin Own(p)'
    BY <1>1, <1>2, NameFacts
  <2> QED BY <1>1, <1>3, <1>6, <1>7, <2>1, <2>2, <2>3, <2>4 DEF ReservedOK
<1>9. StoreCharge(p)' = StoreNeeded(p) /\ StoreNeeded(p) \in Nat
  BY <1>1, <1>7, WorstCase DEF StoreCharge
<1>10. ASSUME NEW d \in Drives
       PROVE  Charge(p, d)' = IF d = StoreDrive THEN StoreNeeded(p) ELSE BytesOf(OwnOn(p, d))
  <2>1. \A n : n \in Booked(p, d)' <=> n \in OwnOn(p, d) /\ ~(early'[p] /\ d = StoreDrive)
    BY <1>1, <1>2, <1>3, <1>7, NoCallBookedNext DEF OwnOn
  <2>2. Charge(p, d)' = BytesOf(Booked(p, d))' + (IF d = StoreDrive THEN StoreNeeded(p) ELSE 0)
                                + (IF d = TempDrives[probe'[p].at] THEN 0 ELSE 0)
    BY <1>3, <1>9, NoCallBookedNext
  <2>3. CASE d = StoreDrive
    <3>1. Booked(p, d)' = {}
      BY <1>6, <2>1, <2>3
    <3>2. BytesOf(Booked(p, d))' = 0
      BY <3>1, FileSumEmpty DEF BytesOf, Bytes, FileSum
    <3> QED BY <1>9, <2>2, <2>3, <3>2
  <2>4. CASE d # StoreDrive
    <3>1. Booked(p, d)' = OwnOn(p, d)
      BY <2>1, <2>4
    <3>2. BytesOf(Booked(p, d))' = BytesOf(OwnOn(p, d))
      BY <1>3, <3>1 DEF BytesOf, Bytes
    <3> QED BY <1>5, <2>2, <2>4, <3>2
  <2> QED BY <2>3, <2>4
<1> QED BY <1>4, <1>8, <1>9, <1>10

(* Phase 1b.                                                               *)
LEMMA ReserveStep ==
  ASSUME EolInv, ReserveOutputs
  PROVE  EolInv'
<1>1. /\ TypeOK /\ Lists /\ Untouched /\ \A p \in Players : PlayerOK(p) /\ pc[p] = "begin"
  BY DEF EolInv, Books, ReserveOutputs
<1>2. /\ compress' = compress /\ disk' = disk /\ inputs' = inputs /\ stack' = stack /\ pc' = pc
      /\ probe' = probe /\ queue' = queue /\ readers' = readers /\ target' = target
      /\ tempCount' = tempCount /\ terminate' = terminate /\ limit' = limit
  BY DEF ReserveOutputs, kwayVars
<1>3. Lists' /\ \A p \in Players : PlayerOK(p)'
  BY <1>1, <1>2, ReserveKeeps DEF Lists
<1>4. PICK W \in Nat, B \in Nat : W = StoreNeeded(White) /\ B = StoreNeeded(Black)
  BY <1>1, WorstCase, TwoPlayers
<1>5. /\ OnStore(White) = OwnOn(White, StoreDrive) /\ OnStore(Black) = OwnOn(Black, StoreDrive)
      /\ \A p \in Players : ReservedOK(p)'
      /\ \A d \in Drives : /\ Charge(White, d)' = IF d = StoreDrive THEN W ELSE BytesOf(OwnOn(White, d))
                           /\ Charge(Black, d)' = IF d = StoreDrive THEN B ELSE BytesOf(OwnOn(Black, d))
  <2>1. \A p \in Players : \A n \in Own(p) : disk[n].over = 0
    BY <1>1 DEF Untouched, Own
  <2> QED BY <1>1, <1>4, <2>1, ReserveCharges, TwoPlayers
<1>6. \A d \in Drives : /\ ledger[d] + BytesOf(OwnOn(White, d)) + BytesOf(OwnOn(Black, d)) = limit[d]
                        /\ BytesOf(OwnOn(White, d)) \in Nat /\ BytesOf(OwnOn(Black, d)) \in Nat
                        /\ ledger[d] \in Nat /\ limit[d] \in Nat
  <2>1. ASSUME NEW d \in Drives
        PROVE  /\ ledger[d] + BytesOf(OwnOn(White, d)) + BytesOf(OwnOn(Black, d)) = limit[d]
               /\ BytesOf(OwnOn(White, d)) \in Nat /\ BytesOf(OwnOn(Black, d)) \in Nat
               /\ ledger[d] \in Nat /\ limit[d] \in Nat
    <3>1. ledger[d] + BytesOf(OnDrive(d)) = limit[d] /\ ledger[d] \in Nat /\ limit[d] \in Nat
      BY <1>1 DEF Untouched, TypeOK
    <3>2. /\ BytesOf(OnDrive(d)) = BytesOf(OwnOn(White, d)) + BytesOf(OwnOn(Black, d))
          /\ BytesOf(OwnOn(White, d)) \in Nat /\ BytesOf(OwnOn(Black, d)) \in Nat
      BY <1>1, DriveSplit
    <3> QED BY <3>1, <3>2
  <2> QED BY <2>1
<1>7. PICK y \in Nat : y = BytesOf(OnStore(White)) + BytesOf(OnStore(Black))
  BY <1>5, <1>6, Consts
<1>8. ledger[StoreDrive] + y = limit[StoreDrive] /\ StoreDrive \in Drives
  BY <1>5, <1>6, <1>7, Consts
<1>9. reserved' \in [Players -> Nat] /\ early' \in [Players -> BOOLEAN]
  <2>1. \A p \in Players : StoreNeeded(p) \in Nat
    BY <1>1, WorstCase
  <2> QED BY <2>1 DEF ReserveOutputs
<1>10. CASE W + B <= ledger[StoreDrive] + y
  <2>1. ledger' = [ledger EXCEPT ![StoreDrive] = @ + y - (W + B)] /\ phase' = "merge"
    BY <1>4, <1>7, <1>10 DEF ReserveOutputs
  <2>2. PICK left \in Nat : left = ledger[StoreDrive] + y - (W + B)
    BY <1>4, <1>6, <1>7, <1>8, <1>10
  <2>3. ledger \in [Drives -> Int] /\ ledger' = [ledger EXCEPT ![StoreDrive] = left]
    BY <1>1, <2>1, <2>2 DEF TypeOK
  <2>4. ledger' \in [Drives -> Int] /\ ledger'[StoreDrive] = left
        /\ \A d \in Drives : d # StoreDrive => ledger'[d] = ledger[d]
    BY <1>8, <2>2, <2>3
  <2>5. ASSUME NEW d \in Drives PROVE ledger'[d] + Charge(White, d)' + Charge(Black, d)' = limit'[d]
    <3>1. CASE d = StoreDrive
      <4>1. Charge(White, d)' = W /\ Charge(Black, d)' = B
        BY <1>5, <3>1
      <4>2. left + W + B = limit[StoreDrive]
        BY <1>4, <1>6, <1>7, <1>8, <2>2
      <4> QED BY <1>2, <2>4, <3>1, <4>1, <4>2
    <3>2. CASE d # StoreDrive
      <4>1. Charge(White, d)' = BytesOf(OwnOn(White, d)) /\ Charge(Black, d)' = BytesOf(OwnOn(Black, d))
        BY <1>5, <3>2
      <4> QED BY <1>2, <1>6, <2>4, <3>2, <4>1
    <3> QED BY <3>1, <3>2
  <2>6. TypeOK'
    BY <1>1, <1>2, <1>3, <1>9, <2>1, <2>4 DEF TypeOK
  <2>7. ASSUME NEW d \in Drives PROVE Net(White, d)' + Net(Black, d)' <= limit'[d]
    <3>1. /\ Net(White, d)' \in Nat /\ Charge(White, d)' \in Nat /\ Net(White, d)' <= Charge(White, d)'
          /\ Net(Black, d)' \in Nat /\ Charge(Black, d)' \in Nat /\ Net(Black, d)' <= Charge(Black, d)'
      BY <1>3, <2>6, ChargeTypesNext, TwoPlayers
    <3>2. ledger'[d] \in Nat
      BY <1>6, <2>2, <2>4
    <3>3. ledger'[d] + Charge(White, d)' + Charge(Black, d)' = limit'[d] /\ limit'[d] \in Nat
      BY <1>2, <1>6, <2>5
    <3> QED BY <3>1, <3>2, <3>3
  <2>8. Balanced'
    BY <1>5, <2>5, <2>7 DEF Balanced
  <2> QED BY <1>1, <1>2, <1>3, <2>1, <2>6, <2>8 DEF EolInv, Books
<1>11. CASE ~(W + B <= ledger[StoreDrive] + y)
  <2>1. ledger' = ledger /\ phase' = "fatal"
    BY <1>4, <1>7, <1>11 DEF ReserveOutputs
  <2>2. Untouched'
    BY <1>1, <1>2, <2>1 DEF Untouched, BytesOf, Bytes, OnDrive
  <2>3. TypeOK'
    BY <1>1, <1>2, <1>3, <1>9, <2>1 DEF TypeOK
  <2> QED BY <1>1, <1>2, <1>3, <2>1, <2>2, <2>3 DEF EolInv, Books
<1> QED BY <1>10, <1>11

----------------------------------------------------------------------------
(* The books and the files of every reachable state.                       *)

(* When the merge begins, each player has the inputs the scan found and    *)
(* nothing else.                                                           *)
LEMMA BeginFiles ==
  ASSUME Init, NEW p \in Players
  PROVE  /\ inputs \in [Players -> Seq(Names)] /\ DOMAIN disk \subseteq Names
         /\ IsFiniteSet(Own(p)) /\ Range(inputs[p]) = Own(p) /\ Once(inputs[p])
         /\ \A n \in Own(p) : /\ n.kind = "input" /\ disk[n] \in Files
                              /\ disk[n].boards # {} /\ IsFiniteSet(disk[n].boards)
                              /\ Bytes(n) \in Nat /\ Trailer <= Bytes(n) /\ disk[n].over = 0
                              /\ compress = "none" => Bytes(n) = PlainBytes(disk[n].boards)
<1>1. PICK level \in Levels :
        /\ disk = [n \in UNION {InputNames(level, o) : o \in Players} |->
                     LET file == level[n.player][n.idx]
                     IN  [drive |-> file.drive, boards |-> file.boards,
                          bytes |-> InBytes(file), closed |-> TRUE, over |-> 0]]
        /\ inputs = [o \in Players |-> [i \in DOMAIN level[o] |-> Input(o, i)]]
  BY DEF Init
<1>2. \A o \in Players : /\ Len(level[o]) \in Nat /\ DOMAIN level[o] = 1..Len(level[o])
                         /\ \A i \in DOMAIN level[o] : i \in Nat
  <2>1. ASSUME NEW o \in Players
        PROVE  Len(level[o]) \in Nat /\ DOMAIN level[o] = 1..Len(level[o])
    <3>1. level[o] \in Seq(Range(level[o]))
      BY EolAssumption
    <3> QED BY <3>1, LenProperties
  <2> QED BY <2>1
<1>3. ASSUME NEW o \in Players PROVE inputs[o] \in Seq(Names)
  <2>1. PICK k \in Nat : DOMAIN level[o] = 1..k
    BY <1>2
  <2>2. inputs[o] = [i \in 1..k |-> Input(o, i)]
    BY <1>1, <2>1
  <2>3. \A i \in 1..k : Input(o, i) \in Names
    BY NameFacts
  <2> QED BY <2>2, <2>3, IsASeq
<1>4. inputs \in [Players -> Seq(Names)]
  BY <1>1, <1>3
<1>5. DOMAIN disk = UNION {InputNames(level, o) : o \in Players}
  BY <1>1
<1>6. ASSUME NEW n \in DOMAIN disk
      PROVE  \E o \in Players : \E i \in DOMAIN level[o] : n = Input(o, i)
  BY <1>5, <1>6 DEF InputNames
<1>7. DOMAIN disk \subseteq Names
  BY <1>2, <1>6, NameFacts
<1>8. Own(p) = {Input(p, i) : i \in DOMAIN level[p]}
  <2>1. \A i \in DOMAIN level[p] : Input(p, i) \in Own(p)
    BY <1>2, <1>5, NameFacts DEF Own, InputNames
  <2>2. ASSUME NEW n \in Own(p) PROVE n \in {Input(p, i) : i \in DOMAIN level[p]}
    <3>1. n \in DOMAIN disk /\ n.player = p
      BY DEF Own
    <3>2. PICK o \in Players : \E i \in DOMAIN level[o] : n = Input(o, i)
      BY <1>6, <3>1
    <3>3. o = p
      BY <1>2, <3>1, <3>2, NameFacts
    <3> QED BY <3>2, <3>3
  <2> QED BY <2>1, <2>2
<1>9. DOMAIN inputs[p] = DOMAIN level[p] /\ \A i \in DOMAIN level[p] : inputs[p][i] = Input(p, i)
  BY <1>1
<1>10. Range(inputs[p]) = Own(p)
  BY <1>8, <1>9 DEF Range
<1>11. IsFiniteSet(Own(p))
  <2>1. inputs[p] \in Seq(Names)
    BY <1>4
  <2> QED BY <1>10, <2>1, RangeFacts
<1>12. Once(inputs[p])
  <2>1. \A i, j \in DOMAIN level[p] : Input(p, i) = Input(p, j) => i = j
    BY <1>2, NameFacts
  <2> QED BY <1>9, <2>1 DEF Once
<1>13. ASSUME NEW n \in Own(p)
       PROVE  /\ n.kind = "input" /\ disk[n] \in Files
              /\ disk[n].boards # {} /\ IsFiniteSet(disk[n].boards)
              /\ Bytes(n) \in Nat /\ Trailer <= Bytes(n) /\ disk[n].over = 0
              /\ compress = "none" => Bytes(n) = PlainBytes(disk[n].boards)
  <2>1. PICK i \in DOMAIN level[p] : n = Input(p, i)
    BY <1>8
  <2>2. n \in DOMAIN disk /\ n.kind = "input" /\ n.player = p /\ n.idx = i
    BY <1>2, <2>1, NameFacts DEF Own
  <2>3. disk[n] = [drive |-> level[p][i].drive, boards |-> level[p][i].boards,
                   bytes |-> InBytes(level[p][i]), closed |-> TRUE, over |-> 0]
    BY <1>1, <2>2
  <2>4. level[p][i].drive \in Drives /\ level[p][i].packed \in Nat /\ level[p][i].boards # {} /\ IsFiniteSet(level[p][i].boards)
    BY EolAssumption
  <2>5. level[p][i].boards \in SUBSET Boards
    BY DEF Boards
  <2>6. /\ InBytes(level[p][i]) \in Nat /\ Trailer <= InBytes(level[p][i])
        /\ compress = "none" => InBytes(level[p][i]) = PlainBytes(level[p][i].boards)
    <3>1. Cardinality(level[p][i].boards) \in Nat
      BY <2>4, FS_CardinalityType
    <3> QED BY <2>4, <3>1, Consts DEF InBytes, PlainBytes
  <2> QED BY <2>2, <2>3, <2>4, <2>5, <2>6 DEF Files, Bytes
<1> QED BY <1>4, <1>7, <1>10, <1>11, <1>12, <1>13

(* A player begins in its invariant.                                       *)
LEMMA BeginPlayer ==
  ASSUME Init, NEW p \in Players
  PROVE  PlayerOK(p)
<1>1. /\ IsFiniteSet(Own(p)) /\ Range(inputs[p]) = Own(p) /\ Once(inputs[p])
      /\ \A n \in Own(p) : /\ n.kind = "input" /\ disk[n] \in Files
                           /\ disk[n].boards # {} /\ IsFiniteSet(disk[n].boards)
                           /\ Bytes(n) \in Nat /\ Trailer <= Bytes(n) /\ disk[n].over = 0
                           /\ compress = "none" => Bytes(n) = PlainBytes(disk[n].boards)
  BY BeginFiles
<1>2. /\ pc[p] = "begin" /\ stack[p] = <<>> /\ Depth(p) = 0 /\ readers[p] = {}
      /\ ~MakingTemp(p) /\ Started(p) = {}
  BY DEF Init, Depth, MakingTemp, Started
<1>3. FilesOK(p)
  <2>1. ASSUME NEW n \in Own(p) PROVE FileOK(n)
    <3>1. disk[n].over <= Bytes(n)
      BY <1>1
    <3> QED BY <1>1, <3>1 DEF FileOK
  <2> QED BY <1>1, <2>1 DEF FilesOK
<1>4. InputsOK(p)
  BY <1>1 DEF InputsOK
<1>5. CallsOK(p)
  <2>1. 1..Depth(p) = {}
    BY <1>2
  <2>2. TempsOf(p) = {}
    BY <2>1 DEF TempsOf
  <2>3. {n \in Own(p) : n.kind = "temp"} = {}
    BY <1>1
  <2> QED BY <1>2, <2>1, <2>2, <2>3 DEF CallsOK
<1>6. PlaceOK(p)
  <2>1. Store(p) \notin Own(p)
    BY <1>1, NameFacts
  <2>2. ~Output(p)
    BY <1>2 DEF Output
  <2> QED BY <1>2, <2>1, <2>2 DEF PlaceOK, Alone, Within
<1>7. GrantOK(p)
  BY <1>2 DEF GrantOK
<1> QED BY <1>3, <1>4, <1>5, <1>6, <1>7 DEF PlayerOK

(* The merge begins in the invariant.                                      *)
LEMMA InitEolInv ==
  ASSUME Init
  PROVE  EolInv
<1>1. \A p \in Players : PlayerOK(p)
  BY BeginPlayer
<1>2. Lists
  <2>1. inputs \in [Players -> Seq(Names)] /\ DOMAIN disk \subseteq Names
    BY BeginFiles, TwoPlayers
  <2>2. stack \in [Players -> Seq(Calls)] /\ queue \in [Players -> Seq(Names)]
    <3>1. <<>> \in Seq(Calls) /\ <<>> \in Seq(Names)
      BY EmptySeq
    <3> QED BY <3>1 DEF Init
  <2>3. probe \in [Players -> Probes]
    BY Consts DEF Init, Probes
  <2>4. /\ readers \in [Players -> SUBSET Names] /\ target \in [Players -> Names]
        /\ tempCount \in [Players -> Nat]
    BY NameFacts DEF Init
  <2> QED BY <2>1, <2>2, <2>3, <2>4 DEF Lists
<1>3. ASSUME NEW n \in DOMAIN disk
      PROVE  /\ disk[n].drive \in Drives /\ disk[n].closed \in BOOLEAN
             /\ disk[n].bytes \in Nat /\ disk[n].over \in Nat /\ disk[n].over = 0
  <2>1. n.player \in Players
    BY <1>2, NameFacts DEF Lists
  <2>2. n \in Own(n.player)
    BY DEF Own
  <2>3. disk[n] \in Files /\ disk[n].over = 0
    BY <2>1, <2>2, BeginFiles
  <2> QED BY <2>3 DEF Files
<1>4. IsFiniteSet(DOMAIN disk)
  <2>1. DOMAIN disk = Own(White) \cup Own(Black)
    <3>1. \A n \in DOMAIN disk : n.player \in Players
      BY <1>2, NameFacts DEF Lists
    <3> QED BY <3>1, TwoPlayers DEF Own
  <2>2. IsFiniteSet(Own(White)) /\ IsFiniteSet(Own(Black))
    BY BeginFiles, TwoPlayers
  <2> QED BY <2>1, <2>2, FS_Union
<1>5. ASSUME NEW d \in Drives PROVE BytesOf(OnDrive(d)) \in Nat
  <2>1. PICK S : S = OnDrive(d)
    OBVIOUS
  <2>2. S \subseteq DOMAIN disk
    BY <2>1 DEF OnDrive
  <2>3. IsFiniteSet(S) /\ \A n \in S : disk[n].bytes \in Nat
    BY <1>3, <1>4, <2>2, FS_Subset
  <2>4. FileSum(disk, S) \in Nat
    BY <2>3, FileSumRemove
  <2> QED BY <2>1, <2>4, BytesOfIs
<1>6. ledger \in [Drives -> Nat]
  BY EolAssumption DEF Init
<1>7. limit = [d \in Drives |-> ledger[d] + BytesOf(OnDrive(d))]
  BY DEF Init
<1>8. limit \in [Drives -> Nat]
  BY <1>5, <1>6, <1>7
<1>9. TypeOK
  <2>1. pc \in [Players -> Places] /\ reserved \in [Players -> Nat] /\ early \in [Players -> BOOLEAN]
    BY DEF Init, Places
  <2>2. \A p \in Players : probe[p].at \in DOMAIN TempDrives
    BY Consts DEF Init
  <2>3. /\ compress \in Modes /\ terminate \in BOOLEAN
        /\ phase \in {"reserve", "merge", "done", "fatal"}
    BY DEF Init
  <2> QED BY <1>3, <1>6, <1>8, <2>1, <2>2, <2>3 DEF TypeOK
<1>10. Untouched
  BY <1>3, <1>6, <1>7 DEF Untouched
<1>11. phase = "reserve" /\ \A p \in Players : pc[p] = "begin"
  BY DEF Init
<1> QED BY <1>1, <1>2, <1>9, <1>10, <1>11 DEF EolInv, Books

(* Every step keeps the invariant: the reservation by the main thread, a   *)
(* step of a player's thread, or one that moves no file and no byte.       *)
LEMMA NextEolInv ==
  ASSUME EolInv, [Next]_vars
  PROVE  EolInv'
<1>1. CASE ReserveOutputs
  BY <1>1, ReserveStep
<1>2. ASSUME NEW p \in Players, phase = "merge",
             mergePlayer(p) \/ CascadingMerge(p) \/ KWayMergeFiles(p)
      PROVE  EolInv'
  <2>1. PlayerNext(p)
    BY <1>2 DEF PlayerNext
  <2> QED BY <1>2, <2>1, ThreadStep
<1>3. CASE JoinThreads \/ Interrupt \/ Over \/ UNCHANGED vars
  BY <1>3, StillStep
<1> QED BY <1>1, <1>2, <1>3 DEF Next

(* The invariant holds in every reachable state.                           *)
THEOREM EolInvariant == Spec => []EolInv
<1>1. Init => EolInv
  BY InitEolInv
<1>2. EolInv /\ [Next]_vars => EolInv'
  BY NextEolInv
<1> QED BY <1>1, <1>2, PTL DEF Spec

(* Every variable keeps to its values, and a cascade that finds no room    *)
(* never looks past its last drive.                                        *)
THEOREM EolTypes == Spec => []TypeOK
<1>1. EolInv => TypeOK
  BY DEF EolInv
<1> QED BY <1>1, EolInvariant, PTL

----------------------------------------------------------------------------
(* The books when the threads are joined.                                  *)

(* A sum over players.                                                     *)
LEMMA SumOfPlayers ==
  ASSUME NEW f, NEW T \in SUBSET Players, \A p \in T : f[p] \in Int
  PROVE  Sum(f, T) = (IF White \in T THEN f[White] ELSE 0) + (IF Black \in T THEN f[Black] ELSE 0)
<1>1. IsFiniteSet(T)
  <2>1. IsFiniteSet({White} \cup {Black})
    BY FS_Singleton, FS_AddElement
  <2>2. Players = {White} \cup {Black}
    BY DEF Players
  <2> QED BY <2>1, <2>2, FS_Subset
<1>2. ASSUME NEW p \in T
      PROVE  Sum(f, T) = f[p] + Sum(f, T \ {p})
  BY <1>1, SumRemove
<1>3. ASSUME NEW p \in Players, p \in T
      PROVE  Sum(f, {p}) = f[p]
  <2>1. IsFiniteSet({p}) /\ \A q \in {p} : f[q] \in Int
    BY <1>3, FS_Singleton
  <2>2. Sum(f, {p}) = f[p] + Sum(f, {p} \ {p})
    <3>1. PICK S : S = {p}
      OBVIOUS
    <3>2. IsFiniteSet(S) /\ p \in S /\ \A q \in S : f[q] \in Int
      BY <2>1, <3>1
    <3>3. Sum(f, S) = f[p] + Sum(f, S \ {p})
      BY <3>2, SumRemove
    <3> QED BY <3>1, <3>3
  <2>3. {p} \ {p} = {} /\ Sum(f, {}) = 0
    BY SumEmpty
  <2> QED BY <1>3, <2>2, <2>3
<1>4. CASE White \in T /\ Black \in T
  <2>1. T \ {White} = {Black}
    BY <1>4, TwoPlayers
  <2>2. Sum(f, T) = f[White] + Sum(f, T \ {White}) /\ Sum(f, {Black}) = f[Black]
    BY <1>2, <1>3, <1>4, TwoPlayers
  <2> QED BY <1>4, <2>1, <2>2
<1>5. CASE White \in T /\ Black \notin T
  <2>1. T = {White}
    BY <1>5, TwoPlayers
  <2>2. Sum(f, {White}) = f[White] /\ f[White] \in Int
    BY <1>3, <1>5, TwoPlayers
  <2> QED BY <1>5, <2>1, <2>2
<1>6. CASE White \notin T /\ Black \in T
  <2>1. T = {Black}
    BY <1>6, TwoPlayers
  <2>2. Sum(f, {Black}) = f[Black] /\ f[Black] \in Int
    BY <1>3, <1>6, TwoPlayers
  <2> QED BY <1>6, <2>1, <2>2
<1>7. CASE White \notin T /\ Black \notin T
  <2>1. T = {}
    BY <1>7, TwoPlayers
  <2> QED BY <1>7, <2>1, SumEmpty
<1> QED BY <1>4, <1>5, <1>6, <1>7

(* A player that is done has nothing left but its output, and that is what *)
(* its account holds.                                                      *)
LEMMA PlayerDone ==
  ASSUME NEW p \in Players, TypeOK, Lists, PlayerOK(p), ReservedOK(p), pc[p] = "done"
  PROVE  /\ Own(p) \subseteq {Store(p)}
         /\ Store(p) \in DOMAIN disk => disk[Store(p)].drive = StoreDrive /\ Counted(p) \in Nat
         /\ \A d \in Drives : Charge(p, d) = IF Store(p) \in OnDrive(d) THEN Counted(p) ELSE 0
<1>1. stack[p] = <<>> /\ inputs[p] = <<>> /\ Settled(p)
  BY DEF PlayerOK, PlaceOK, Alone, Settled
<1>2. \A n \in Own(p) : n.kind # "input"
  <2>1. inputs[p] \in Seq(Names)
    BY DEF Lists
  <2>2. Range(inputs[p]) = {}
    BY <1>1, <2>1, RangeFacts
  <2> QED BY <2>2 DEF PlayerOK, InputsOK
<1>3. \A n \in Own(p) : n.kind # "temp"
  <2>1. pc[p] \in Alone
    BY DEF Alone
  <2> QED BY <1>1, <2>1, NoCallFacts
<1>4. ASSUME NEW n \in Own(p) PROVE n = Store(p) /\ disk[n].drive = StoreDrive
  <2>1. n \in Names /\ n.player = p
    BY PlayerFacts
  <2>2. n.kind = "store"
    BY <1>2, <1>3, <2>1, NameFacts
  <2>3. n.idx = 0 /\ disk[n].drive = StoreDrive
    BY <2>2 DEF PlayerOK, FilesOK, FileOK
  <2> QED BY <2>1, <2>2, <2>3, NameFacts
<1>5. Store(p) \in DOMAIN disk => disk[Store(p)].drive = StoreDrive /\ Counted(p) \in Nat
  <2>1. Store(p) \in DOMAIN disk => Store(p) \in Own(p)
    BY NameFacts DEF Own
  <2> QED BY <1>4, <2>1, ChargeTypes
<1>6. StoreCharge(p) = IF Store(p) \in DOMAIN disk THEN Counted(p) ELSE 0
  <2>1. reserved[p] = 0
    BY <1>1 DEF ReservedOK
  <2> QED BY <1>1, <1>5, <2>1 DEF StoreCharge
<1>7. ASSUME NEW d \in Drives
      PROVE  Charge(p, d) = IF Store(p) \in OnDrive(d) THEN Counted(p) ELSE 0
  <2>1. Booked(p, d) = {}
    BY <1>1, <1>2, NoCallBooked
  <2>2. BytesOf(Booked(p, d)) = 0
    BY <2>1, BytesOfIs, FileSumEmpty
  <2>3. Charge(p, d) = 0 + (IF d = StoreDrive THEN StoreCharge(p) ELSE 0)
                         + (IF d = TempDrives[probe[p].at] THEN 0 ELSE 0)
    BY <1>1, <2>2, NoCallBooked
  <2>4. Store(p) \in OnDrive(d) <=> Store(p) \in DOMAIN disk /\ d = StoreDrive
    BY <1>5 DEF OnDrive
  <2> QED BY <1>5, <1>6, <2>3, <2>4
<1> QED BY <1>4, <1>5, <1>7

(* When all is done the accounts are the outputs.                          *)
LEMMA DoneSettles ==
  ASSUME EolInv
  PROVE  LedgerSettles
<1> SUFFICES ASSUME phase = "done" PROVE
      /\ DOMAIN disk \subseteq {Store(p) : p \in Players}
      /\ \A d \in Drives :
           ledger[d] = limit[d] - SumFunctionOnSet([p \in Players |-> Counted(p)],
                                                   {p \in Players : Store(p) \in OnDrive(d)})
  BY DEF LedgerSettles
<1>1. /\ TypeOK /\ Lists /\ Balanced
      /\ \A p \in Players : PlayerOK(p) /\ ReservedOK(p) /\ pc[p] = "done"
  BY DEF EolInv, Books, Balanced
<1>2. \A p \in Players :
        /\ Own(p) \subseteq {Store(p)}
        /\ Store(p) \in DOMAIN disk => disk[Store(p)].drive = StoreDrive /\ Counted(p) \in Nat
        /\ \A d \in Drives : Charge(p, d) = IF Store(p) \in OnDrive(d) THEN Counted(p) ELSE 0
  BY <1>1, PlayerDone
<1>3. DOMAIN disk \subseteq {Store(p) : p \in Players}
  BY <1>1, <1>2, AllFiles, TwoPlayers
<1>4. ASSUME NEW d \in Drives
      PROVE  ledger[d] = limit[d] - SumFunctionOnSet([p \in Players |-> Counted(p)],
                                                     {p \in Players : Store(p) \in OnDrive(d)})
  <2> DEFINE T == {p \in Players : Store(p) \in OnDrive(d)}
             f == [p \in Players |-> Counted(p)]
  <2>1. \A p \in T : f[p] \in Int
    <3>1. \A p \in T : Counted(p) \in Nat
      BY <1>2 DEF OnDrive
    <3> QED BY <3>1
  <2>2. Sum(f, T) = (IF White \in T THEN f[White] ELSE 0) + (IF Black \in T THEN f[Black] ELSE 0)
    <3>1. T \in SUBSET Players
      OBVIOUS
    <3> HIDE DEF T, f
    <3> QED BY <2>1, <3>1, SumOfPlayers
  <2>3. /\ (IF White \in T THEN f[White] ELSE 0) = Charge(White, d)
        /\ (IF Black \in T THEN f[Black] ELSE 0) = Charge(Black, d)
    BY <1>2, TwoPlayers
  <2>4. /\ ledger[d] + Charge(White, d) + Charge(Black, d) = limit[d]
        /\ Charge(White, d) \in Nat /\ Charge(Black, d) \in Nat
        /\ ledger[d] \in Int /\ limit[d] \in Nat
    BY <1>1, ChargeTypes, TwoPlayers DEF Balanced, TypeOK
  <2>5. Sum(f, T) = Charge(White, d) + Charge(Black, d)
    BY <2>2, <2>3
  <2>6. ledger[d] = limit[d] - Sum(f, T)
    <3> HIDE DEF T, f
    <3> QED BY <2>4, <2>5
  <2> QED BY <2>6 DEF Sum
<1> QED BY <1>3, <1>4

(* When the threads are joined only the two outputs are left, and every    *)
(* ledger lost exactly the bytes of the outputs on its drive: whatever was *)
(* reserved, granted or reclaimed ahead has been given back once, also by  *)
(* a cascade that an interrupt cut short.                                  *)
THEOREM Settles == Spec => []LedgerSettles
<1>1. EolInv => LedgerSettles
  BY DoneSettles
<1> QED BY <1>1, EolInvariant, PTL

----------------------------------------------------------------------------
(* What a drive holds.                                                     *)

(* A player's files on a drive that no ledger knows of, the others, and    *)
(* among those the temporary being made and the output.                    *)
LeftOut(p, d) ==
  {n \in OwnOn(p, d) : \/ n.kind = "input" /\ d = StoreDrive
                       \/ n.kind = "temp" /\ stack[p] # <<>> /\ n \notin OuterTemps(p) /\ Depth(p) > 1
                       \/ n = Store(p) /\ Uncounted(p)
                       \/ n \in Going(p)}
Ledgered(p, d) == OwnOn(p, d) \ LeftOut(p, d)
Making(p, d) ==
  IF d = TempDrives[probe[p].at] /\ Depth(p) = 1 /\ MakingTemp(p) /\ pc[p] # "open"
  THEN {target[p]} ELSE {}
Out(p, d) == {n \in OwnOn(p, d) : n = Store(p) /\ ~Uncounted(p)}

(* By how much files outgrew what was granted for them.                    *)
Overs == [n \in DOMAIN disk |-> [bytes |-> disk[n].over]]

(* OverOn is a sum over the present directory.                             *)
LEMMA OverOnIs == \A d \in Drives : OverOn(d) = FileSum(Overs, OnDrive(d))
<1>1. ASSUME NEW d \in Drives PROVE OverOn(d) = FileSum(Overs, OnDrive(d))
  <2>1. [n \in OnDrive(d) |-> disk[n].over] = [n \in OnDrive(d) |-> Overs[n].bytes]
    BY DEF Overs, OnDrive
  <2> QED BY <2>1 DEF OverOn, FileSum
<1> QED BY <1>1

(* A file's size is what was granted for it and what it is over.           *)
LEMMA GrantedAndOver ==
  ASSUME NEW p \in Players, TypeOK, Lists, PlayerOK(p), NEW S \in SUBSET Own(p)
  PROVE  /\ FileSum(disk, S) = FileSum(Nets, S) + FileSum(Overs, S)
         /\ FileSum(Nets, S) \in Nat /\ FileSum(Overs, S) \in Nat /\ IsFiniteSet(S)
<1> DEFINE b == [n \in S |-> disk[n].bytes]
           g == [n \in S |-> Nets[n].bytes]
           o == [n \in S |-> Overs[n].bytes]
<1>1. IsFiniteSet(S)
  BY PlayerFacts, FS_Subset
<1>2. \A n \in S : /\ Nets[n].bytes = disk[n].bytes - disk[n].over /\ Nets[n].bytes \in Nat
                   /\ disk[n].bytes \in Nat /\ disk[n].over \in Nat
  BY NetFacts DEF PlayerOK
<1>3. \A n \in S : Overs[n].bytes = disk[n].over
  BY DEF Overs, Own
<1>4. \A n \in S : b[n] = g[n] + o[n] /\ b[n] \in Int /\ g[n] \in Int /\ o[n] \in Int
  BY <1>2, <1>3
<1>5. Sum(b, S) = Sum(g, S) + Sum(o, S)
  <2>1. b = [n \in S |-> g[n] + o[n]]
    BY <1>4
  <2> HIDE DEF b, g, o
  <2>2. Sum([n \in S |-> g[n] + o[n]], S) = Sum(g, S) + Sum(o, S)
    BY <1>1, <1>4, SumPlus
  <2> QED BY <2>1, <2>2
<1>6. FileSum(Nets, S) \in Nat
  BY <1>1, <1>2, FileSumRemove
<1>7. FileSum(Overs, S) \in Nat
  <2>1. \A n \in S : Overs[n].bytes \in Nat
    BY <1>2, <1>3
  <2> QED BY <1>1, <2>1, FileSumRemove
<1>8. FileSum(disk, S) = Sum(b, S) /\ FileSum(Nets, S) = Sum(g, S) /\ FileSum(Overs, S) = Sum(o, S)
  BY DEF FileSum, Sum
<1> QED BY <1>1, <1>5, <1>6, <1>7, <1>8

(* The files no ledger knows of are those of the two players.              *)
LEMMA UnledgeredSplit ==
  ASSUME TypeOK, Lists, \A p \in Players : PlayerOK(p), NEW d \in Drives
  PROVE  Unledgered(d) = LeftOut(White, d) \cup LeftOut(Black, d)
<1>1. ASSUME NEW p \in Players
      PROVE  LeftOut(p, d) = {n \in OnDrive(d) :
               /\ n.player = p
               /\ \/ n.kind = "input" /\ d = StoreDrive
                  \/ n.kind = "temp" /\ stack[p] # <<>> /\ \A call \in {stack[p][1]} :
                       /\ n \notin Range(call.temps)
                       /\ Depth(p) > 1
                  \/ n = Store(p) /\ Uncounted(p)
                  \/ pc[p] = "deleteTemp" /\ n = Head(Top(p).temps)
                  \/ pc[p] = "deleteInput" /\ n = Head(inputs[p])}
  <2>1. \A n : n \in OwnOn(p, d) <=> n \in OnDrive(d) /\ n.player = p
    BY DEF OwnOn, Own, OnDrive
  <2>2. \A n : n \in Going(p) <=> \/ pc[p] = "deleteTemp" /\ n = Head(Top(p).temps)
                                  \/ pc[p] = "deleteInput" /\ n = Head(inputs[p])
    BY DEF Going
  <2>3. stack[p] # <<>> => OuterTemps(p) = Range(stack[p][1].temps)
    BY DEF OuterTemps
  <2> QED BY <2>1, <2>2, <2>3 DEF LeftOut
<1> QED BY <1>1, TwoPlayers DEF Unledgered

(* A file the ledgers know of is booked, or it is the temporary being made *)
(* or the output.                                                          *)
LEMMA LedgeredFiles ==
  ASSUME NEW p \in Players, TypeOK, Lists, PlayerOK(p), NEW d \in Drives
  PROVE  Ledgered(p, d) \subseteq (Booked(p, d) \cup Making(p, d)) \cup Out(p, d)
<1>1. ASSUME NEW n \in Ledgered(p, d)
      PROVE  n \in (Booked(p, d) \cup Making(p, d)) \cup Out(p, d)
  <2>1. /\ n \in Own(p) /\ disk[n].drive = d /\ n \notin Going(p) /\ n \in OwnOn(p, d)
        /\ ~(n.kind = "input" /\ d = StoreDrive) /\ ~(n = Store(p) /\ Uncounted(p))
        /\ ~(n.kind = "temp" /\ stack[p] # <<>> /\ n \notin OuterTemps(p) /\ Depth(p) > 1)
    BY DEF Ledgered, LeftOut, OwnOn
  <2>2. n \in Names /\ n.player = p
    BY <2>1, PlayerFacts
  <2>3. CASE n.kind = "input"
    BY <2>1, <2>3 DEF Booked
  <2>4. CASE n.kind = "store"
    <3>1. n = Store(p)
      BY <2>1, <2>2, <2>4, NameFacts DEF PlayerOK, FilesOK, FileOK
    <3> QED BY <2>1, <3>1 DEF Out
  <2>5. CASE n.kind = "temp"
    <3>1. n \in TempsOf(p) \cup Started(p)
      BY <2>1, <2>5 DEF PlayerOK, CallsOK
    <3>2. stack[p] # <<>>
      <4>1. ASSUME stack[p] = <<>> PROVE FALSE
        <5>1. TempsOf(p) = {}
          BY <4>1, EmptySeq DEF TempsOf, Depth
        <5>2. MakingTemp(p)
          BY <3>1, <5>1 DEF Started
        <5>3. pc[p] \notin Within
          BY <4>1 DEF PlayerOK, PlaceOK
        <5>4. pc[p] \in {"open", "write"}
          BY <5>2, <5>3 DEF MakingTemp, Within
        <5>5. target[p] = Store(p)
          BY <4>1, <5>4 DEF PlayerOK, PlaceOK
        <5> QED BY <5>2, <5>5, NameFacts DEF MakingTemp
      <4> QED BY <4>1
    <3>3. CASE n \in OuterTemps(p)
      BY <2>1, <3>2, <3>3 DEF Booked
    <3>4. CASE n \notin OuterTemps(p)
      <4>1. Depth(p) = 1
        <5>1. Depth(p) \in Nat /\ Depth(p) >= 1
          BY <3>2, CallFacts
        <5>2. ~(Depth(p) > 1)
          BY <2>1, <2>5, <3>2, <3>4
        <5> QED BY <5>1, <5>2
      <4>2. TempsOf(p) = OuterTemps(p)
        <5>1. 1..Depth(p) = {1}
          BY <4>1
        <5> QED BY <3>2, <5>1 DEF TempsOf, OuterTemps
      <4>3. n \in Started(p)
        BY <3>1, <3>4, <4>2
      <4>4. MakingTemp(p) /\ pc[p] # "open" /\ n = target[p]
        BY <4>3 DEF Started
      <4>5. disk[target[p]].drive = TempDrives[probe[p].at]
        <5>1. pc[p] \in {"write", "temp"}
          BY <4>4 DEF MakingTemp
        <5> QED BY <4>1, <4>4, <5>1 DEF PlayerOK, GrantOK
      <4> QED BY <2>1, <4>1, <4>4, <4>5 DEF Making
    <3> QED BY <3>3, <3>4
  <2> QED BY <2>2, <2>3, <2>4, <2>5, NameFacts
<1> QED BY <1>1

(* One file takes its own size.                                            *)
LEMMA OneFile ==
  ASSUME NEW f, NEW n, f[n].bytes \in Nat
  PROVE  FileSum(f, {n}) = f[n].bytes
<1>1. IsFiniteSet({n}) /\ \A m \in {n} : f[m].bytes \in Nat
  BY FS_Singleton
<1>2. FileSum(f, {n}) = f[n].bytes + FileSum(f, {n} \ {n})
  <2>1. PICK S : S = {n}
    OBVIOUS
  <2>2. IsFiniteSet(S) /\ n \in S /\ \A m \in S : f[m].bytes \in Nat
    BY <1>1, <2>1
  <2>3. FileSum(f, S) = f[n].bytes + FileSum(f, S \ {n})
    BY <2>2, FileSumRemove
  <2> QED BY <2>1, <2>3
<1>3. {n} \ {n} = {} /\ FileSum(f, {}) = 0
  BY FileSumEmpty
<1> QED BY <1>2, <1>3

(* Files covered by three sets take no more than those three.              *)
LEMMA CoveredBy ==
  ASSUME NEW f, NEW N, IsFiniteSet(N), \A n \in N : f[n].bytes \in Nat,
         NEW L \in SUBSET N, NEW A \in SUBSET N, NEW B \in SUBSET N, NEW C \in SUBSET N,
         L \subseteq (A \cup B) \cup C
  PROVE  /\ FileSum(f, L) \in Nat /\ FileSum(f, A) \in Nat
         /\ FileSum(f, B) \in Nat /\ FileSum(f, C) \in Nat
         /\ FileSum(f, L) <= FileSum(f, A) + FileSum(f, B) + FileSum(f, C)
<1>1. \A T \in SUBSET N : IsFiniteSet(T) /\ FileSum(f, T) \in Nat
  BY FS_Subset, FileSumPart
<1>2. FileSum(f, A \cup B) <= FileSum(f, A) + FileSum(f, B)
  <2>1. \A n \in A \cup B : f[n].bytes \in Nat
    OBVIOUS
  <2> QED BY <1>1, <2>1, FileSumUnion
<1>3. PICK D : D = A \cup B
  OBVIOUS
<1>4. IsFiniteSet(D) /\ D \in SUBSET N /\ FileSum(f, D) <= FileSum(f, A) + FileSum(f, B)
  BY <1>1, <1>2, <1>3
<1>5. FileSum(f, D \cup C) <= FileSum(f, D) + FileSum(f, C)
  <2>1. \A n \in D \cup C : f[n].bytes \in Nat
    BY <1>4
  <2> QED BY <1>1, <1>4, <2>1, FileSumUnion
<1>6. PICK E : E = D \cup C
  OBVIOUS
<1>7. IsFiniteSet(E) /\ E \in SUBSET N /\ L \subseteq E /\ \A n \in E : f[n].bytes \in Nat
  BY <1>1, <1>3, <1>4, <1>6
<1>8. FileSum(f, L) <= FileSum(f, E)
  BY <1>7, FileSumPart
<1>9. /\ FileSum(f, L) \in Nat /\ FileSum(f, A) \in Nat /\ FileSum(f, B) \in Nat
      /\ FileSum(f, C) \in Nat /\ FileSum(f, D) \in Nat /\ FileSum(f, E) \in Nat
  BY <1>1, <1>4, <1>7
<1>10. FileSum(f, L) <= FileSum(f, A) + FileSum(f, B) + FileSum(f, C)
  BY <1>4, <1>5, <1>6, <1>8, <1>9
<1> QED BY <1>9, <1>10

(* The temporary being made takes what was granted and what it is over.    *)
LEMMA MakingFits ==
  ASSUME NEW p \in Players, TypeOK, Lists, PlayerOK(p), NEW d \in Drives
  PROVE  /\ Making(p, d) \subseteq Own(p)
         /\ FileSum(Nets, Making(p, d)) <= IF d = TempDrives[probe[p].at] THEN Grant(p) ELSE 0
<1>1. Grant(p) \in Nat
  BY ChargeTypes
<1>2. CASE Making(p, d) = {}
  BY <1>1, <1>2, FileSumEmpty
<1>3. CASE Making(p, d) # {}
  <2>1. /\ d = TempDrives[probe[p].at] /\ Depth(p) = 1 /\ MakingTemp(p) /\ pc[p] # "open"
        /\ Making(p, d) = {target[p]}
    BY <1>3 DEF Making
  <2>2. pc[p] \in {"write", "temp"}
    BY <2>1 DEF MakingTemp
  <2>3. target[p] \in Own(p)
    BY <2>1 DEF PlayerOK, PlaceOK
  <2>4. stack[p] # <<>>
    <3>1. stack[p] = <<>> => Depth(p) = 0
      BY CallFacts
    <3> QED BY <2>1, <3>1
  <2>5. Bytes(target[p]) <= Grant(p) + disk[target[p]].over
    BY <2>1, <2>2, <2>4 DEF PlayerOK, GrantOK, Grant
  <2>6. PICK b \in Nat, o \in Nat, m \in Nat :
          b = disk[target[p]].bytes /\ o = disk[target[p]].over /\ m = Nets[target[p]].bytes /\ m = b - o
    BY <2>3, NetFacts DEF PlayerOK
  <2>7. FileSum(Nets, {target[p]}) = m
    BY <2>6, OneFile
  <2>8. m <= Grant(p)
    BY <1>1, <2>5, <2>6 DEF Bytes
  <2> QED BY <2>1, <2>3, <2>7, <2>8
<1> QED BY <1>2, <1>3

(* The output takes what its account says and what it is over; the account *)
(* is no more than that.                                                   *)
LEMMA OutFits ==
  ASSUME NEW p \in Players, TypeOK, Lists, PlayerOK(p), ReservedOK(p), NEW d \in Drives
  PROVE  /\ FileSum(Nets, Out(p, d)) <= IF d = StoreDrive THEN NetStore(p) ELSE 0
         /\ (IF d = StoreDrive THEN StoreCharge(p) ELSE 0)
              <= (IF d = StoreDrive THEN NetStore(p) ELSE 0) + FileSum(Overs, Out(p, d))
<1>1. reserved[p] \in Nat /\ NetStore(p) \in Nat /\ StoreCharge(p) \in Nat
  BY ChargeTypes
<1>2. Out(p, d) \subseteq {Store(p)}
  BY DEF Out
<1>3. CASE Out(p, d) = {}
  <2>1. FileSum(Nets, Out(p, d)) = 0 /\ FileSum(Overs, Out(p, d)) = 0
    BY <1>3, FileSumEmpty
  <2>2. d = StoreDrive => StoreCharge(p) = NetStore(p)
    <3>1. ASSUME d = StoreDrive, Store(p) \in DOMAIN disk PROVE Uncounted(p)
      <4>1. Store(p) \in Own(p) /\ disk[Store(p)].drive = StoreDrive
        BY <3>1, StoreIsOwn, NameFacts DEF PlayerOK, FilesOK, FileOK
      <4>2. Store(p) \in OwnOn(p, d)
        BY <3>1, <4>1 DEF OwnOn
      <4> QED BY <1>3, <4>2 DEF Out
    <3> QED BY <3>1 DEF StoreCharge, NetStore, Counted
  <2> QED BY <1>1, <2>1, <2>2
<1>4. CASE Out(p, d) # {}
  <2>1. Out(p, d) = {Store(p)}
    BY <1>2, <1>4
  <2>2. Store(p) \in Own(p) /\ disk[Store(p)].drive = d /\ ~Uncounted(p)
    BY <2>1 DEF Out, OwnOn
  <2>3. d = StoreDrive /\ Store(p) \in DOMAIN disk
    BY <2>2, StoreIsOwn, NameFacts DEF PlayerOK, FilesOK, FileOK
  <2>4. PICK b \in Nat, o \in Nat, m \in Nat :
          b = disk[Store(p)].bytes /\ o = disk[Store(p)].over /\ m = Nets[Store(p)].bytes /\ m = b - o
    BY <2>2, NetFacts DEF PlayerOK
  <2>5. FileSum(Nets, {Store(p)}) = m /\ Overs[Store(p)].bytes = o
    BY <2>3, <2>4, OneFile DEF Overs
  <2>6. FileSum(Overs, {Store(p)}) = o
    BY <2>4, <2>5, OneFile
  <2>7. CASE Settled(p)
    <3>1. NetStore(p) = reserved[p] + (b - o) /\ StoreCharge(p) = reserved[p] + b
      BY <2>2, <2>3, <2>4, <2>7 DEF NetStore, StoreCharge, Counted, Bytes
    <3> QED BY <1>1, <2>1, <2>3, <2>4, <2>5, <2>6, <3>1
  <2>8. CASE ~Settled(p)
    <3>1. NetStore(p) = reserved[p] + 0 /\ StoreCharge(p) = reserved[p] + 0
      BY <2>8 DEF NetStore, StoreCharge
    <3>2. b <= reserved[p] + o
      BY <2>2, <2>4, <2>8 DEF ReservedOK, Bytes
    <3> QED BY <1>1, <2>1, <2>3, <2>4, <2>5, <2>6, <3>1, <3>2
  <2> QED BY <2>7, <2>8
<1> QED BY <1>3, <1>4

(* On each drive the files the ledgers know of were granted no more than   *)
(* the account says, and the account is no more than was granted and what  *)
(* the player's files there are over.                                      *)
LEMMA LedgeredFit ==
  ASSUME NEW p \in Players, TypeOK, Lists, PlayerOK(p), ReservedOK(p), NEW d \in Drives
  PROVE  /\ FileSum(Nets, Ledgered(p, d)) <= Net(p, d)
         /\ Charge(p, d) <= Net(p, d) + FileSum(Overs, OwnOn(p, d))
<1>1. PICK L, B, M, O, W : /\ L = Ledgered(p, d) /\ B = Booked(p, d) /\ M = Making(p, d)
                           /\ O = Out(p, d) /\ W = OwnOn(p, d)
  OBVIOUS
<1>2. /\ L \subseteq (B \cup M) \cup O
      /\ L \in SUBSET Own(p) /\ B \in SUBSET Own(p) /\ M \in SUBSET Own(p)
      /\ O \in SUBSET Own(p) /\ W \in SUBSET Own(p)
  <2>1. L \subseteq Own(p) /\ B \subseteq Own(p) /\ O \subseteq Own(p) /\ W \subseteq Own(p)
    BY <1>1 DEF Ledgered, Booked, Out, OwnOn
  <2> QED BY <1>1, <2>1, LedgeredFiles, MakingFits
<1>3. PICK g \in Nat, s \in Nat, c \in Nat :
        /\ g = IF d = TempDrives[probe[p].at] THEN Grant(p) ELSE 0
        /\ s = IF d = StoreDrive THEN NetStore(p) ELSE 0
        /\ c = IF d = StoreDrive THEN StoreCharge(p) ELSE 0
  BY ChargeTypes
<1>4. Net(p, d) = FileSum(Nets, B) + s + g /\ Charge(p, d) = FileSum(disk, B) + c + g
  BY <1>1, <1>3, BytesOfIs, NetOfIs DEF Net, Charge
<1>5. FileSum(Nets, M) <= g /\ FileSum(Nets, O) <= s /\ c <= s + FileSum(Overs, O)
  BY <1>1, <1>3, MakingFits, OutFits
<1>6. /\ FileSum(Nets, L) \in Nat /\ FileSum(Nets, B) \in Nat
      /\ FileSum(Nets, M) \in Nat /\ FileSum(Nets, O) \in Nat
      /\ FileSum(Nets, L) <= FileSum(Nets, B) + FileSum(Nets, M) + FileSum(Nets, O)
  <2>1. IsFiniteSet(Own(p)) /\ \A n \in Own(p) : Nets[n].bytes \in Nat
    BY NetFacts DEF PlayerOK, FilesOK
  <2>2. PICK N : N = Own(p)
    OBVIOUS
  <2>3. /\ IsFiniteSet(N) /\ \A n \in N : Nets[n].bytes \in Nat
        /\ L \in SUBSET N /\ B \in SUBSET N /\ M \in SUBSET N /\ O \in SUBSET N
    BY <1>2, <2>1, <2>2
  <2> QED BY <1>2, <2>3, CoveredBy
<1>7. FileSum(Nets, L) <= Net(p, d)
  BY <1>3, <1>4, <1>5, <1>6
<1>8. FileSum(disk, B) = FileSum(Nets, B) + FileSum(Overs, B)
  BY <1>2, GrantedAndOver
<1>9. /\ FileSum(Overs, B) \in Nat /\ FileSum(Overs, O) \in Nat /\ FileSum(Overs, W) \in Nat
      /\ IsFiniteSet(B) /\ IsFiniteSet(O) /\ IsFiniteSet(W)
  BY <1>2, GrantedAndOver
<1>10. FileSum(Overs, B) + FileSum(Overs, O) <= FileSum(Overs, W)
  <2>1. B \subseteq W /\ O \subseteq W
    BY <1>1 DEF Booked, Out, OwnOn
  <2>2. B \cap O = {}
    <3>1. \A n \in O : n = Store(p)
      BY <1>1 DEF Out
    <3>2. \A n \in OuterTemps(p) : n.kind = "temp"
      BY OuterFacts
    <3>3. \A n \in B : n.kind = "input" \/ n.kind = "temp"
      BY <1>1, <3>2 DEF Booked
    <3> QED BY <3>1, <3>3, NameFacts
  <2>3. \A n \in W : Overs[n].bytes \in Nat
    <3>1. \A n \in W : n \in DOMAIN disk /\ disk[n].over \in Nat
      BY <1>2, NetFacts DEF PlayerOK, Own
    <3> QED BY <3>1 DEF Overs
  <2>4. FileSum(Overs, B \cup O) = FileSum(Overs, B) + FileSum(Overs, O)
    <3>1. \A n \in B \cup O : Overs[n].bytes \in Nat
      BY <2>1, <2>3
    <3> QED BY <1>9, <2>2, <3>1, FileSumDisjoint
  <2>5. FileSum(Overs, B \cup O) <= FileSum(Overs, W)
    <3>1. PICK T : T = B \cup O
      OBVIOUS
    <3>2. T \in SUBSET W
      BY <2>1, <3>1
    <3>3. FileSum(Overs, T) <= FileSum(Overs, W)
      BY <1>9, <2>3, <3>2, FileSumPart
    <3> QED BY <3>1, <3>3
  <2> QED BY <2>4, <2>5
<1>11. Charge(p, d) <= Net(p, d) + FileSum(Overs, W)
  BY <1>3, <1>4, <1>5, <1>6, <1>8, <1>9, <1>10
<1> QED BY <1>1, <1>7, <1>11

(* So a player's files on a drive take no more than those left out, what   *)
(* was granted and what they are over.                                     *)
LEMMA OwnFit ==
  ASSUME NEW p \in Players, TypeOK, Lists, PlayerOK(p), ReservedOK(p), NEW d \in Drives
  PROVE  /\ FileSum(disk, OwnOn(p, d)) \in Nat /\ FileSum(disk, LeftOut(p, d)) \in Nat
         /\ FileSum(Overs, OwnOn(p, d)) \in Nat
         /\ FileSum(disk, OwnOn(p, d))
              <= FileSum(disk, LeftOut(p, d)) + Net(p, d) + FileSum(Overs, OwnOn(p, d))
<1>1. PICK L, U, W : L = Ledgered(p, d) /\ U = LeftOut(p, d) /\ W = OwnOn(p, d)
  OBVIOUS
<1>2. L \cup U = W /\ L \cap U = {} /\ W \in SUBSET Own(p) /\ L \in SUBSET W /\ U \in SUBSET W
  BY <1>1 DEF Ledgered, LeftOut, OwnOn
<1>3. /\ IsFiniteSet(L) /\ IsFiniteSet(U) /\ IsFiniteSet(W)
      /\ FileSum(disk, L) = FileSum(Nets, L) + FileSum(Overs, L)
      /\ FileSum(Nets, L) \in Nat /\ FileSum(Overs, L) \in Nat /\ FileSum(Overs, W) \in Nat
  <2>1. L \in SUBSET Own(p) /\ U \in SUBSET Own(p)
    BY <1>2
  <2> QED BY <1>2, <2>1, GrantedAndOver
<1>4. \A n \in W : disk[n].bytes \in Nat /\ Overs[n].bytes \in Nat
  <2>1. \A n \in W : n \in DOMAIN disk /\ disk[n].bytes \in Nat /\ disk[n].over \in Nat
    BY <1>2, NetFacts DEF PlayerOK, Own
  <2> QED BY <2>1 DEF Overs
<1>5. FileSum(disk, L \cup U) = FileSum(disk, L) + FileSum(disk, U)
  <2>1. \A n \in L \cup U : disk[n].bytes \in Nat
    BY <1>2, <1>4
  <2> QED BY <1>2, <1>3, <2>1, FileSumDisjoint
<1>6. FileSum(disk, W) = FileSum(disk, L) + FileSum(disk, U)
  BY <1>2, <1>5
<1>7. FileSum(disk, U) \in Nat /\ FileSum(Overs, L) <= FileSum(Overs, W)
  <2>1. FileSum(disk, U) \in Nat
    BY <1>2, <1>3, <1>4, FileSumPart
  <2>2. FileSum(Overs, L) <= FileSum(Overs, W)
    BY <1>2, <1>3, <1>4, FileSumPart
  <2> QED BY <2>1, <2>2
<1>8. FileSum(Nets, L) <= Net(p, d) /\ Net(p, d) \in Nat
  BY <1>1, LedgeredFit, ChargeTypes
<1>9. FileSum(disk, W) \in Nat
  BY <1>3, <1>6, <1>7
<1>10. FileSum(disk, W) <= FileSum(disk, U) + Net(p, d) + FileSum(Overs, W)
  BY <1>3, <1>6, <1>7, <1>8
<1> QED BY <1>1, <1>3, <1>7, <1>9, <1>10

(* What is on a drive, unledgered or over there is so of the two players.  *)
LEMMA BothPlayers ==
  ASSUME TypeOK, Lists, \A p \in Players : PlayerOK(p), NEW d \in Drives
  PROVE  /\ BytesOf(OnDrive(d)) = FileSum(disk, OwnOn(White, d)) + FileSum(disk, OwnOn(Black, d))
         /\ BytesOf(Unledgered(d)) = FileSum(disk, LeftOut(White, d)) + FileSum(disk, LeftOut(Black, d))
         /\ OverOn(d) = FileSum(Overs, OwnOn(White, d)) + FileSum(Overs, OwnOn(Black, d))
<1>1. PICK V, W, X, Y : /\ V = LeftOut(White, d) /\ W = LeftOut(Black, d)
                        /\ X = OwnOn(White, d) /\ Y = OwnOn(Black, d)
  OBVIOUS
<1>2. /\ V \subseteq X /\ W \subseteq Y /\ X \subseteq Own(White) /\ Y \subseteq Own(Black)
  BY <1>1 DEF LeftOut, OwnOn
<1>3. /\ X \cap Y = {} /\ V \cap W = {} /\ X \cup Y = OnDrive(d)
      /\ IsFiniteSet(V) /\ IsFiniteSet(W) /\ IsFiniteSet(X) /\ IsFiniteSet(Y)
  <2>1. /\ DOMAIN disk = Own(White) \cup Own(Black) /\ Own(White) \cap Own(Black) = {}
        /\ IsFiniteSet(DOMAIN disk)
    BY AllFiles
  <2>2. X \cup Y = OnDrive(d)
    BY <1>1, <2>1 DEF OwnOn, OnDrive
  <2>3. IsFiniteSet(V) /\ IsFiniteSet(W) /\ IsFiniteSet(X) /\ IsFiniteSet(Y)
    BY <1>2, <2>1, FS_Subset
  <2> QED BY <1>2, <2>1, <2>2, <2>3
<1>4. \A n \in X \cup Y : disk[n].bytes \in Nat /\ Overs[n].bytes \in Nat
  <2>1. X \cup Y \subseteq DOMAIN disk
    BY <1>2 DEF Own
  <2> QED BY <2>1 DEF TypeOK, Overs
<1>5. FileSum(disk, V \cup W) = FileSum(disk, V) + FileSum(disk, W)
  <2>1. \A n \in V \cup W : disk[n].bytes \in Nat
    BY <1>2, <1>4
  <2> QED BY <1>3, <2>1, FileSumDisjoint
<1>6. FileSum(Overs, X \cup Y) = FileSum(Overs, X) + FileSum(Overs, Y)
  BY <1>3, <1>4, FileSumDisjoint
<1>7. OverOn(d) = FileSum(Overs, X) + FileSum(Overs, Y)
  BY <1>3, <1>6, OverOnIs
<1>8. BytesOf(OnDrive(d)) = FileSum(disk, X) + FileSum(disk, Y)
  BY <1>1, DriveSplit, BytesOfIs
<1>9. BytesOf(Unledgered(d)) = FileSum(disk, V) + FileSum(disk, W)
  BY <1>1, <1>5, UnledgeredSplit, BytesOfIs
<1> QED BY <1>1, <1>7, <1>8, <1>9

(* Where no file is over the drive is not.                                 *)
LEMMA NoneOver ==
  ASSUME TypeOK, Lists, \A p \in Players : PlayerOK(p), \A n \in DOMAIN disk : disk[n].over = 0,
         NEW d \in Drives
  PROVE  OverOn(d) = 0
<1>1. PICK S : S = OnDrive(d)
  OBVIOUS
<1>2. IsFiniteSet(S) /\ S \subseteq DOMAIN disk
  BY <1>1, AllFiles, FS_Subset DEF OnDrive
<1>3. PICK z : z = [n \in S |-> 0]
  OBVIOUS
<1>4. \A T \in SUBSET S : Sum(z, T) = 0
  <2> DEFINE Good == {T \in SUBSET S : Sum(z, T) = 0}
  <2>1. {} \in Good
    BY SumEmpty
  <2>2. ASSUME NEW T \in SUBSET S, T # {}, \A x \in T : T \ {x} \in Good PROVE T \in Good
    <3>1. PICK x : x \in T
      BY <2>2
    <3>2. IsFiniteSet(T) /\ z[x] = 0 /\ \A y \in T : z[y] \in Int
      BY <1>2, <1>3, <3>1, FS_Subset
    <3>3. Sum(z, T) = z[x] + Sum(z, T \ {x})
      BY <3>1, <3>2, SumRemove
    <3>4. Sum(z, T \ {x}) = 0
      BY <2>2, <3>1
    <3> QED BY <3>2, <3>3, <3>4
  <2>3. \A T \in SUBSET S : T \in Good
    <3> HIDE DEF Good
    <3> QED BY <1>2, <2>1, <2>2, FiniteInduction
  <2> QED BY <2>3
<1>5. [n \in OnDrive(d) |-> disk[n].over] = z
  BY <1>1, <1>2, <1>3
<1>6. Sum(z, S) = 0
  BY <1>4
<1> QED BY <1>1, <1>5, <1>6 DEF OverOn, Sum

(* The accounts of both players bound what a drive holds.                  *)
LEMMA BooksBoundDrives ==
  ASSUME EolInv
  PROVE  OvershootBounded
<1>1. TypeOK /\ Lists /\ (\A p \in Players : PlayerOK(p)) /\ (Untouched \/ Balanced)
  BY DEF EolInv, Books
<1> DEFINE Bound(d) == /\ BytesOf(OnDrive(d)) <= limit[d] + BytesOf(Unledgered(d)) + OverOn(d)
                       /\ ledger[d] >= 0 - OverOn(d)
                       /\ compress = "none" => OverOn(d) = 0
<1>2. ASSUME NEW d \in Drives, Untouched PROVE Bound(d)
  <2>1. OverOn(d) = 0
    BY <1>1, <1>2, NoneOver DEF Untouched
  <2>2. PICK s \in Nat, u \in Nat : s = BytesOf(OnDrive(d)) /\ u = BytesOf(Unledgered(d))
    <3>1. BytesOf(OnDrive(d)) \in Nat
      BY <1>1, DriveSplit
    <3>2. BytesOf(Unledgered(d)) \in Nat
      <4>1. IsFiniteSet(Unledgered(d)) /\ Unledgered(d) \subseteq DOMAIN disk
        BY <1>1, AllFiles, FS_Subset DEF Unledgered, OnDrive
      <4>2. \A n \in Unledgered(d) : disk[n].bytes \in Nat
        BY <1>1, <4>1 DEF TypeOK
      <4> QED BY <4>1, <4>2, FileSumRemove, BytesOfIs
    <3> QED BY <3>1, <3>2
  <2>3. ledger[d] + s = limit[d] /\ ledger[d] >= 0 /\ ledger[d] \in Int
    BY <1>1, <1>2, <2>2 DEF Untouched, TypeOK
  <2> QED BY <2>1, <2>2, <2>3
<1>3. ASSUME NEW d \in Drives, Balanced PROVE Bound(d)
  <2>1. PICK ww, wb, uw, ub, ow, ob :
          /\ ww = FileSum(disk, OwnOn(White, d)) /\ wb = FileSum(disk, OwnOn(Black, d))
          /\ uw = FileSum(disk, LeftOut(White, d)) /\ ub = FileSum(disk, LeftOut(Black, d))
          /\ ow = FileSum(Overs, OwnOn(White, d)) /\ ob = FileSum(Overs, OwnOn(Black, d))
    OBVIOUS
  <2>2. PICK cw \in Nat, cb \in Nat, nw \in Nat, nb \in Nat :
          /\ cw = Charge(White, d) /\ cb = Charge(Black, d) /\ nw = Net(White, d) /\ nb = Net(Black, d)
    BY <1>1, ChargeTypes, TwoPlayers
  <2>3. /\ ww \in Nat /\ uw \in Nat /\ ow \in Nat /\ ww <= uw + nw + ow /\ cw <= nw + ow
    BY <1>1, <1>3, <2>1, <2>2, OwnFit, LedgeredFit, TwoPlayers DEF Balanced
  <2>4. /\ wb \in Nat /\ ub \in Nat /\ ob \in Nat /\ wb <= ub + nb + ob /\ cb <= nb + ob
    BY <1>1, <1>3, <2>1, <2>2, OwnFit, LedgeredFit, TwoPlayers DEF Balanced
  <2>5. /\ BytesOf(OnDrive(d)) = ww + wb /\ BytesOf(Unledgered(d)) = uw + ub /\ OverOn(d) = ow + ob
    BY <1>1, <2>1, BothPlayers
  <2>6. /\ ledger[d] + cw + cb = limit[d] /\ nw + nb <= limit[d]
        /\ ledger[d] \in Int /\ limit[d] \in Nat
    BY <1>1, <1>3, <2>2 DEF Balanced, TypeOK
  <2>7. PICK l \in Int, m \in Nat : l = ledger[d] /\ m = limit[d]
    BY <2>6
  <2>8. l + cw + cb = m /\ nw + nb <= m
    BY <2>6, <2>7
  <2>9. ww + wb <= m + (uw + ub) + (ow + ob)
    BY <2>2, <2>3, <2>4, <2>7, <2>8
  <2>10. l >= 0 - (ow + ob)
    BY <2>2, <2>3, <2>4, <2>7, <2>8
  <2>11. compress = "none" => OverOn(d) = 0
    <3>1. ASSUME compress = "none" PROVE \A n \in DOMAIN disk : disk[n].over = 0
      <4>1. \A p \in Players : \A n \in Own(p) : disk[n].over = 0
        BY <1>3, <3>1 DEF Balanced, ReservedOK
      <4>2. DOMAIN disk = Own(White) \cup Own(Black)
        BY <1>1, AllFiles
      <4> QED BY <4>1, <4>2, TwoPlayers
    <3> QED BY <1>1, <3>1, NoneOver
  <2>12. /\ BytesOf(OnDrive(d)) <= limit[d] + BytesOf(Unledgered(d)) + OverOn(d)
         /\ ledger[d] >= 0 - OverOn(d)
    BY <2>5, <2>7, <2>9, <2>10
  <2> QED BY <2>11, <2>12
<1>4. \A d \in Drives : Bound(d)
  BY <1>1, <1>2, <1>3
<1> QED BY <1>4 DEF OvershootBounded

(* In every mode of compression a drive holds no more than its limit, the  *)
(* files no ledger knows of and what files outgrew the bytes granted for   *)
(* them by, and no ledger is overdrawn by more than the latter; without    *)
(* compression no file outgrows its grant. Whichever player wrote what, in *)
(* whatever order the threads look, reserve, write, reclaim and delete.    *)
THEOREM Overshoot == Spec => []OvershootBounded
<1>1. EolInv => OvershootBounded
  BY BooksBoundDrives
<1> QED BY <1>1, EolInvariant, PTL

----------------------------------------------------------------------------
(* The boards. Until an interrupt those of a player's inputs are in every  *)
(* list the cascade works on, and nothing else is on his drives.           *)

(* No reader is refused for want of a handle.                              *)
HandlesSuffice ==
  \A p \in Players : pc[p] = "open" /\ queue[p] # <<>> => OpenFiles < MaxHandles

Gathering == {"begin", "cascade", "probe", "claim", "open", "write", "temp"}
Gathered == {"single", "unwind", "deleteTemp", "settle", "inputs", "deleteInput"}

(* What is being merged: a group, the only input, or all files of the call.*)
Source(p) == IF MakingTemp(p) THEN Range(Group(p, probe[p].count))
             ELSE IF stack[p] = <<>> THEN Range(inputs[p]) ELSE Range(Top(p).ins)

(* A call's inputs hold all boards of the level, its temporaries those of  *)
(* the inputs it has passed.                                               *)
Passed(call) == {call.ins[i] : i \in 1..call.pos}
CallHeld(p, k) ==
  /\ BoardsOf(Range(inputs[p])) \subseteq BoardsOf(Range(stack[p][k].ins))
  /\ BoardsOf(Passed(stack[p][k])) \subseteq BoardsOf(Range(stack[p][k].temps))

GroupHeld(p) ==
  /\ pc[p] \in {"open", "write"} => BoardsOf(Source(p)) \subseteq BoardsOf(Range(queue[p]) \cup readers[p])
  /\ pc[p] = "write" => queue[p] = <<>>
  /\ pc[p] = "temp" => BoardsOf(Source(p)) \subseteq disk[target[p]].boards

HeldOK(p) ==
  /\ \A n \in Own(p) : disk[n].closed <=> ~(pc[p] = "write" /\ n = target[p])
  /\ pc[p] \in Gathering =>
       /\ BoardsOf(Own(p)) \subseteq BoardsOf(Range(inputs[p]))
       /\ \A k \in 1..Depth(p) : CallHeld(p, k)
       /\ GroupHeld(p)
  /\ pc[p] \in Gathered => BoardsOf(Own(p)) \subseteq disk[Store(p)].boards

BoardsHeld == ~terminate => \A p \in Players : HeldOK(p)

(* The step of a player keeps his boards and what is said of them.         *)
Carried(p) == HeldOK(p)' /\ OnDisk(p)' = OnDisk(p)

(* If some complete files hold all there is, they hold what is on disk.    *)
LEMMA ClosedBoards ==
  ASSUME NEW f, NEW p \in Players, NEW T,
         \A n \in T : n \in DOMAIN f /\ n.player = p /\ f[n].closed,
         \A n \in DOMAIN f : n.player = p /\ f[n].closed => f[n].boards \subseteq BoardsIn(f, T)
  PROVE  UNION {f[n].boards : n \in {m \in DOMAIN f : m.player = p /\ f[m].closed}} = BoardsIn(f, T)
BY DEF BoardsIn

(* The files of a call and their kinds.                                    *)
LEMMA CallFiles ==
  ASSUME NEW p \in Players, Lists, PlayerOK(p), NEW k \in 1..Depth(p)
  PROVE  /\ stack[p][k].ins \in Seq(Names) /\ stack[p][k].temps \in Seq(Names)
         /\ stack[p][k].pos \in Nat /\ stack[p][k].pos <= Len(stack[p][k].ins)
         /\ Range(stack[p][k].ins) \subseteq Own(p) /\ Range(stack[p][k].temps) \subseteq Own(p)
         /\ Passed(stack[p][k]) \subseteq Range(stack[p][k].ins)
         /\ Range(stack[p][k].temps) \subseteq TempsOf(p)
         /\ Range(stack[p][k].ins) \subseteq Range(inputs[p]) \cup TempsOf(p)
<1>1. PICK call \in Calls : call = stack[p][k]
  BY CallFacts
<1>2. call.ins \in Seq(Names) /\ call.temps \in Seq(Names) /\ call.pos \in Nat
  BY DEF Calls
<1>3. /\ call.pos <= Len(call.ins) /\ \A n \in Range(call.temps) : n \in Own(p)
      /\ call.ins = IF k = 1 THEN inputs[p] ELSE stack[p][k - 1].temps
  BY <1>1 DEF PlayerOK, CallsOK, CallOK
<1>4. Range(call.temps) \subseteq TempsOf(p)
  BY <1>1 DEF TempsOf
<1>5. /\ Range(call.ins) \subseteq Own(p)
      /\ Range(call.ins) \subseteq Range(inputs[p]) \cup TempsOf(p)
  <2>1. CASE k = 1
    BY <1>3, <2>1 DEF PlayerOK, InputsOK
  <2>2. CASE k # 1
    <3>1. k - 1 \in 1..Depth(p) /\ call.ins = stack[p][k - 1].temps
      BY <1>3, <2>2, CallFacts
    <3>2. \A n \in Range(stack[p][k - 1].temps) : n \in Own(p) /\ n \in TempsOf(p)
      BY <3>1 DEF PlayerOK, CallsOK, CallOK, TempsOf
    <3> QED BY <3>1, <3>2
  <2> QED BY <2>1, <2>2
<1>6. Passed(call) \subseteq Range(call.ins)
  <2>1. \A i \in 1..call.pos : i \in 1..Len(call.ins)
    <3>1. Len(call.ins) \in Nat
      BY <1>2, LenProperties
    <3> QED BY <1>2, <1>3, <3>1
  <2>2. \A i \in 1..Len(call.ins) : call.ins[i] \in Range(call.ins)
    BY <1>2, RangeFacts
  <2> QED BY <2>1, <2>2 DEF Passed
<1> QED BY <1>1, <1>2, <1>3, <1>4, <1>5, <1>6

(* What is merged are files of the player.                                 *)
LEMMA SourceIsOwn ==
  ASSUME NEW p \in Players, TypeOK, Lists, PlayerOK(p), pc[p] \in {"open", "write", "temp"}
  PROVE  Source(p) \subseteq Own(p)
<1>1. CASE MakingTemp(p)
  <2>1. /\ Top(p).pos + probe[p].count <= Len(Top(p).ins) /\ probe[p].count \in Nat
        /\ stack[p] # <<>>
    BY <1>1, NameFacts DEF PlayerOK, PlaceOK, MakingTemp, Lists, Probes, Within
  <2> QED BY <1>1, <2>1, GroupIsOwn DEF Source
<1>2. CASE ~MakingTemp(p) /\ stack[p] = <<>>
  BY <1>2 DEF Source, PlayerOK, InputsOK
<1>3. CASE ~MakingTemp(p) /\ stack[p] # <<>>
  BY <1>3, GroupIsOwn DEF Source
<1> QED BY <1>1, <1>2, <1>3

(* What is on disk are the boards of the inputs, then those of the output. *)
LEMMA OnDiskIs ==
  ASSUME NEW p \in Players, TypeOK, Lists, PlayerOK(p), HeldOK(p)
  PROVE  /\ pc[p] \in Gathering => OnDisk(p) = BoardsOf(Range(inputs[p]))
         /\ pc[p] \in Gathered => OnDisk(p) = disk[Store(p)].boards
<1>1. ASSUME NEW n \in DOMAIN disk, n.player = p PROVE n \in Own(p) /\ disk[n].boards \subseteq BoardsOf(Own(p))
  BY <1>1 DEF Own, BoardsOf
<1>2. ASSUME pc[p] \in Gathering PROVE OnDisk(p) = BoardsOf(Range(inputs[p]))
  <2>1. PICK T : T = Range(inputs[p])
    OBVIOUS
  <2>2. \A n \in T : n \in Own(p) /\ n.kind = "input"
    BY <2>1 DEF PlayerOK, InputsOK
  <2>3. ~(pc[p] = "write" /\ target[p].kind = "input")
    BY NameFacts DEF PlayerOK, PlaceOK
  <2>4. \A n \in T : n \in DOMAIN disk /\ n.player = p /\ disk[n].closed
    BY <2>2, <2>3 DEF HeldOK, Own
  <2>5. BoardsOf(Own(p)) \subseteq BoardsIn(disk, T)
    BY <1>2, <2>1 DEF HeldOK, BoardsIn, BoardsOf
  <2>6. \A n \in DOMAIN disk : n.player = p /\ disk[n].closed => disk[n].boards \subseteq BoardsIn(disk, T)
    BY <1>1, <2>5
  <2>7. OnDisk(p) = BoardsIn(disk, T)
    BY <2>4, <2>6, ClosedBoards DEF OnDisk
  <2> QED BY <2>1, <2>7 DEF BoardsIn, BoardsOf
<1>3. ASSUME pc[p] \in Gathered PROVE OnDisk(p) = disk[Store(p)].boards
  <2>1. Output(p) /\ pc[p] # "done" /\ pc[p] # "write"
    BY <1>3 DEF Gathered, Output
  <2>2. Store(p) \in Own(p)
    BY <2>1 DEF PlayerOK, PlaceOK
  <2>3. PICK T : T = {Store(p)}
    OBVIOUS
  <2>4. \A n \in T : n \in DOMAIN disk /\ n.player = p /\ disk[n].closed
    BY <2>1, <2>2, <2>3 DEF HeldOK, Own
  <2>5. BoardsIn(disk, T) = disk[Store(p)].boards
    BY <2>3 DEF BoardsIn
  <2>6. \A n \in DOMAIN disk : n.player = p /\ disk[n].closed => disk[n].boards \subseteq BoardsIn(disk, T)
    BY <1>1, <1>3, <2>5 DEF HeldOK
  <2>7. OnDisk(p) = BoardsIn(disk, T)
    BY <2>4, <2>6, ClosedBoards DEF OnDisk
  <2> QED BY <2>5, <2>7
<1> QED BY <1>2, <1>3

(* Files that are left alone hold what they held.                          *)
LEMMA OwnBoardsKept ==
  ASSUME NEW p \in Players, OwnKept(p)
  PROVE  /\ OnDisk(p)' = OnDisk(p)
         /\ \A S \in SUBSET Own(p) : BoardsOf(S)' = BoardsOf(S)
<1>1. {m \in DOMAIN disk : m.player = p /\ disk[m].closed} = {m \in Own(p) : disk[m].closed}
  BY DEF Own
<1>2. {m \in DOMAIN disk' : m.player = p /\ disk'[m].closed} = {m \in Own(p)' : disk'[m].closed}
  BY DEF Own
<1>3. OnDisk(p)' = OnDisk(p)
  BY <1>1, <1>2 DEF OnDisk, OwnKept
<1>4. \A S \in SUBSET Own(p) : BoardsOf(S)' = BoardsOf(S)
  BY DEF OwnKept, BoardsOf
<1> QED BY <1>3, <1>4

(* Whoever is left alone keeps his boards.                                 *)
LEMMA HeldKept ==
  ASSUME NEW p \in Players, TypeOK, Lists, PlayerOK(p), Kept(p), HeldOK(p)
  PROVE  Carried(p)
<1>1. /\ OnDisk(p)' = OnDisk(p) /\ Own(p)' = Own(p)
      /\ \A S \in SUBSET Own(p) : BoardsOf(S)' = BoardsOf(S)
  BY OwnBoardsKept DEF Kept, OwnKept
<1>2. /\ Depth(p)' = Depth(p) /\ Top(p)' = Top(p) /\ (MakingTemp(p)' <=> MakingTemp(p))
      /\ stack'[p] = stack[p] /\ pc'[p] = pc[p] /\ inputs'[p] = inputs[p]
      /\ queue'[p] = queue[p] /\ readers'[p] = readers[p] /\ target'[p] = target[p]
      /\ probe'[p] = probe[p]
  BY StackKept DEF Kept, MakingTemp
<1>3. BoardsOf(Own(p))' = BoardsOf(Own(p))
  <2>1. BoardsOf(Own(p))' = UNION {disk'[n].boards : n \in Own(p)'}
    BY DEF BoardsOf
  <2>2. \A n \in Own(p) : disk'[n] = disk[n]
    BY DEF Kept, OwnKept
  <2> QED BY <1>1, <2>1, <2>2 DEF BoardsOf
<1>4. BoardsOf(Range(inputs[p]))' = BoardsOf(Range(inputs[p]))
  <2>1. PICK S \in SUBSET Own(p) : S = Range(inputs[p])
    BY DEF PlayerOK, InputsOK
  <2> QED BY <1>1, <1>2, <2>1 DEF BoardsOf
<1>5. ASSUME NEW k \in 1..Depth(p), CallHeld(p, k) PROVE CallHeld(p, k)'
  <2>1. PICK S \in SUBSET Own(p), T \in SUBSET Own(p), U \in SUBSET Own(p) :
          S = Range(stack[p][k].ins) /\ T = Range(stack[p][k].temps) /\ U = Passed(stack[p][k])
    BY CallFiles
  <2>2. BoardsOf(S)' = BoardsOf(S) /\ BoardsOf(T)' = BoardsOf(T) /\ BoardsOf(U)' = BoardsOf(U)
    BY <1>1
  <2>3. /\ BoardsOf(Range(stack[p][k].ins))' = BoardsOf(S) /\ BoardsOf(Range(stack[p][k].temps))' = BoardsOf(T)
        /\ BoardsOf(Passed(stack[p][k]))' = BoardsOf(U)
    BY <1>2, <2>1, <2>2 DEF BoardsOf
  <2> QED BY <1>4, <1>5, <2>1, <2>3 DEF CallHeld
<1>6. ASSUME GroupHeld(p) PROVE GroupHeld(p)'
  <2>1. CASE pc[p] \in {"open", "write"}
    <3>1. PICK S \in SUBSET Own(p), T \in SUBSET Own(p) : S = Source(p) /\ T = Range(queue[p]) \cup readers[p]
      BY <2>1, SourceIsOwn DEF PlayerOK, PlaceOK
    <3>2. Source(p)' = S /\ (Range(queue[p]) \cup readers[p])' = T
      BY <1>2, <3>1 DEF Source, Group
    <3>3. BoardsOf(Source(p))' = BoardsOf(S) /\ BoardsOf(Range(queue[p]) \cup readers[p])' = BoardsOf(T)
      BY <1>1, <3>1, <3>2 DEF BoardsOf
    <3> QED BY <1>2, <1>6, <2>1, <3>1, <3>3 DEF GroupHeld
  <2>2. CASE pc[p] = "temp"
    <3>1. PICK S \in SUBSET Own(p) : S = Source(p)
      BY <2>2, SourceIsOwn
    <3>2. Source(p)' = S
      BY <1>2, <3>1 DEF Source, Group
    <3>3. BoardsOf(Source(p))' = BoardsOf(S)
      BY <1>1, <3>1, <3>2 DEF BoardsOf
    <3>4. target[p] \in Own(p)
      BY <2>2 DEF PlayerOK, PlaceOK, MakingTemp
    <3>5. disk'[target'[p]].boards = disk[target[p]].boards
      BY <1>2, <3>4 DEF Kept, OwnKept
    <3> QED BY <1>2, <1>6, <2>2, <3>1, <3>3, <3>5 DEF GroupHeld
  <2>3. CASE pc[p] \notin {"open", "write", "temp"}
    BY <1>2, <2>3 DEF GroupHeld
  <2> QED BY <2>1, <2>2, <2>3
<1>7. pc[p] \in Gathered => disk'[Store(p)].boards = disk[Store(p)].boards
  <2>1. ASSUME pc[p] \in Gathered PROVE Store(p) \in Own(p)
    BY <2>1 DEF Gathered, Output, PlayerOK, PlaceOK
  <2> QED BY <2>1 DEF Kept, OwnKept
<1>8. \A n \in Own(p) : disk'[n] = disk[n]
  BY DEF Kept, OwnKept
<1>9. HeldOK(p)'
  BY <1>1, <1>2, <1>3, <1>4, <1>5, <1>6, <1>7, <1>8 DEF HeldOK
<1> QED BY <1>1, <1>9 DEF Carried

(* A step that touches no file of p and works on no merge of readers keeps *)
(* the boards when it keeps what the lists hold.                           *)
LEMMA QuietHeld ==
  ASSUME NEW p \in Players, TypeOK, Lists, PlayerOK(p), OwnKept(p), HeldOK(p),
         pc[p] # "write", pc'[p] # "write",
         pc'[p] \in Gathering => /\ pc[p] \in Gathering /\ inputs'[p] = inputs[p]
                                 /\ \A k \in 1..Depth(p)' : CallHeld(p, k)'
                                 /\ GroupHeld(p)',
         pc'[p] \in Gathered => pc[p] \in Gathered
  PROVE  Carried(p)
<1>1. /\ OnDisk(p)' = OnDisk(p) /\ Own(p)' = Own(p) /\ \A n \in Own(p) : disk'[n] = disk[n]
      /\ \A S \in SUBSET Own(p) : BoardsOf(S)' = BoardsOf(S)
  BY OwnBoardsKept DEF OwnKept
<1>2. BoardsOf(Own(p))' = BoardsOf(Own(p))
  <2>1. BoardsOf(Own(p))' = UNION {disk'[n].boards : n \in Own(p)'}
    BY DEF BoardsOf
  <2> QED BY <1>1, <2>1 DEF BoardsOf
<1>3. inputs'[p] = inputs[p] => BoardsOf(Range(inputs[p]))' = BoardsOf(Range(inputs[p]))
  <2>1. PICK S \in SUBSET Own(p) : S = Range(inputs[p])
    BY DEF PlayerOK, InputsOK
  <2> QED BY <1>1, <2>1 DEF BoardsOf
<1>4. pc[p] \in Gathered => disk'[Store(p)].boards = disk[Store(p)].boards
  <2>1. ASSUME pc[p] \in Gathered PROVE Store(p) \in Own(p)
    BY <2>1 DEF Gathered, Output, PlayerOK, PlaceOK
  <2> QED BY <1>1, <2>1
<1>5. \A n \in Own(p)' : disk'[n].closed <=> ~(pc'[p] = "write" /\ n = target'[p])
  BY <1>1 DEF HeldOK
<1>6. pc'[p] \in Gathering => BoardsOf(Own(p))' \subseteq BoardsOf(Range(inputs[p]))'
  BY <1>2, <1>3 DEF HeldOK
<1>7. pc'[p] \in Gathered => BoardsOf(Own(p))' \subseteq disk'[Store(p)].boards
  BY <1>2, <1>4 DEF HeldOK
<1>8. HeldOK(p)'
  BY <1>5, <1>6, <1>7 DEF HeldOK
<1> QED BY <1>1, <1>8 DEF Carried

(* Calls left alone hold what they held.                                   *)
LEMMA CallsHeld ==
  ASSUME NEW p \in Players, TypeOK, Lists, PlayerOK(p), NEW k \in 1..Depth(p), CallHeld(p, k),
         \A n \in Own(p) : n \in Range(inputs[p]) \cup TempsOf(p) => disk'[n].boards = disk[n].boards,
         inputs'[p] = inputs[p], stack'[p][k].ins = stack[p][k].ins,
         stack'[p][k].pos = stack[p][k].pos, stack'[p][k].temps = stack[p][k].temps
  PROVE  CallHeld(p, k)'
<1>1. PICK S, T, U, V :
        /\ S = Range(stack[p][k].ins) /\ T = Range(stack[p][k].temps) /\ U = Passed(stack[p][k])
        /\ V = Range(inputs[p])
  OBVIOUS
<1>2. /\ \A n \in S \cup T \cup U \cup V : disk'[n].boards = disk[n].boards
  <2>1. S \subseteq Own(p) /\ T \subseteq Own(p) /\ U \subseteq S /\ T \subseteq TempsOf(p)
        /\ S \subseteq V \cup TempsOf(p)
    BY <1>1, CallFiles
  <2>2. V \subseteq Own(p)
    BY <1>1 DEF PlayerOK, InputsOK
  <2> QED BY <1>1, <2>1, <2>2
<1>3. /\ BoardsIn(disk', S) = BoardsOf(S) /\ BoardsIn(disk', T) = BoardsOf(T)
      /\ BoardsIn(disk', U) = BoardsOf(U) /\ BoardsIn(disk', V) = BoardsOf(V)
  BY <1>2 DEF BoardsIn, BoardsOf
<1>4. Passed(stack'[p][k]) = U
  BY <1>1 DEF Passed
<1>5. /\ BoardsOf(Range(stack[p][k].ins))' = BoardsIn(disk', S)
      /\ BoardsOf(Range(stack[p][k].temps))' = BoardsIn(disk', T)
      /\ BoardsOf(Passed(stack[p][k]))' = BoardsIn(disk', U)
      /\ BoardsOf(Range(inputs[p]))' = BoardsIn(disk', V)
  BY <1>1, <1>4 DEF BoardsOf, BoardsIn
<1>6. BoardsOf(V) \subseteq BoardsOf(S) /\ BoardsOf(U) \subseteq BoardsOf(T)
  BY <1>1 DEF CallHeld
<1> QED BY <1>3, <1>5, <1>6 DEF CallHeld

(* Steps that only move the thread on.                                     *)
LEMMA HeldMoves ==
  ASSUME NEW p \in Players, TypeOK, Lists, PlayerOK(p), HeldOK(p), disk' = disk,
         compress' = compress, inputs'[p] = inputs[p], stack'[p] = stack[p],
         \/ pc[p] \in Gathering \ {"write"} /\ pc'[p] \in {"begin", "cascade", "probe", "claim"}
         \/ pc[p] \in Gathered /\ pc'[p] \in Gathered
         \/ pc[p] # "write" /\ pc'[p] = "done"
  PROVE  Carried(p)
<1>1. OwnKept(p) /\ Depth(p)' = Depth(p) /\ pc[p] # "write" /\ pc'[p] # "write"
  BY DEF OwnKept, Own, Depth, Gathered, Gathering
<1>2. ASSUME pc'[p] \in Gathering
      PROVE  pc[p] \in Gathering /\ GroupHeld(p)' /\ \A k \in 1..Depth(p)' : CallHeld(p, k)'
  <2>1. pc[p] \in Gathering /\ pc'[p] \notin {"open", "write", "temp"}
    BY <1>2 DEF Gathering, Gathered
  <2>2. GroupHeld(p)'
    BY <2>1 DEF GroupHeld
  <2>3. ASSUME NEW k \in 1..Depth(p) PROVE CallHeld(p, k)'
    <3>1. CallHeld(p, k)
      BY <2>1 DEF HeldOK
    <3> QED BY <3>1, CallsHeld
  <2> QED BY <1>1, <2>1, <2>2, <2>3
<1>3. pc'[p] \in Gathered => pc[p] \in Gathered
  BY DEF Gathered
<1> QED BY <1>1, <1>2, <1>3, QuietHeld

(* The merge of a list of files, none of them open, is about to begin.     *)
LEMMA HeldBegins ==
  ASSUME NEW p \in Players, TypeOK, Lists, PlayerOK(p), HeldOK(p), disk' = disk,
         compress' = compress, inputs'[p] = inputs[p], readers' = readers, pc[p] \in {"begin", "cascade", "claim"},
         pc'[p] = "open", Source(p)' = Range(queue[p])', Depth(p)' = Depth(p),
         \A k \in 1..Depth(p) : /\ stack'[p][k].ins = stack[p][k].ins
                                /\ stack'[p][k].pos = stack[p][k].pos
                                /\ stack'[p][k].temps = stack[p][k].temps
  PROVE  Carried(p)
<1>1. OwnKept(p) /\ pc[p] \in Gathering /\ pc[p] # "write" /\ readers'[p] = {}
  BY DEF OwnKept, Own, Gathering, PlayerOK, PlaceOK
<1>2. GroupHeld(p)'
  <2>1. (Range(queue[p]) \cup readers[p])' = Source(p)'
    BY <1>1
  <2> QED BY <2>1 DEF GroupHeld
<1>3. ASSUME NEW k \in 1..Depth(p) PROVE CallHeld(p, k)'
  <2>1. CallHeld(p, k)
    BY <1>1 DEF HeldOK
  <2> QED BY <2>1, CallsHeld
<1>4. pc'[p] \notin Gathered
  BY DEF Gathered
<1> QED BY <1>1, <1>2, <1>3, <1>4, QuietHeld

(* A file other than the output is deleted when the output holds all.      *)
LEMMA HeldDeletes ==
  ASSUME NEW p \in Players, TypeOK, Lists, PlayerOK(p), HeldOK(p), pc[p] \in Gathered,
         pc'[p] \in Gathered \cup {"done"}, NEW x \in Own(p), x.kind # "store",
         disk' = Restrict(disk, DOMAIN disk \ {x})
  PROVE  Carried(p)
<1>1. /\ DOMAIN disk' = DOMAIN disk \ {x} /\ \A n \in DOMAIN disk \ {x} : disk'[n] = disk[n]
  BY DEF Restrict
<1>2. Own(p)' = Own(p) \ {x}
  BY <1>1 DEF Own
<1>3. Store(p) \in Own(p) /\ Store(p) # x /\ pc[p] # "write" /\ pc'[p] # "write" /\ pc'[p] \notin Gathering
  BY NameFacts DEF Gathered, Gathering, Output, PlayerOK, PlaceOK
<1>4. /\ \A n \in Own(p)' : n \in Own(p) /\ disk'[n] = disk[n]
      /\ Store(p) \in Own(p)'
  BY <1>1, <1>2, <1>3 DEF Own
<1>5. \A n \in Own(p) : disk[n].closed /\ disk[n].boards \subseteq disk[Store(p)].boards
  BY <1>3 DEF HeldOK, BoardsOf
<1>6. HeldOK(p)'
  <2>1. \A n \in Own(p)' : disk'[n].closed
    BY <1>4, <1>5
  <2>2. BoardsOf(Own(p))' \subseteq disk'[Store(p)].boards
    <3>1. \A n \in Own(p)' : disk'[n].boards \subseteq disk'[Store(p)].boards
      BY <1>4, <1>5
    <3> QED BY <3>1 DEF BoardsOf
  <2> QED BY <1>3, <2>1, <2>2 DEF HeldOK
<1>7. OnDisk(p)' = OnDisk(p)
  <2>1. OnDisk(p) = disk[Store(p)].boards
    BY OnDiskIs
  <2>2. PICK T : T = {Store(p)}
    OBVIOUS
  <2>3. BoardsIn(disk', T) = disk[Store(p)].boards
    BY <1>4, <2>2 DEF BoardsIn
  <2>4. PICK f : f = disk'
    OBVIOUS
  <2>5. \A n \in DOMAIN f : n.player = p =>
          n \in Own(p) /\ f[n].closed /\ f[n].boards \subseteq BoardsIn(f, T)
    <3>1. BoardsIn(f, T) = disk[Store(p)].boards
      BY <2>3, <2>4
    <3>2. ASSUME NEW n \in DOMAIN f, n.player = p
          PROVE  n \in Own(p) /\ f[n].closed /\ f[n].boards \subseteq BoardsIn(f, T)
      <4>1. n \in Own(p) /\ f[n] = disk[n]
        BY <1>1, <2>4, <3>2 DEF Own
      <4>2. disk[n].closed /\ disk[n].boards \subseteq disk[Store(p)].boards
        BY <1>5, <4>1
      <4> QED BY <3>1, <4>1, <4>2
    <3> QED BY <3>2
  <2>6. \A n \in T : n \in DOMAIN f /\ n.player = p /\ f[n].closed
    BY <1>4, <1>5, <2>2, <2>4 DEF Own
  <2>7. UNION {f[n].boards : n \in {m \in DOMAIN f : m.player = p /\ f[m].closed}} = BoardsIn(f, T)
    BY <2>5, <2>6, ClosedBoards
  <2>8. OnDisk(p)' = UNION {f[n].boards : n \in {m \in DOMAIN f : m.player = p /\ f[m].closed}}
    BY <2>4 DEF OnDisk
  <2> QED BY <2>1, <2>3, <2>4, <2>7, <2>8
<1> QED BY <1>6, <1>7 DEF Carried

(* mergePlayer carries the boards on: the only file moves to the store     *)
(* drive,                                                                  *)
LEMMA HeldMoveSingle ==
  ASSUME NEW p \in Players, TypeOK, Lists, PlayerOK(p), HeldOK(p), MoveSingle(p)
  PROVE  Carried(p)
<1>1. pc[p] = "begin" /\ pc'[p] = "done" /\ Len(inputs[p]) = 1
  BY GoesTo DEF MoveSingle
<1>2. PICK x \in Own(p) : x = inputs[p][1] /\ Range(inputs[p]) = {x} /\ x.kind = "input"
  BY <1>1, OnlyInput
<1>3. PICK s \in Names : s = Store(p) /\ s.player = p /\ s.kind = "store"
  BY NameFacts
<1>4. PICK f : f = disk'
  OBVIOUS
<1>5. f = [n \in (DOMAIN disk \ {x}) \cup {s} |->
             IF n = s THEN [disk[x] EXCEPT !.drive = StoreDrive] ELSE disk[n]]
  BY <1>2, <1>3, <1>4 DEF MoveSingle
<1>6. /\ DOMAIN f = (DOMAIN disk \ {x}) \cup {s} /\ \A n \in DOMAIN f : n # s => f[n] = disk[n]
      /\ f[s].boards = disk[x].boards /\ f[s].closed = disk[x].closed
  <2>1. disk[x] \in Files
    BY DEF PlayerOK, FilesOK, FileOK
  <2>2. f[s] = [disk[x] EXCEPT !.drive = StoreDrive]
    BY <1>5
  <2> QED BY <1>5, <2>1, <2>2 DEF Files
<1>7. \A n \in Own(p) : disk[n].closed /\ disk[n].boards \subseteq disk[x].boards
  BY <1>1, <1>2 DEF HeldOK, BoardsOf, Gathering
<1>8. \A n \in DOMAIN f : n.player = p => f[n].closed /\ f[n].boards \subseteq disk[x].boards
  BY <1>2, <1>6, <1>7 DEF Own
<1>9. HeldOK(p)'
  <2>1. Own(p)' = {n \in DOMAIN f : n.player = p}
    BY <1>4 DEF Own
  <2> QED BY <1>1, <1>4, <1>8, <2>1 DEF HeldOK, Gathering, Gathered
<1>10. OnDisk(p)' = OnDisk(p)
  <2>1. OnDisk(p) = disk[x].boards
    <3>1. BoardsOf({x}) = disk[x].boards
      BY DEF BoardsOf
    <3> QED BY <1>1, <1>2, <3>1, OnDiskIs DEF Gathering
  <2>2. PICK T : T = {s}
    OBVIOUS
  <2>3. BoardsIn(f, T) = disk[x].boards
    BY <1>6, <2>2 DEF BoardsIn
  <2>4. \A n \in T : n \in DOMAIN f /\ n.player = p /\ f[n].closed
    BY <1>3, <1>6, <1>7, <2>2
  <2>5. \A n \in DOMAIN f : n.player = p /\ f[n].closed => f[n].boards \subseteq BoardsIn(f, T)
    BY <1>8, <2>3
  <2>6. UNION {f[n].boards : n \in {m \in DOMAIN f : m.player = p /\ f[m].closed}} = BoardsIn(f, T)
    BY <2>4, <2>5, ClosedBoards
  <2>7. OnDisk(p)' = UNION {f[n].boards : n \in {m \in DOMAIN f : m.player = p /\ f[m].closed}}
    BY <1>4 DEF OnDisk
  <2> QED BY <2>1, <2>3, <2>6, <2>7
<1> QED BY <1>9, <1>10 DEF Carried

(* the outermost call begins with all of them,                             *)
LEMMA HeldMergeSeveral ==
  ASSUME NEW p \in Players, TypeOK, Lists, PlayerOK(p), HeldOK(p), MergeSeveral(p)
  PROVE  Carried(p)
<1>1. /\ pc[p] = "begin" /\ pc'[p] = "cascade" /\ disk' = disk /\ inputs' = inputs
      /\ compress' = compress /\ stack'[p] = <<Call(inputs[p])>> /\ inputs[p] \in Seq(Names)
  BY GoesTo DEF MergeSeveral, planVars, Lists
<1>2. OwnKept(p) /\ Depth(p)' = 1 /\ stack'[p][1] = Call(inputs[p])
  BY <1>1 DEF OwnKept, Own, Depth
<1>3. CallHeld(p, 1)'
  <2>1. Call(inputs[p]).ins = inputs[p] /\ Call(inputs[p]).pos = 0
    BY <1>1, CallType
  <2>2. Passed(stack'[p][1]) = {}
    BY <1>2, <2>1 DEF Passed
  <2>3. BoardsOf(Passed(stack[p][1]))' = {}
    BY <2>2 DEF BoardsOf
  <2>4. Range(stack[p][1].ins)' = Range(inputs[p])'
    BY <1>1, <1>2, <2>1
  <2> QED BY <2>3, <2>4 DEF CallHeld
<1>4. GroupHeld(p)'
  BY <1>1 DEF GroupHeld
<1>5. \A k \in 1..Depth(p)' : k = 1
  BY <1>2
<1> QED BY <1>1, <1>2, <1>3, <1>4, <1>5, QuietHeld DEF Gathering, Gathered

(* inputs are deleted when the output has their boards.                    *)
LEMMA HeldMergePlayer ==
  ASSUME NEW p \in Players, TypeOK, Lists, PlayerOK(p), HeldOK(p), mergePlayer(p)
  PROVE  Carried(p)
<1>1. CASE NoFiles(p) \/ Settle(p) \/ ReclaimInput(p) \/ FinishPlayer(p)
  <2>1. disk' = disk /\ compress' = compress /\ inputs' = inputs /\ stack' = stack
    BY <1>1 DEF NoFiles, Settle, ReclaimInput, FinishPlayer, planVars
  <2>2. \/ pc[p] \in Gathered /\ pc'[p] \in Gathered
        \/ pc[p] # "write" /\ pc'[p] = "done"
    BY <1>1, GoesTo DEF NoFiles, Settle, ReclaimInput, FinishPlayer, Gathered
  <2> QED BY <2>1, <2>2, HeldMoves
<1>2. CASE RecompressSingle(p)
  <2>1. /\ disk' = disk /\ inputs' = inputs /\ stack' = stack /\ readers' = readers
        /\ compress' = compress /\ pc[p] = "begin" /\ pc'[p] = "open" /\ queue'[p] = inputs[p] /\ target'[p] = Store(p)
    BY <1>2, GoesTo DEF RecompressSingle, BeginKWay, planVars, Lists
  <2>2. stack[p] = <<>> /\ ~MakingTemp(p)'
    BY <2>1, NameFacts DEF PlayerOK, PlaceOK, Alone, MakingTemp
  <2>3. Source(p)' = Range(queue[p])' /\ Depth(p)' = Depth(p)
    BY <2>1, <2>2 DEF Source, Depth
  <2> QED BY <2>1, <2>3, HeldBegins
<1>3. CASE FinishSingle(p)
  <2>1. /\ pc[p] = "single" /\ pc'[p] = "done" /\ disk' = Restrict(disk, DOMAIN disk \ {inputs[p][1]})
    BY <1>3, GoesTo DEF FinishSingle
  <2>2. Len(inputs[p]) = 1
    BY <2>1 DEF PlayerOK, PlaceOK
  <2>3. inputs[p][1] \in Own(p) /\ inputs[p][1].kind # "store"
    BY <2>2, OnlyInput
  <2> QED BY <2>1, <2>3, HeldDeletes DEF Gathered
<1>4. CASE DeleteInput(p)
  <2>1. /\ pc[p] = "deleteInput" /\ pc'[p] = "inputs" /\ inputs[p] \in Seq(Names)
        /\ disk' = Restrict(disk, DOMAIN disk \ {Head(inputs[p])})
    BY <1>4, GoesTo DEF DeleteInput, Lists
  <2>2. inputs[p] # <<>>
    BY <2>1 DEF PlayerOK, PlaceOK
  <2>3. Head(inputs[p]) \in Own(p) /\ Head(inputs[p]).kind # "store"
    BY <2>1, <2>2, TailFacts DEF PlayerOK, InputsOK
  <2> QED BY <2>1, <2>3, HeldDeletes DEF Gathered
<1> QED BY <1>1, <1>2, <1>3, <1>4, HeldMoveSingle, HeldMergeSeveral DEF mergePlayer

(* A reader is opened, unless the file has no boards.                      *)
LEMMA HeldOpenInput ==
  ASSUME NEW p \in Players, TypeOK, Lists, PlayerOK(p), HeldOK(p), HandlesSuffice, OpenInput(p)
  PROVE  Carried(p)
<1>1. /\ pc[p] = "open" /\ pc' = pc /\ disk' = disk /\ inputs' = inputs /\ stack' = stack
      /\ compress' = compress /\ probe' = probe /\ target' = target /\ queue[p] # <<>> /\ queue[p] \in Seq(Names)
      /\ queue'[p] = Tail(queue[p]) /\ OpenFiles < MaxHandles
  BY DEF OpenInput, HandlesSuffice, Lists, planVars
<1>2. PICK x : x = Head(queue[p])
  OBVIOUS
<1>3. readers'[p] = IF disk[x].boards # {} THEN readers[p] \cup {x} ELSE readers[p]
  BY <1>1, <1>2 DEF OpenInput, Lists
<1>4. Range(queue[p]) = Range(Tail(queue[p])) \cup {x}
  BY <1>1, <1>2, TailFacts
<1>5. OwnKept(p) /\ Depth(p)' = Depth(p)
  BY <1>1, StackKept DEF OwnKept, Own
<1>6. PICK S, T : S = Range(queue[p]) \cup readers[p] /\ T = Range(queue'[p]) \cup readers'[p]
  OBVIOUS
<1>7. BoardsOf(S) = BoardsOf(T)
  <2>1. CASE disk[x].boards # {}
    <3>1. S = T
      BY <1>1, <1>3, <1>4, <1>6, <2>1
    <3> QED BY <3>1
  <2>2. CASE disk[x].boards = {}
    <3>1. S = T \cup {x}
      BY <1>1, <1>3, <1>4, <1>6, <2>2
    <3> QED BY <2>2, <3>1 DEF BoardsOf
  <2> QED BY <2>1, <2>2
<1>8. GroupHeld(p)'
  <2>1. PICK R : R = Source(p)
    OBVIOUS
  <2>2. Source(p)' = R
    <3>1. MakingTemp(p)' <=> MakingTemp(p)
      BY <1>1 DEF MakingTemp
    <3>2. Top(p)' = Top(p)
      BY <1>1, StackKept
    <3> QED BY <1>1, <2>1, <3>1, <3>2 DEF Source, Group
  <2>3. BoardsOf(Source(p))' = BoardsOf(R)
    BY <1>1, <2>2 DEF BoardsOf
  <2>4. BoardsOf(Range(queue[p]) \cup readers[p])' = BoardsOf(T)
    BY <1>1, <1>6 DEF BoardsOf
  <2>5. BoardsOf(R) \subseteq BoardsOf(S)
    BY <1>1, <1>6, <2>1 DEF HeldOK, GroupHeld, Gathering
  <2> QED BY <1>1, <1>7, <2>3, <2>4, <2>5 DEF GroupHeld
<1>9. ASSUME NEW k \in 1..Depth(p) PROVE CallHeld(p, k)'
  <2>1. CallHeld(p, k)
    BY <1>1 DEF HeldOK, Gathering
  <2> QED BY <1>1, <2>1, CallsHeld
<1> QED BY <1>1, <1>5, <1>8, <1>9, QuietHeld DEF Gathering, Gathered

(* The output is created: a new file, without boards and incomplete.       *)
LEMMA HeldCreateOutput ==
  ASSUME NEW p \in Players, TypeOK, Lists, PlayerOK(p), HeldOK(p), CreateOutput(p)
  PROVE  Carried(p)
<1>1. /\ pc[p] = "open" /\ stack' = stack /\ inputs' = inputs /\ probe' = probe
      /\ target' = target /\ tempCount' = tempCount /\ queue' = queue /\ readers' = readers
      /\ compress' = compress /\ reserved' = reserved /\ early' = early /\ queue[p] = <<>>
  BY DEF CreateOutput, planVars, kwayVars
<1>2. CASE UNCHANGED <<disk, pc>>
  <2>1. Kept(p)
    BY <1>1, <1>2 DEF Kept, OwnKept, Own
  <2> QED BY <2>1, HeldKept
<1>3. PICK x : x = target[p]
  OBVIOUS
<1>4. CASE /\ disk' = [n \in DOMAIN disk \cup {x} |->
                         IF n = x THEN [drive |-> TargetDrive(p), boards |-> {}, bytes |-> 0, closed |-> FALSE, over |-> 0]
                                  ELSE disk[n]]
           /\ pc'[p] = "write"
  <2>1. x \in Names /\ x.player = p /\ x \notin Own(p)
    <3>1. CASE x = Store(p)
      <4>1. ~Output(p) /\ (Output(p) <=> Store(p) \in Own(p))
        BY <1>1 DEF PlayerOK, PlaceOK, Output
      <4> QED BY <3>1, <4>1, NameFacts
    <3>2. CASE x.kind = "temp"
      BY <1>1, <1>3, <3>2 DEF PlayerOK, PlaceOK, MakingTemp, Lists
    <3> QED BY <1>1, <1>3, <3>1, <3>2 DEF PlayerOK, PlaceOK
  <2>2. PICK f : f = disk'
    OBVIOUS
  <2>3. /\ DOMAIN f = DOMAIN disk \cup {x} /\ x \notin DOMAIN disk
        /\ \A n \in DOMAIN disk : f[n] = disk[n]
        /\ f[x].boards = {} /\ ~f[x].closed
    BY <1>4, <2>1, <2>2 DEF Own
  <2>4. Own(p)' = Own(p) \cup {x} /\ \A n \in Own(p) : n \in DOMAIN disk
    BY <2>1, <2>2, <2>3 DEF Own
  <2>5. ASSUME NEW S \in SUBSET Own(p) PROVE BoardsIn(f, S) = BoardsOf(S)
    BY <2>3, <2>4 DEF BoardsIn, BoardsOf
  <2>6. BoardsIn(f, Own(p) \cup {x}) = BoardsIn(f, Own(p))
    BY <2>3 DEF BoardsIn
  <2>7. PICK I \in SUBSET Own(p), Q \in SUBSET Own(p), R \in SUBSET Own(p) :
          /\ I = Range(inputs[p]) /\ Q = Range(queue[p]) \cup readers[p] /\ R = Source(p)
    BY <1>1, SourceIsOwn DEF PlayerOK, InputsOK, PlaceOK
  <2>8. /\ BoardsOf(Own(p))' = BoardsIn(f, Own(p) \cup {x})
        /\ BoardsOf(Range(inputs[p]))' = BoardsIn(f, I)
        /\ BoardsOf(Range(queue[p]) \cup readers[p])' = BoardsIn(f, Q)
    BY <1>1, <2>2, <2>4, <2>7 DEF BoardsOf, BoardsIn
  <2>9. BoardsOf(Source(p))' = BoardsIn(f, R)
    <3>1. MakingTemp(p)' <=> MakingTemp(p)
      BY <1>1, <1>4 DEF MakingTemp
    <3>2. Top(p)' = Top(p)
      BY <1>1, StackKept
    <3>3. Source(p)' = R
      BY <1>1, <2>7, <3>1, <3>2 DEF Source, Group
    <3> QED BY <2>2, <3>3 DEF BoardsOf, BoardsIn
  <2>10. GroupHeld(p)'
    <3>1. BoardsOf(R) \subseteq BoardsOf(Q)
      BY <1>1, <2>7 DEF HeldOK, GroupHeld, Gathering
    <3>2. BoardsIn(f, R) \subseteq BoardsIn(f, Q)
      BY <2>5, <3>1
    <3> QED BY <1>1, <1>4, <2>8, <2>9, <3>2 DEF GroupHeld
  <2>11. ASSUME NEW k \in 1..Depth(p) PROVE CallHeld(p, k)'
    <3>1. CallHeld(p, k)
      BY <1>1 DEF HeldOK, Gathering
    <3>2. \A n \in Own(p) : disk'[n].boards = disk[n].boards
      BY <2>2, <2>3, <2>4
    <3> QED BY <1>1, <3>1, <3>2, CallsHeld
  <2>12. HeldOK(p)'
    <3>1. Depth(p)' = Depth(p)
      BY <1>1, StackKept
    <3>2. \A n \in Own(p)' : disk'[n].closed <=> ~(pc'[p] = "write" /\ n = target'[p])
      <4>1. \A n \in Own(p) : disk'[n].closed /\ n # x
        BY <1>1, <2>1, <2>2, <2>3, <2>4 DEF HeldOK
      <4> QED BY <1>1, <1>3, <1>4, <2>2, <2>3, <2>4, <4>1
    <3>3. BoardsOf(Own(p)) \subseteq BoardsOf(I)
      BY <1>1, <2>7 DEF HeldOK, Gathering
    <3>4. BoardsOf(Own(p))' \subseteq BoardsOf(Range(inputs[p]))'
      BY <2>5, <2>6, <2>8, <3>3
    <3>5. pc'[p] \notin Gathered
      BY <1>4 DEF Gathered
    <3> QED BY <2>10, <2>11, <3>1, <3>2, <3>4, <3>5 DEF HeldOK
  <2>13. OnDisk(p)' = OnDisk(p)
    <3>1. OnDisk(p) = BoardsOf(I)
      BY <1>1, <2>7, OnDiskIs DEF Gathering
    <3>2. \A n \in I : n \in DOMAIN f /\ n.player = p /\ f[n].closed
      BY <1>1, <2>3, <2>4, <2>7 DEF HeldOK, Own
    <3>3. \A n \in DOMAIN f : n.player = p /\ f[n].closed => f[n].boards \subseteq BoardsIn(f, I)
      <4>1. BoardsOf(Own(p)) \subseteq BoardsOf(I)
        BY <1>1, <2>7 DEF HeldOK, Gathering
      <4>2. \A n \in Own(p) : disk[n].boards \subseteq BoardsIn(f, I)
        BY <2>5, <4>1 DEF BoardsOf
      <4> QED BY <2>3, <4>2 DEF Own
    <3>4. UNION {f[n].boards : n \in {m \in DOMAIN f : m.player = p /\ f[m].closed}} = BoardsIn(f, I)
      BY <3>2, <3>3, ClosedBoards
    <3>5. OnDisk(p)' = UNION {f[n].boards : n \in {m \in DOMAIN f : m.player = p /\ f[m].closed}}
      BY <2>2 DEF OnDisk
    <3> QED BY <2>5, <2>7, <3>1, <3>4, <3>5
  <2> QED BY <2>12, <2>13 DEF Carried
<1> QED BY <1>2, <1>3, <1>4, GoesTo DEF CreateOutput

(* The output is complete: while there is no interrupt it holds all boards *)
(* of what was merged.                                                     *)
LEMMA HeldWriteOutput ==
  ASSUME NEW p \in Players, TypeOK, Lists, PlayerOK(p), HeldOK(p), ~terminate, WriteOutput(p)
  PROVE  Carried(p)
<1>1. /\ pc[p] = "write" /\ pc[p] \in Gathering /\ stack' = stack /\ inputs' = inputs /\ probe' = probe
      /\ target' = target /\ queue[p] = <<>> /\ GroupHeld(p)
  BY DEF WriteOutput, planVars, HeldOK, GroupHeld, Gathering
<1>2. PICK x : x = target[p]
  OBVIOUS
<1>3. PICK out, b, o :
        /\ out = BoardsOf(readers[p])
        /\ disk' = [disk EXCEPT ![x] = [@ EXCEPT !.boards = out, !.bytes = b, !.closed = TRUE, !.over = o]]
  <2>1. PICK out \in SUBSET UNION {disk[n].boards : n \in readers[p]} :
          /\ terminate \/ out = UNION {disk[n].boards : n \in readers[p]}
          /\ \E bytes \in OutSizes(out) :
               disk' = [disk EXCEPT ![target[p]] =
                          [@ EXCEPT !.boards = out, !.bytes = bytes, !.closed = TRUE,
                                    !.over = Overrun(p, bytes)]]
    BY DEF WriteOutput
  <2>2. PICK b \in OutSizes(out) :
          disk' = [disk EXCEPT ![target[p]] =
                     [@ EXCEPT !.boards = out, !.bytes = b, !.closed = TRUE, !.over = Overrun(p, b)]]
    BY <2>1
  <2>3. PICK o : o = Overrun(p, b)
    OBVIOUS
  <2>4. out = BoardsOf(readers[p])
    BY <2>1 DEF BoardsOf
  <2> QED BY <1>2, <2>2, <2>3, <2>4
<1>4. pc'[p] = IF x.kind = "temp" THEN "temp" ELSE IF stack[p] = <<>> THEN "single" ELSE "unwind"
  BY <1>2, GoesTo DEF WriteOutput
<1>5. /\ x \in Own(p) /\ x.kind # "input" /\ (x = Store(p) \/ x.kind = "temp") /\ x \notin TempsOf(p)
      /\ (MakingTemp(p) <=> x.kind = "temp") /\ (x.kind = "temp" => stack[p] # <<>>)
  <2>1. x = Store(p) \/ x.kind = "temp"
    BY <1>1, <1>2 DEF PlayerOK, PlaceOK
  <2>2. MakingTemp(p) <=> x.kind = "temp"
    BY <1>1, <1>2 DEF MakingTemp
  <2>3. CASE x = Store(p)
    <3>1. x \in Own(p)
      BY <1>1, <1>2, <2>3 DEF PlayerOK, PlaceOK, Output
    <3>2. x.kind = "store"
      BY <2>3, NameFacts
    <3>3. \A n \in TempsOf(p) : n.kind = "temp"
      BY DEF TempsOf, PlayerOK, CallsOK, CallOK
    <3> QED BY <2>1, <2>2, <3>1, <3>2, <3>3
  <2>4. CASE x.kind = "temp"
    <3>1. x \in Own(p) /\ x \notin TempsOf(p) /\ stack[p] # <<>>
      BY <1>1, <1>2, <2>2, <2>4, NameFacts DEF PlayerOK, PlaceOK
    <3> QED BY <2>1, <2>2, <2>4, <3>1
  <2> QED BY <2>1, <2>3, <2>4
<1>6. PICK f : f = disk'
  OBVIOUS
<1>7. /\ DOMAIN f = DOMAIN disk /\ \A n \in DOMAIN disk : n # x => f[n] = disk[n]
      /\ f[x].boards = out /\ f[x].closed
  <2>1. disk[x] \in Files /\ x \in DOMAIN disk
    BY <1>5 DEF PlayerOK, FilesOK, FileOK, Own
  <2>2. f[x] = [disk[x] EXCEPT !.boards = out, !.bytes = b, !.closed = TRUE, !.over = o]
    BY <1>3, <1>6, <2>1
  <2> QED BY <1>3, <1>6, <2>1, <2>2 DEF Files
<1>8. Own(p)' = Own(p) /\ \A n \in Own(p) : n \in DOMAIN disk /\ n.player = p
  BY <1>6, <1>7 DEF Own
<1>9. PICK I \in SUBSET Own(p), Q \in SUBSET Own(p), R \in SUBSET Own(p) :
        I = Range(inputs[p]) /\ Q = readers[p] /\ R = Source(p)
  BY <1>1, SourceIsOwn DEF PlayerOK, InputsOK, PlaceOK
<1>10. x \notin I /\ x \notin Q /\ x \notin R
  <2>1. x \notin I
    BY <1>5, <1>9 DEF PlayerOK, InputsOK
  <2>2. x \notin Q
    BY <1>1, <1>2, <1>9 DEF PlayerOK, PlaceOK
  <2>3. stack[p] # <<>> => Range(Top(p).ins) \subseteq I \cup TempsOf(p)
    <3>1. ASSUME stack[p] # <<>> PROVE Depth(p) \in 1..Depth(p)
      BY <3>1, CallFacts
    <3> QED BY <1>9, <3>1, CallFiles DEF Top
  <2>4. MakingTemp(p) => Range(Group(p, probe[p].count)) \subseteq Range(Top(p).ins)
    <3>1. ASSUME MakingTemp(p)
          PROVE  stack[p] # <<>> /\ probe[p].count \in Nat /\ Top(p).pos + probe[p].count <= Len(Top(p).ins)
      BY <1>5, <3>1 DEF PlayerOK, PlaceOK, Lists, Probes
    <3> QED BY <3>1, GroupFacts
  <2>5. x \notin R
    BY <1>5, <1>9, <2>1, <2>3, <2>4 DEF Source
  <2> QED BY <2>1, <2>2, <2>5
<1>11. ASSUME NEW S \in SUBSET Own(p), x \notin S PROVE BoardsIn(f, S) = BoardsOf(S)
  BY <1>7, <1>8, <1>11 DEF BoardsIn, BoardsOf
<1>12. BoardsOf(R) \subseteq out
  <2>1. Range(queue[p]) \cup readers[p] = Q
    <3>1. <<>> \in Seq(Names)
      BY EmptySeq
    <3>2. Range(<<>>) = {}
      BY <3>1, RangeFacts
    <3> QED BY <1>1, <1>9, <3>2
  <2> QED BY <1>1, <1>3, <1>9, <2>1 DEF GroupHeld
<1>13. out \subseteq BoardsOf(I) /\ BoardsOf(Own(p)) \subseteq BoardsOf(I)
  <2>1. BoardsOf(Own(p)) \subseteq BoardsOf(I)
    BY <1>1, <1>9 DEF HeldOK
  <2>2. out \subseteq BoardsOf(Own(p))
    BY <1>3, <1>9 DEF BoardsOf
  <2> QED BY <2>1, <2>2
<1>14. BoardsIn(f, Own(p)) \subseteq BoardsOf(I)
  <2>1. ASSUME NEW n \in Own(p) PROVE f[n].boards \subseteq BoardsOf(I)
    <3>1. CASE n = x
      BY <1>7, <1>13, <3>1
    <3>2. CASE n # x
      <4>1. disk[n].boards \subseteq BoardsOf(Own(p)) /\ f[n] = disk[n]
        BY <1>7, <1>8, <3>2 DEF BoardsOf
      <4> QED BY <1>13, <4>1
    <3> QED BY <3>1, <3>2
  <2> QED BY <2>1 DEF BoardsIn
<1>15. \A n \in Own(p) : f[n].closed
  <2>1. ASSUME NEW n \in Own(p), n # x PROVE f[n].closed
    <3>1. disk[n].closed /\ f[n] = disk[n]
      BY <1>2, <1>7, <1>8, <2>1 DEF HeldOK
    <3> QED BY <3>1
  <2> QED BY <1>7, <2>1
<1>16. OnDisk(p)' = OnDisk(p)
  <2>1. OnDisk(p) = BoardsOf(I)
    BY <1>1, <1>9, OnDiskIs
  <2>2. \A n \in I : n \in DOMAIN f /\ n.player = p /\ f[n].closed
    BY <1>7, <1>8, <1>15
  <2>3. \A n \in DOMAIN f : n.player = p /\ f[n].closed => f[n].boards \subseteq BoardsIn(f, I)
    <3>1. \A n \in DOMAIN f : n.player = p => n \in Own(p)
      BY <1>7 DEF Own
    <3>2. \A n \in Own(p) : f[n].boards \subseteq BoardsOf(I)
      BY <1>14 DEF BoardsIn
    <3> QED BY <1>10, <1>11, <3>1, <3>2
  <2>4. UNION {f[n].boards : n \in {m \in DOMAIN f : m.player = p /\ f[m].closed}} = BoardsIn(f, I)
    BY <2>2, <2>3, ClosedBoards
  <2>5. OnDisk(p)' = UNION {f[n].boards : n \in {m \in DOMAIN f : m.player = p /\ f[m].closed}}
    BY <1>6 DEF OnDisk
  <2> QED BY <1>10, <1>11, <2>1, <2>4, <2>5
<1>17. /\ BoardsOf(Own(p))' = BoardsIn(f, Own(p)) /\ BoardsOf(Range(inputs[p]))' = BoardsOf(I)
       /\ Depth(p)' = Depth(p) /\ pc'[p] # "write"
  <2>1. BoardsOf(Range(inputs[p]))' = BoardsIn(f, I)
    BY <1>1, <1>6, <1>9 DEF BoardsOf, BoardsIn
  <2>2. BoardsOf(Own(p))' = BoardsIn(f, Own(p))
    BY <1>6, <1>8 DEF BoardsOf, BoardsIn
  <2> QED BY <1>1, <1>4, <1>10, <1>11, <2>1, <2>2, StackKept
<1>18. \A n \in Own(p)' : disk'[n].closed <=> ~(pc'[p] = "write" /\ n = target'[p])
  BY <1>6, <1>8, <1>15, <1>17
<1>19. CASE x.kind = "temp"
  <2>1. pc'[p] = "temp" /\ target'[p] = x
    BY <1>1, <1>2, <1>4, <1>19
  <2>2. GroupHeld(p)'
    <3>1. MakingTemp(p)' <=> MakingTemp(p)
      BY <1>1, <2>1 DEF MakingTemp
    <3>2. Top(p)' = Top(p)
      BY <1>1, StackKept
    <3>3. Source(p)' = R
      BY <1>1, <1>9, <3>1, <3>2 DEF Source, Group
    <3>4. BoardsOf(Source(p))' = BoardsIn(f, R)
      BY <1>6, <3>3 DEF BoardsOf, BoardsIn
    <3>5. BoardsOf(Source(p))' \subseteq disk'[target'[p]].boards
      BY <1>6, <1>7, <1>10, <1>11, <1>12, <2>1, <3>4
    <3> QED BY <2>1, <3>5 DEF GroupHeld
  <2>3. ASSUME NEW k \in 1..Depth(p) PROVE CallHeld(p, k)'
    <3>1. CallHeld(p, k)
      BY <1>1 DEF HeldOK
    <3>2. \A n \in Own(p) : n \in Range(inputs[p]) \cup TempsOf(p) => disk'[n].boards = disk[n].boards
      BY <1>5, <1>6, <1>7, <1>8, <1>9, <1>10
    <3> QED BY <1>1, <3>1, <3>2, CallsHeld
  <2>4. pc'[p] \notin Gathered
    BY <2>1 DEF Gathered
  <2>5. HeldOK(p)'
    BY <1>14, <1>17, <1>18, <2>2, <2>3, <2>4 DEF HeldOK
  <2> QED BY <1>16, <2>5 DEF Carried
<1>20. CASE x.kind # "temp"
  <2>1. x = Store(p) /\ ~MakingTemp(p) /\ pc'[p] \notin Gathering
    BY <1>4, <1>5, <1>20 DEF Gathering
  <2>2. BoardsOf(I) \subseteq BoardsOf(R)
    <3>1. CASE stack[p] = <<>>
      BY <1>9, <2>1, <3>1 DEF Source
    <3>2. CASE stack[p] # <<>>
      <4>1. Depth(p) \in 1..Depth(p) /\ Top(p) = stack[p][Depth(p)]
        BY <3>2, CallFacts DEF Top
      <4>2. CallHeld(p, Depth(p))
        BY <1>1, <4>1 DEF HeldOK
      <4> QED BY <1>9, <2>1, <3>2, <4>1, <4>2 DEF Source, CallHeld
    <3> QED BY <3>1, <3>2
  <2>3. BoardsOf(Own(p))' \subseteq disk'[Store(p)].boards
    BY <1>6, <1>7, <1>12, <1>14, <1>17, <2>1, <2>2
  <2>4. HeldOK(p)'
    BY <1>18, <2>1, <2>3 DEF HeldOK
  <2> QED BY <1>16, <2>4 DEF Carried
<1> QED BY <1>19, <1>20

(* A cascade's merge begins with the call's inputs or a group of them,     *)
LEMMA HeldBeginsCall ==
  ASSUME NEW p \in Players, TypeOK, Lists, PlayerOK(p), HeldOK(p),
         Direct(p) \/ NestedGroup(p)
  PROVE  Carried(p)
<1>1. /\ pc[p] = "cascade" /\ disk' = disk /\ inputs' = inputs /\ stack' = stack /\ readers' = readers
      /\ compress' = compress /\ stack[p] # <<>>
  <2>1. /\ pc[p] = "cascade" /\ disk' = disk /\ compress' = compress /\ inputs' = inputs
        /\ stack' = stack /\ readers' = readers
    BY DEF Direct, NestedGroup, MoreGroups, planVars
  <2> QED BY <2>1, CallHolds DEF Within
<1>2. Depth(p)' = Depth(p) /\ Top(p)' = Top(p) /\ Window(p)' = Window(p)
  BY <1>1, StackKept
<1>3. CASE Direct(p)
  <2>1. pc'[p] = "open" /\ queue'[p] = Top(p).ins /\ target'[p] = Store(p)
    BY <1>3, GoesTo DEF Direct, BeginKWay, Lists
  <2>2. ~MakingTemp(p)'
    BY <2>1, NameFacts DEF MakingTemp
  <2>3. Source(p)' = Range(queue[p])'
    BY <1>1, <1>2, <2>1, <2>2 DEF Source
  <2> QED BY <1>1, <1>2, <2>1, <2>3, HeldBegins
<1>4. CASE NestedGroup(p)
  <2>1. /\ pc'[p] = "open" /\ queue'[p] = Group(p, Window(p)) /\ target'[p] = Temp(p, tempCount[p])
        /\ probe'[p].count = Window(p) /\ tempCount[p] \in Nat
    BY <1>4, GoesTo DEF NestedGroup, BeginTemp, BeginKWay, Lists
  <2>2. MakingTemp(p)'
    BY <2>1, NameFacts DEF MakingTemp
  <2>3. Source(p)' = Range(queue[p])'
    <3>1. Source(p)' = Range(Group(p, probe[p].count))'
      BY <2>2 DEF Source
    <3> QED BY <1>2, <2>1, <3>1 DEF Group
  <2> QED BY <1>1, <1>2, <2>1, <2>3, HeldBegins
<1> QED BY <1>3, <1>4

(* or the thread looks at the next drive,                                  *)
LEMMA HeldTriesNextDrive ==
  ASSUME NEW p \in Players, TypeOK, Lists, PlayerOK(p), HeldOK(p), pc[p] \in {"probe", "claim"},
         disk' = disk, compress' = compress, inputs'[p] = inputs[p], stack'[p] = stack[p], TryNextDrive(p)
  PROVE  Carried(p)
<1>1. pc'[p] \in {"probe", "claim"}
  BY GoesTo DEF TryNextDrive
<1> QED BY <1>1, HeldMoves DEF Gathering

(* and begins with what it was granted room for.                           *)
LEMMA HeldClaim ==
  ASSUME NEW p \in Players, TypeOK, Lists, PlayerOK(p), HeldOK(p), Claim(p)
  PROVE  Carried(p)
<1>1. pc[p] = "claim" /\ disk' = disk /\ compress' = compress /\ inputs' = inputs /\ readers' = readers
  BY DEF Claim, planVars
<1>2. PICK k, b : k = probe[p].count /\ b = GroupBytes(p, k)
  OBVIOUS
<1>3. /\ stack[p] # <<>> /\ k \in Nat /\ Top(p) \in Calls /\ Depth(p) \in 1..Depth(p)
      /\ Top(p).pos + k <= Len(Top(p).ins) /\ tempCount[p] \in Nat
  <2>1. k \in 1..Window(p) /\ Depth(p) = 1
    BY <1>1, <1>2 DEF PlayerOK, PlaceOK
  <2> QED BY <1>1, <2>1, CallHolds DEF Within
<1>4. b \in Nat
  BY <1>2, <1>3, GroupIsOwn
<1>5. CASE SetTop(p, [Top(p) EXCEPT !.granted = b]) /\ BeginTemp(p, k) /\ UNCHANGED <<phase, probe>>
  <2>1. PICK call \in Calls : /\ call = [Top(p) EXCEPT !.granted = b] /\ call.ins = Top(p).ins
                              /\ call.pos = Top(p).pos /\ call.temps = Top(p).temps
    BY <1>3, <1>4, GrantedCall
  <2>2. SetTop(p, call)
    BY <1>5, <2>1
  <2>3. /\ Depth(p)' = Depth(p) /\ Top(p)' = call /\ stack'[p][Depth(p)] = call
        /\ \A i \in 1..Depth(p) : i # Depth(p) => stack'[p][i] = stack[p][i]
    BY <1>3, <2>2, SetTopFacts
  <2>4. /\ pc'[p] = "open" /\ queue'[p] = Group(p, k) /\ target'[p] = Temp(p, tempCount[p])
        /\ probe'[p].count = k
    BY <1>2, <1>5, GoesTo DEF BeginTemp, BeginKWay, Lists
  <2>5. MakingTemp(p)'
    BY <1>3, <2>4, NameFacts DEF MakingTemp
  <2>6. Source(p)' = Range(queue[p])'
    <3>1. Source(p)' = Range(Group(p, probe[p].count))'
      BY <2>5 DEF Source
    <3>2. Top(p)'.ins = Top(p).ins /\ Top(p)'.pos = Top(p).pos
      BY <2>1, <2>3
    <3>3. Group(p, probe[p].count)' = Group(p, k)
      BY <2>4, <3>2 DEF Group
    <3> QED BY <2>4, <3>1, <3>3
  <2>7. \A i \in 1..Depth(p) : /\ stack'[p][i].ins = stack[p][i].ins
                               /\ stack'[p][i].pos = stack[p][i].pos
                               /\ stack'[p][i].temps = stack[p][i].temps
    BY <2>1, <2>3 DEF Top
  <2> QED BY <1>1, <2>3, <2>4, <2>6, <2>7, HeldBegins
<1>6. CASE TryNextDrive(p) /\ UNCHANGED <<ledger, stack, queue, target, tempCount>>
  BY <1>1, <1>6, HeldTriesNextDrive
<1> QED BY <1>2, <1>5, <1>6 DEF Claim

(* The inputs passed now have their boards in one more temporary.          *)
LEMMA HeldFinishTemp ==
  ASSUME NEW p \in Players, TypeOK, Lists, PlayerOK(p), HeldOK(p), FinishTemp(p)
  PROVE  Carried(p)
<1>1. /\ pc[p] = "temp" /\ pc[p] \in Within /\ pc'[p] = "cascade" /\ disk' = disk /\ inputs' = inputs
      /\ compress' = compress
  BY GoesTo DEF FinishTemp, planVars, Within
<1>2. PICK x, k : x = target[p] /\ k = probe[p].count
  OBVIOUS
<1>3. x \in Names /\ k \in Nat /\ MakingTemp(p) /\ Top(p).pos + k <= Len(Top(p).ins)
  <2>1. MakingTemp(p) /\ x \in Names /\ k \in Nat
    BY <1>1, <1>2 DEF PlayerOK, PlaceOK, MakingTemp, Lists, Probes
  <2> QED BY <1>2, <2>1 DEF PlayerOK, PlaceOK
<1>4. /\ stack[p] # <<>> /\ Top(p) \in Calls /\ Top(p).temps \in Seq(Names)
      /\ Top(p).pos \in Nat /\ Top(p).ins \in Seq(Names) /\ Depth(p) \in Nat /\ Depth(p) \in 1..Depth(p)
  BY <1>1, CallHolds
<1>5. PICK c \in Calls, s \in Seq(Names), t \in Seq(Names), i \in Nat :
        c = Top(p) /\ s = Top(p).ins /\ t = Top(p).temps /\ i = Top(p).pos
  BY <1>4
<1>6. PICK u \in Seq(Names), j \in Nat : u = Append(t, x) /\ j = i + k /\ Range(u) = Range(t) \cup {x}
  <2>1. Append(t, x) \in Seq(Names) /\ Range(Append(t, x)) = Range(t) \cup {x}
    BY <1>3, AppendFacts
  <2>2. i + k \in Nat
    BY <1>3
  <2> QED BY <2>1, <2>2
<1>7. PICK call \in Calls : /\ call = [Top(p) EXCEPT !.pos = @ + k, !.temps = Append(@, x), !.granted = 0]
                            /\ call.ins = s /\ call.pos = j /\ call.temps = u
  <2>1. PICK call : call = [Top(p) EXCEPT !.pos = @ + k, !.temps = Append(@, x), !.granted = 0]
    OBVIOUS
  <2>2. call = [c EXCEPT !.pos = j, !.temps = u, !.granted = 0]
    BY <1>5, <1>6, <2>1
  <2>3. /\ c = [ins |-> c.ins, pos |-> c.pos, temps |-> c.temps, granted |-> c.granted]
        /\ c.ins \in Seq(Names) /\ c.ins = s
    BY <1>5 DEF Calls
  <2>4. call = [ins |-> s, pos |-> j, temps |-> u, granted |-> 0]
    BY <2>2, <2>3
  <2>5. call \in Calls /\ call.ins = s /\ call.pos = j /\ call.temps = u
    BY <2>4 DEF Calls
  <2> QED BY <2>1, <2>5
<1>8. SetTop(p, call)
  BY <1>2, <1>7 DEF FinishTemp
<1>9. /\ Depth(p)' = Depth(p) /\ stack'[p][Depth(p)] = call
      /\ \A m \in 1..Depth(p) : m # Depth(p) => stack'[p][m] = stack[p][m]
  BY <1>4, <1>8, SetTopFacts
<1>10. Passed(call) \subseteq Passed(c) \cup Range(Group(p, k))
  <2>1. PICK g : g = Group(p, k)
    OBVIOUS
  <2>2. g = SubSeq(s, i + 1, i + k) /\ i + k <= Len(s)
    BY <1>3, <1>5, <2>1 DEF Group
  <2>3. g \in Seq(Names) /\ Len(g) = k /\ \A m \in 1..k : g[m] = s[i + m]
    BY <1>3, <2>2, SubSeqFacts
  <2>4. ASSUME NEW m \in 1..j, m \notin 1..i PROVE s[m] \in Range(g)
    <3>1. m - i \in 1..k /\ i + (m - i) = m
      BY <1>3, <1>6, <2>4
    <3>2. g[m - i] = s[m] /\ m - i \in 1..Len(g)
      BY <2>3, <3>1
    <3> QED BY <2>3, <3>2, RangeFacts
  <2>5. Passed(call) = {s[m] : m \in 1..j} /\ Passed(c) = {s[m] : m \in 1..i}
    BY <1>5, <1>7 DEF Passed
  <2> QED BY <2>1, <2>4, <2>5
<1>11. BoardsOf(Range(Group(p, k))) \subseteq disk[x].boards
  <2>1. Source(p) = Range(Group(p, k))
    BY <1>2, <1>3 DEF Source
  <2> QED BY <1>1, <1>2, <2>1 DEF HeldOK, GroupHeld, Gathering
<1>12. CallHeld(p, Depth(p)) /\ c = stack[p][Depth(p)]
  BY <1>1, <1>4, <1>5 DEF HeldOK, Gathering, Top
<1>13. CallHeld(p, Depth(p))'
  <2>1. BoardsOf(Passed(call)) \subseteq BoardsOf(Range(u))
    <3>1. BoardsOf(Passed(c)) \subseteq BoardsOf(Range(t))
      BY <1>5, <1>12 DEF CallHeld
    <3> QED BY <1>6, <1>10, <1>11, <3>1 DEF BoardsOf
  <2>2. BoardsOf(Range(inputs[p])) \subseteq BoardsOf(Range(s))
    BY <1>5, <1>12 DEF CallHeld
  <2>3. BoardsOf(Passed(stack[p][Depth(p)]))' = BoardsOf(Passed(call))
    <3>1. Passed(stack[p][Depth(p)])' = Passed(call)
      BY <1>9 DEF Passed
    <3> QED BY <1>1, <3>1 DEF BoardsOf
  <2>4. /\ BoardsOf(Range(stack[p][Depth(p)].ins))' = BoardsOf(Range(s))
        /\ BoardsOf(Range(stack[p][Depth(p)].temps))' = BoardsOf(Range(u))
        /\ BoardsOf(Range(inputs[p]))' = BoardsOf(Range(inputs[p]))
    <3>1. Range(stack[p][Depth(p)].ins)' = Range(s) /\ Range(stack[p][Depth(p)].temps)' = Range(u)
      BY <1>7, <1>9
    <3> QED BY <1>1, <3>1 DEF BoardsOf
  <2> QED BY <2>1, <2>2, <2>3, <2>4 DEF CallHeld
<1>14. ASSUME NEW m \in 1..Depth(p) PROVE CallHeld(p, m)'
  <2>1. CASE m = Depth(p)
    BY <1>4, <1>9, <1>13, <2>1
  <2>2. CASE m # Depth(p)
    <3>1. CallHeld(p, m)
      BY <1>1 DEF HeldOK, Gathering
    <3> QED BY <1>1, <1>9, <2>2, <3>1, CallsHeld
  <2> QED BY <2>1, <2>2
<1>15. GroupHeld(p)' /\ OwnKept(p)
  BY <1>1 DEF GroupHeld, OwnKept, Own
<1> QED BY <1>1, <1>9, <1>14, <1>15, QuietHeld DEF Gathering, Gathered

(* When all inputs are passed the temporaries hold all boards, and are the *)
(* inputs of the next call.                                                *)
LEMMA HeldDescend ==
  ASSUME NEW p \in Players, TypeOK, Lists, PlayerOK(p), HeldOK(p), ~terminate, Descend(p)
  PROVE  Carried(p)
<1>1. /\ pc[p] = "cascade" /\ pc[p] \in Within /\ pc' = pc /\ disk' = disk /\ inputs' = inputs
      /\ compress' = compress /\ Top(p).pos = Len(Top(p).ins)
  BY DEF Descend, planVars, Within
<1>2. /\ stack[p] # <<>> /\ Top(p).ins \in Seq(Names) /\ Top(p).temps \in Seq(Names)
      /\ stack[p] \in Seq(Calls)
  BY <1>1, CallHolds, CallFacts
<1>3. PICK D \in Nat, c \in Calls : /\ D = Depth(p) /\ D = Len(stack[p]) /\ D \in 1..D /\ c = Call(Top(p).temps)
                                   /\ c.ins = Top(p).temps /\ c.pos = 0
  BY <1>1, <1>2, CallHolds, CallType DEF Depth
<1>4. PICK t : t = Append(stack[p], c)
  OBVIOUS
<1>5. /\ t \in Seq(Calls) /\ Len(t) = D + 1 /\ t[D + 1] = c /\ \A i \in 1..D : t[i] = stack[p][i]
  BY <1>2, <1>3, <1>4, AppendFacts
<1>6. stack'[p] = t
  BY <1>3, <1>4 DEF Descend, Lists
<1>7. Depth(p)' = D + 1 /\ \A i \in 1..(D + 1) : i \in 1..D \/ i = D + 1
  BY <1>3, <1>5, <1>6 DEF Depth
<1>8. CallHeld(p, D) /\ Top(p) = stack[p][D]
  BY <1>1, <1>3 DEF HeldOK, Gathering, Top
<1>9. BoardsOf(Range(inputs[p])) \subseteq BoardsOf(Range(Top(p).temps))
  <2>1. Passed(Top(p)) = Range(Top(p).ins)
    <3>1. PICK s \in Seq(Names) : s = Top(p).ins
      BY <1>2
    <3>2. Passed(Top(p)) = {s[i] : i \in 1..Len(s)}
      BY <1>1, <3>1 DEF Passed
    <3>3. Range(s) = {s[i] : i \in 1..Len(s)}
      BY RangeFacts
    <3> QED BY <3>1, <3>2, <3>3
  <2> QED BY <1>8, <2>1 DEF CallHeld
<1>10. CallHeld(p, D + 1)'
  <2>1. Passed(c) = {}
    BY <1>3 DEF Passed
  <2>2. /\ BoardsOf(Passed(stack[p][D + 1]))' = {}
    BY <1>5, <1>6, <2>1 DEF BoardsOf
  <2>3. /\ BoardsOf(Range(stack[p][D + 1].ins))' = BoardsOf(Range(Top(p).temps))
        /\ BoardsOf(Range(inputs[p]))' = BoardsOf(Range(inputs[p]))
    BY <1>1, <1>3, <1>5, <1>6 DEF BoardsOf
  <2> QED BY <1>3, <1>9, <2>2, <2>3 DEF CallHeld
<1>11. ASSUME NEW i \in 1..D PROVE CallHeld(p, i)'
  <2>1. CallHeld(p, i)
    BY <1>1, <1>3 DEF HeldOK, Gathering
  <2> QED BY <1>1, <1>3, <1>5, <1>6, <2>1, CallsHeld
<1>12. \A i \in 1..Depth(p)' : CallHeld(p, i)'
  BY <1>7, <1>10, <1>11
<1>13. GroupHeld(p)' /\ OwnKept(p)
  BY <1>1 DEF GroupHeld, OwnKept, Own
<1> QED BY <1>1, <1>12, <1>13, QuietHeld DEF Gathering, Gathered

(* CascadingMerge carries the boards on.                                   *)
LEMMA HeldCascade ==
  ASSUME NEW p \in Players, TypeOK, Lists, PlayerOK(p), HeldOK(p), ~terminate, CascadingMerge(p)
  PROVE  Carried(p)
<1>1. CASE NextGroup(p) \/ ReclaimTemp(p)
  <2>1. disk' = disk /\ compress' = compress /\ inputs' = inputs /\ stack' = stack
    BY <1>1 DEF NextGroup, ReclaimTemp, planVars
  <2>2. \/ pc[p] = "cascade" /\ pc'[p] = "probe"
        \/ pc[p] = "unwind" /\ pc'[p] = "deleteTemp"
    BY <1>1, GoesTo DEF NextGroup, MoreGroups, ReclaimTemp
  <2> QED BY <2>1, <2>2, HeldMoves DEF Gathering, Gathered
<1>2. CASE Probe(p)
  <2>1. pc[p] = "probe" /\ disk' = disk /\ compress' = compress /\ inputs' = inputs /\ stack' = stack
    BY <1>2 DEF Probe, planVars
  <2>2. TryNextDrive(p) \/ pc'[p] = "claim"
    BY <1>2, GoesTo DEF Probe
  <2>3. CASE TryNextDrive(p)
    BY <2>1, <2>3, HeldTriesNextDrive
  <2>4. CASE pc'[p] = "claim"
    BY <2>1, <2>4, HeldMoves DEF Gathering
  <2> QED BY <2>2, <2>3, <2>4
<1>3. CASE Return(p)
  <2>1. pc[p] = "unwind" /\ pc'[p] \in {"settle", "unwind"} /\ disk' = disk /\ compress' = compress
    BY <1>3, GoesTo DEF Return
  <2>2. OwnKept(p)
    BY <2>1 DEF OwnKept, Own
  <2> QED BY <2>1, <2>2, QuietHeld DEF Gathering, Gathered
<1>4. CASE DeleteTemp(p)
  <2>1. /\ pc[p] = "deleteTemp" /\ pc'[p] = "unwind" /\ disk' = Restrict(disk, DOMAIN disk \ {Head(Top(p).temps)})
    BY <1>4, GoesTo DEF DeleteTemp
  <2>2. /\ Top(p).temps \in Seq(Names) /\ Top(p).temps # <<>> /\ CallOK(p, Depth(p))
    BY <2>1, CallHolds DEF Within, PlayerOK, PlaceOK
  <2>3. Head(Top(p).temps) \in Range(Top(p).temps)
    BY <2>2, TailFacts
  <2>4. Head(Top(p).temps) \in Own(p) /\ Head(Top(p).temps).kind # "store"
    BY <2>2, <2>3 DEF CallOK, Top
  <2> QED BY <2>1, <2>4, HeldDeletes DEF Gathered
<1> QED BY <1>1, <1>2, <1>3, <1>4, HeldBeginsCall, HeldClaim, HeldFinishTemp, HeldDescend DEF CascadingMerge

(* No step loses a board of either player or brings one in.                *)
BoardsStay == ~terminate => \A p \in Players : OnDisk(p)' = OnDisk(p)

(* A step of a thread carries the player's boards on and leaves those of   *)
(* the other alone.                                                        *)
LEMMA BoardsThread ==
  ASSUME NEW p \in Players, EolInv, BoardsHeld, HandlesSuffice, phase = "merge", PlayerNext(p)
  PROVE  BoardsHeld' /\ BoardsStay
<1>1. TypeOK /\ Lists /\ (\A q \in Players : PlayerOK(q)) /\ terminate' = terminate
  BY FieldsStep DEF EolInv
<1>2. ASSUME ~terminate PROVE \A q \in Players : Carried(q)
  <2>1. \A q \in Players : HeldOK(q)
    BY <1>2 DEF BoardsHeld
  <2>2. Carried(p)
    <3>1. KWayMergeFiles(p) => Carried(p)
      BY <1>1, <1>2, <2>1, HeldOpenInput, HeldCreateOutput, HeldWriteOutput DEF KWayMergeFiles
    <3> QED BY <1>1, <1>2, <2>1, <3>1, HeldMergePlayer, HeldCascade DEF PlayerNext
  <2>3. ASSUME NEW q \in Players, q # p PROVE Carried(q)
    <3>1. Kept(q)
      BY <1>1, <2>3, OthersKept
    <3> QED BY <1>1, <2>1, <3>1, HeldKept
  <2> QED BY <2>2, <2>3
<1> QED BY <1>1, <1>2 DEF Carried, BoardsHeld, BoardsStay

(* Nor does the main thread touch a board.                                 *)
LEMMA BoardsStill ==
  ASSUME EolInv, BoardsHeld, ReserveOutputs \/ JoinThreads \/ Interrupt \/ Over \/ UNCHANGED vars
  PROVE  BoardsHeld' /\ BoardsStay
<1>1. TypeOK /\ Lists /\ \A q \in Players : PlayerOK(q)
  BY DEF EolInv
<1>2. terminate => terminate'
  BY DEF ReserveOutputs, JoinThreads, Interrupt, Over, vars
<1>3. /\ compress' = compress /\ disk' = disk /\ inputs' = inputs /\ stack' = stack /\ pc' = pc
      /\ probe' = probe /\ queue' = queue /\ readers' = readers /\ target' = target
      /\ tempCount' = tempCount
  BY DEF ReserveOutputs, JoinThreads, Interrupt, Over, vars, kwayVars, planVars
<1>4. ASSUME NEW p \in Players, HeldOK(p) PROVE Carried(p)
  <2>1. CASE ReserveOutputs
    <3>1. pc[p] = "begin" /\ pc'[p] = "begin"
      BY <1>3, <2>1 DEF ReserveOutputs, EolInv
    <3> QED BY <1>1, <1>3, <1>4, <3>1, HeldMoves DEF Gathering
  <2>2. CASE ~ReserveOutputs
    <3>1. reserved' = reserved /\ early' = early
      BY <2>2 DEF JoinThreads, Interrupt, Over, vars, planVars
    <3>2. Kept(p)
      BY <1>3, <3>1 DEF Kept, OwnKept, Own
    <3> QED BY <1>1, <1>4, <3>2, HeldKept
  <2> QED BY <2>1, <2>2
<1> QED BY <1>2, <1>4 DEF Carried, BoardsHeld, BoardsStay

(* The level's files are complete and hold all there is.                   *)
LEMMA BoardsBegin ==
  ASSUME Init
  PROVE  BoardsHeld
<1>1. ASSUME NEW p \in Players PROVE HeldOK(p)
  <2>1. Range(inputs[p]) = Own(p)
    BY <1>1, BeginFiles
  <2>2. pc[p] = "begin" /\ stack[p] = <<>> /\ Depth(p) = 0
    BY DEF Init, Depth
  <2>3. \A n \in Own(p) : disk[n].closed
    BY DEF Init, Own
  <2>4. 1..Depth(p) = {} /\ GroupHeld(p)
    BY <2>2 DEF GroupHeld
  <2> QED BY <2>1, <2>2, <2>3, <2>4 DEF HeldOK, Gathered
<1> QED BY <1>1 DEF BoardsHeld

(* The cascade keeps every board: as long as every reader can be opened, no*)
(* step before an interrupt loses a board of the level or brings one in.   *)
THEOREM BoardsSurvive == Spec /\ []HandlesSuffice => NoBoardLost
<1>1. Init => BoardsHeld
  BY BoardsBegin
<1>2. EolInv /\ BoardsHeld /\ HandlesSuffice /\ [Next]_vars => BoardsHeld' /\ BoardsStay
  <2> SUFFICES ASSUME EolInv, BoardsHeld, HandlesSuffice, [Next]_vars
               PROVE  BoardsHeld' /\ BoardsStay
    OBVIOUS
  <2>1. ASSUME NEW p \in Players, phase = "merge",
               mergePlayer(p) \/ CascadingMerge(p) \/ KWayMergeFiles(p)
        PROVE  BoardsHeld' /\ BoardsStay
    BY <2>1, BoardsThread DEF PlayerNext
  <2> QED BY <2>1, BoardsStill DEF Next
<1>3. BoardsStay => [~terminate => \A p \in Players : OnDisk(p)' = OnDisk(p)]_vars
  BY DEF BoardsStay
<1> QED BY <1>1, <1>2, <1>3, EolInvariant, PTL DEF Spec, NoBoardLost
=============================================================================
