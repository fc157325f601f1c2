---------------------------- MODULE BlasterFile ----------------------------
(***************************************************************************)
(* BLF files: one file written record by record, perhaps cut short by a    *)
(* crash or a failing disk, then opened and read back.                     *)
(*                                                                         *)
(* A file is a sequence of cells. A cell of a plain body is a 16-byte      *)
(* record <<cellsInUse, cellColors>>, one of a compressed body a byte, one *)
(* of an LZ4 body a mark or a block of the frame, which also weighs one    *)
(* byte. The trailer is four cells of 16 bytes. A cut falls between two    *)
(* cells. Integers have Half * 2 values, a varint digit Base.              *)
(***************************************************************************)
EXTENDS Integers, Sequences

CONSTANTS
  Keys,         \* records that may be written: pairs of integers
  MaxRecords,   \* bound: records of a file
  Half,         \* 2^63 in the code: the first value without a positive int64_t
  Base,         \* 2^7: values of a varint digit
  RecordBytes,  \* sizeof(BOARD_KEY_DISK), 16: bytes of a record and of a trailer's cell
  Magics,       \* BLF_MAGIC, BLFZ_MAGIC and BLFZL_MAGIC by the format they stand for
  VarBufSize,   \* BLF_COMP_WRITE_BUFFER_SIZE
  ReadBufSize,  \* BLF_COMP_READ_BUFFER_SIZE
  MaxCount      \* records a caller of BLFRead asks for

Word == 0..2 * Half - 1

(***************************************************************************)
(* Delta, zigzag, varint                                                   *)
(***************************************************************************)
Wrap(n) == n % (2 * Half)
Signed(u) == IF u < Half THEN u ELSE u - 2 * Half

\* The difference of two words as an int64_t: it wraps.
Delta(u, prev) == Signed(Wrap(u - prev))

ZZEncSigned(v) == Wrap(IF v < 0 THEN -v * 2 ELSE v * 2)
ZZEnc(v) == Wrap(IF v < 0 THEN -v * 2 - 1 ELSE v * 2)
ZZDec(u) == IF u % 2 = 1 THEN -((u \div 2) + 1) ELSE u \div 2

\* Low digit first, the continuation flag on all digits but the last.
VarInt[v \in Word] ==
  IF v < Base THEN <<v>> ELSE <<(v % Base) + Base>> \o VarInt[v \div Base]
VarIntPut(v) == VarInt[v]

MaxVarInt == Len(VarInt[2 * Half - 1])

\* The cells of a body at most: two varints a record and the marks of a frame.
MaxCells == MaxRecords * (2 * MaxVarInt) + 2

Formats == {"blf", "blfz", "blfzl"}

\* Sizes of files fit an int64_t. The first word of a board, which has the four
\* pieces in the middle, is a greater number than the cells of any file (times 16,
\* with what 64 bits lose of it, it still has them). The magics are three words
\* like any others, greater than a size: the colors of a board may be one.
ASSUME FileAssumption ==
  /\ {Half, Base, RecordBytes, MaxRecords, VarBufSize, ReadBufSize, MaxCount} \subseteq Nat \ {0}
  /\ Base > 1
  /\ Keys \subseteq Word \X Word
  /\ 2 * MaxVarInt <= VarBufSize
  /\ MaxCells < Half
  /\ \A key \in Keys : key[1] > MaxCells
  /\ Magics \in [Formats -> Word]
  /\ \A f, g \in Formats : Magics[f] > MaxCells /\ (Magics[f] = Magics[g] => f = g)

VARIABLES
  format,     \* the file's name: "blf", "blfz" or "blfzl"
  phase,      \* "write", "cut", "closed", "read", "mistaken", "refused" or "fatal"
  written,    \* history: records given to the writer
  varBuf,     \* varBuf and varBufPos
  prev,       \* prevF0 and prevF1 of the writer, then of the reader
  lz4,        \* bytes inside the LZ4 encoder, then decoded bytes not yet handed out
  file,       \* cells written to the file
  fileBytes,  \* bytes of the file on disk, once it is closed or cut
  result,     \* what BLFWriterClose returned: records and bytes
  trailer,    \* the reader's trailer
  at,         \* cells of the file read so far
  compBuf,    \* compBuf between compBufPos and compBufFilled
  decBuf,     \* lz4DecBuf likewise
  frameDone,  \* lz4FrameDone
  value, weight,    \* the varint under way: v, and 1 << sh
  firstField,       \* the first field of the record under way
  out         \* records delivered

writerVars == <<written, varBuf, fileBytes, result>>
readerVars == <<trailer, at, compBuf, decBuf, frameDone, value, weight, firstField, out>>
vars == <<format, phase, writerVars, prev, lz4, file, readerVars>>

Compressed == format # "blf"
Zero == <<0, 0>>
NoTrailer == [min |-> Zero, max |-> Zero, count |-> 0, size |-> 0, magic |-> "none"]
NoField == <<>>

FormatOf(m) == {f \in Formats : Magics[f] = m}

\* Cells of a compressed body. Read as fields of a trailer they say nothing that
\* fits. A size or a count below 2^40 ends in three zero bytes; of these two would
\* be both deltas of one record, the same board twice, which no sorted file has,
\* or the last digit of a longer varint, which is never zero. That sixteen bytes
\* of boards or of an LZ4 frame spell no magic and size is an abstraction.
Byte(b) == <<-1 - b, -9>>
Header == <<-98, -7>>
EndMark == <<-99, -8>>
Block(bytes) == <<bytes, -9>>
TrailerCells == 4

Init ==
  /\ format \in Formats
  /\ phase = "write"
  /\ written = <<>> /\ varBuf = <<>> /\ prev = Zero /\ lz4 = <<>> /\ fileBytes = 0
  /\ file = IF format = "blfzl" THEN <<Header>> ELSE <<>>
  /\ result = <<0, 0>>
  /\ trailer = NoTrailer /\ at = 0 /\ compBuf = <<>> /\ decBuf = <<>>
  /\ frameDone = FALSE /\ value = 0 /\ weight = 1 /\ firstField = NoField /\ out = <<>>

-----------------------------------------------------------------------------
(* BLFWriter *)

\* LZ4F_compressUpdate keeps what it was given or emits it as blocks.
FlushVarBuf(buf) ==
  IF format = "blfz" THEN <<file \o [i \in DOMAIN buf |-> Byte(buf[i])], lz4>>
  ELSE <<file, lz4 \o buf>>

LZ4Emits ==
  /\ phase = "write" /\ format = "blfzl" /\ lz4 # <<>>
  /\ file' = Append(file, Block(lz4))
  /\ lz4' = <<>>
  /\ UNCHANGED <<format, phase, writerVars, prev, readerVars>>

Encoded(key) ==
  VarIntPut(ZZEnc(Delta(key[1], prev[1]))) \o VarIntPut(ZZEnc(Delta(key[2], prev[2])))

NeedsFlushOne == Len(varBuf) + MaxVarInt > VarBufSize
\* Room for two varints of the greatest length.
NeedsFlush == Len(varBuf) + 2 * MaxVarInt > VarBufSize

BLFWriterRecord(key) ==
  /\ phase = "write" /\ Len(written) < MaxRecords
  /\ IF Compressed
     THEN LET flushed == IF NeedsFlush THEN FlushVarBuf(varBuf) ELSE <<file, lz4>>
          IN  /\ file' = flushed[1] /\ lz4' = flushed[2]
              /\ varBuf' = (IF NeedsFlush THEN <<>> ELSE varBuf) \o Encoded(key)
              /\ prev' = key
     ELSE file' = Append(file, key) /\ UNCHANGED <<lz4, varBuf, prev>>
  /\ written' = Append(written, key)
  /\ UNCHANGED <<format, phase, fileBytes, result, readerVars>>

\* BLFWrite: a plain file at one go.
BLFWrite(first, second) ==
  /\ phase = "write" /\ written = <<>> /\ ~Compressed /\ MaxRecords >= 2
  /\ written' = <<first, second>>
  /\ file' = <<first, second>>
  /\ UNCHANGED <<format, phase, varBuf, prev, lz4, fileBytes, result, readerVars>>

Trailer(body) ==
  LET n == Len(written)
  IN  <<IF n = 0 THEN Zero ELSE written[1], IF n = 0 THEN Zero ELSE written[n],
        <<n, IF Compressed THEN Len(body) ELSE 0>>, <<0, Magics[format]>>>>

\* What the writer has sent to the stream when it is closed.
Body ==
  LET flushed == FlushVarBuf(varBuf)
      blocks == IF flushed[2] = <<>> THEN <<>> ELSE <<Block(flushed[2])>>
  IN  IF format = "blfzl" THEN flushed[1] \o blocks \o <<EndMark>>
      ELSE IF format = "blfz" THEN flushed[1] ELSE file

Stream == Body \o Trailer(Body)

Smaller(a, b) == IF a < b THEN a ELSE b

\* The bytes of the first n cells of the stream.
StreamBytes(n) ==
  LET small == IF Compressed THEN Smaller(n, Len(Body)) ELSE 0
  IN  small + RecordBytes * (n - small)

BLFWriterClose ==
  /\ phase = "write"
  /\ file' = Stream
  /\ fileBytes' = StreamBytes(Len(Stream))
  /\ result' = <<Len(written), StreamBytes(Len(Stream))>>
  /\ phase' = "closed"
  /\ prev' = Zero /\ varBuf' = <<>> /\ lz4' = <<>>
  /\ UNCHANGED <<format, written, readerVars>>

\* The last buffered cells do not reach the disk: the process dies while it
\* writes or closes, or fclose fails, which nobody looks at.
CutShort ==
  /\ phase = "write"
  /\ \E n \in 0..Len(Stream) - 1 :
       file' = SubSeq(Stream, 1, n) /\ fileBytes' = StreamBytes(n)
  /\ phase' = "cut"
  /\ prev' = Zero /\ varBuf' = <<>> /\ lz4' = <<>>
  /\ UNCHANGED <<format, written, result, readerVars>>

-----------------------------------------------------------------------------
(* BLFOpen: magic and size must fit. *)

Cell(i) == file[Len(file) - TrailerCells + i]
LastCells ==
  [min |-> Cell(1), max |-> Cell(2), count |-> Cell(3)[1], size |-> Cell(3)[2],
   magic |-> Cell(4)[2]]

TrailerBytes == TrailerCells * RecordBytes

SizeFitsCompressedOnly(t, f) == f # "blf" => fileBytes = t.size + TrailerBytes
SizeFits(t, f) ==
  fileBytes = TrailerBytes + (IF f = "blf" THEN t.count * RecordBytes ELSE t.size)

Readable(t) == \E f \in FormatOf(t.magic) : SizeFits(t, f)

Refuse ==
  /\ phase \in {"closed", "cut"}
  /\ fileBytes >= TrailerBytes => ~Readable(LastCells)
  /\ phase' = "refused"
  /\ UNCHANGED <<format, writerVars, prev, lz4, file, readerVars>>

\* The magic, not the name, says how to read the file. What is read from a file
\* that was cut and opens by mistake is left out.
BLFOpen ==
  /\ phase \in {"closed", "cut"}
  /\ fileBytes >= TrailerBytes /\ Readable(LastCells)
  /\ trailer' = LastCells
  /\ format' = CHOOSE f \in FormatOf(LastCells.magic) : TRUE
  /\ phase' = IF phase = "closed" THEN "read" ELSE "mistaken"
  /\ UNCHANGED <<writerVars, prev, lz4, file, at, compBuf, decBuf, frameDone,
                 value, weight, firstField, out>>

-----------------------------------------------------------------------------
(* BLFRead *)

Remaining == trailer.count - Len(out)

ReadPlain ==
  /\ phase = "read" /\ format = "blf" /\ Remaining > 0
  /\ LET want == Smaller(Remaining, MaxCount)
     IN  /\ out' = out \o SubSeq(file, at + 1, at + want)
         /\ at' = at + want
  /\ UNCHANGED <<format, phase, writerVars, prev, lz4, file, trailer, compBuf,
                 decBuf, frameDone, value, weight, firstField>>

Reading == phase = "read" /\ Compressed /\ Remaining > 0
Consumed == at - Len(compBuf)

\* The compressed buffer is read when it is empty, never past the body.
Refill(wanted) ==
  /\ Reading /\ wanted /\ compBuf = <<>>
  /\ LET toRead == Smaller(trailer.size - Consumed, ReadBufSize)
     IN  /\ compBuf' = SubSeq(file, at + 1, at + toRead)
         /\ at' = at + toRead
         /\ phase' = IF format = "blfzl" /\ toRead = 0 THEN "fatal" ELSE phase
  /\ UNCHANGED <<format, writerVars, prev, lz4, file, trailer, decBuf, frameDone,
                 value, weight, firstField, out>>

RefillVarInts == Refill(format = "blfz")
RefillFrame == Refill(format = "blfzl" /\ decBuf = <<>> /\ ~frameDone)

\* One call of LZ4F_decompress: bytes still in the decoder come first, then the
\* next mark or block is taken in.
Decompress ==
  /\ Reading /\ format = "blfzl" /\ decBuf = <<>> /\ compBuf # <<>> /\ ~frameDone
  /\ LET cell == Head(compBuf)[1]
         isMark == lz4 = <<>> /\ Head(compBuf)[2] # -9
         fresh == IF lz4 # <<>> THEN lz4 ELSE IF isMark THEN <<>> ELSE cell
         n == Smaller(Len(fresh), ReadBufSize)
     IN  /\ decBuf' = SubSeq(fresh, 1, n)
         /\ lz4' = SubSeq(fresh, n + 1, Len(fresh))
         /\ compBuf' = IF lz4 # <<>> THEN compBuf ELSE Tail(compBuf)
         /\ frameDone' = (isMark /\ Head(compBuf)[2] = -8)
  /\ UNCHANGED <<format, phase, writerVars, prev, file, trailer, at, value, weight,
                 firstField, out>>

Source == IF format = "blfz" THEN compBuf ELSE decBuf

ByteOf(c) == IF format = "blfz" THEN -1 - c[1] ELSE c

\* The digit at its place: what is shifted beyond the width is lost.
WithDigit(d) == Wrap(value + d * weight)

\* BLFZReadByte's result, as the digit loop of BLFZReadVarInt takes it.
TakeDigit ==
  /\ Reading /\ Source # <<>> /\ ByteOf(Head(Source)) >= Base
  /\ value' = WithDigit(ByteOf(Head(Source)) - Base)
  /\ weight' = weight * Base
  /\ IF format = "blfz" THEN compBuf' = Tail(compBuf) /\ UNCHANGED decBuf
                        ELSE decBuf' = Tail(decBuf) /\ UNCHANGED compBuf
  /\ UNCHANGED <<format, phase, writerVars, prev, lz4, file, trailer, at,
                 frameDone, firstField, out>>

\* The last digit ends a varint, the second varint ends a record.
TakeLastDigit ==
  /\ Reading /\ Source # <<>> /\ ByteOf(Head(Source)) < Base
  /\ LET zz == WithDigit(ByteOf(Head(Source)))
         field == Len(firstField) + 1
         sum == Wrap(prev[field] + ZZDec(zz))
     IN  /\ prev' = [prev EXCEPT ![field] = sum]
         /\ IF firstField = NoField THEN firstField' = <<sum>> /\ UNCHANGED out
                             ELSE firstField' = NoField /\ out' = Append(out, Append(firstField, sum))
  /\ value' = 0 /\ weight' = 1
  /\ IF format = "blfz" THEN compBuf' = Tail(compBuf) /\ UNCHANGED decBuf
                        ELSE decBuf' = Tail(decBuf) /\ UNCHANGED compBuf
  /\ UNCHANGED <<format, phase, writerVars, lz4, file, trailer, at, frameDone>>

\* BLFRead returns 0 from here on; BLFClose.
BLFClose ==
  /\ phase = "read" /\ Remaining = 0
  /\ UNCHANGED vars

-----------------------------------------------------------------------------
Writer ==
  \/ \E key \in Keys : BLFWriterRecord(key)
  \/ \E key, next \in Keys : BLFWrite(key, next)
  \/ LZ4Emits \/ BLFWriterClose \/ CutShort

Reader ==
  \/ BLFOpen \/ Refuse \/ ReadPlain \/ RefillVarInts \/ RefillFrame \/ Decompress
  \/ TakeDigit \/ TakeLastDigit \/ BLFClose

Next == Writer \/ Reader \/ (phase \in {"refused", "mistaken"} /\ UNCHANGED vars)

Spec == Init /\ [][Next]_vars

-----------------------------------------------------------------------------
(* Properties *)

\* Values keep to their width, no digit of a varint is shifted by it or more, and
\* the writer's buffer holds any two varints when BLFWriterRecord appends them
\* unchecked (BlasterFile.cpp:185).
TypeOK ==
  /\ format \in Formats
  /\ phase \in {"write", "cut", "closed", "read", "mistaken", "refused", "fatal"}
  /\ Len(varBuf) <= VarBufSize /\ \A i \in DOMAIN varBuf : varBuf[i] \in 0..2 * Base - 1
  /\ prev \in Word \X Word
  /\ Len(compBuf) <= ReadBufSize /\ Len(decBuf) <= ReadBufSize
  /\ value \in Word /\ weight \in Word
  /\ \A i \in DOMAIN out : out[i] \in Word \X Word

\* The last two cells on the disk are boards, records or the trailer's keys: the
\* colors of the last are a compressed magic, those of the other the file's size.
EndsLikeTrailer ==
  LET n == Len(file)
  IN  /\ n > 1 /\ {file[n - 1], file[n]} \subseteq Keys
      /\ file[n][2] \in {Magics["blfz"], Magics["blfzl"]}
      /\ fileBytes = file[n - 1][2] + TrailerBytes

\* Wherever the stream was cut, magic and size give it away (BlasterFile.h:20-21)
\* but for two boards of the 8x8 game that together read like the trailer of a
\* compressed file. Colors that are the plain magic never do: the count before them
\* would be the pieces of a board. A file that was closed is never refused.
OpensOnlyWhole ==
  /\ phase \in {"read", "mistaken"} => result = <<Len(written), fileBytes>> \/ EndsLikeTrailer
  /\ phase = "refused" => result = <<0, 0>>

\* What is read is what was written, in its order, in all three formats and for
\* all keys: deltas may wrap, a record may straddle two buffers or two blocks,
\* and the reader never runs dry before the last record.
ReadsBack ==
  /\ out = SubSeq(written, 1, Len(out))
  /\ phase # "fatal"
  /\ phase = "read" =>
       /\ trailer.count = Len(written)
       /\ Remaining > 0 /\ Compressed =>
            Source # <<>> \/ lz4 # <<>> \/ Consumed < trailer.size
=============================================================================
