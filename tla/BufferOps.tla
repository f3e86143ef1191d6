----------------------------- MODULE BufferOps -----------------------------
(***************************************************************************)
(* BufferBase (core/Buffer.h) as values: a buffer is a record, and each    *)
(* operation a function from the buffer before to the buffer after.  The   *)
(* fields are the members; mData and mAllocatedSize are the sequence cells *)
(* (a null pointer is the empty one), whose elements are bytes or, for     *)
(* larger objects, whatever the caller takes as its unit.  A position p is *)
(* the cell p + 1.                                                         *)
(*                                                                         *)
(* BOOST_ASSERTs and the exceptions of type length_error are               *)
(* preconditions, stated by the operators ...Ok.  ZeroOk and StreamInOk    *)
(* hold more than the code asserts, as their comments say: without it the  *)
(* code writes behind the memory.                                          *)
(***************************************************************************)
EXTENDS Integers, Sequences, SequencesExt

CONSTANT Junk             \* the content of memory that was never written

Uninitialized(n) == [i \in 1..n |-> Junk]

-----------------------------------------------------------------------------
(* Construction, copy, move                                                *)

Blank(mode) ==
  [mode |-> mode, cells |-> <<>>, mOwner |-> TRUE, mReadOnly |-> FALSE, mOnDemand |-> FALSE,
   mReadPos |-> 0, mWritePos |-> 0, mReadPosMarked |-> 0, mWritePosMarked |-> 0]

NewOnDemand(mode) == [Blank(mode) EXCEPT !.mOnDemand = TRUE]

\* A circular buffer has a cell more, which is never filled.
NewSized(mode, size) ==
  [Blank(mode) EXCEPT !.cells = Uninitialized(IF mode = "plain" THEN size ELSE size + 1)]

\* Over memory of the caller: the two constructors differ in mReadOnly.
NewOver(mode, memory, readOnly) ==
  [Blank(mode) EXCEPT !.cells = memory, !.mOwner = FALSE, !.mReadOnly = readOnly]

\* The copy constructor.  The copy of an owner is mutable.
CopyOf(x) == [x EXCEPT !.mReadOnly = IF x.mOwner THEN FALSE ELSE @]

\* What a move leaves behind.
MovedFrom(x) == [Blank(x.mode) EXCEPT !.mOwner = FALSE]

\* Copy assignment leaves mOnDemand of the target alone.
AssignedFrom(x, y) == [CopyOf(y) EXCEPT !.mOnDemand = x.mOnDemand]

-----------------------------------------------------------------------------
(* Sizes and memory                                                        *)

mAllocatedSize(x) == Len(x.cells)
AllocatedSize(x) == IF x.mode = "plain" THEN mAllocatedSize(x) ELSE mAllocatedSize(x) - 1

DataSize(x) ==
  IF x.mode = "circular" /\ x.mWritePos < x.mReadPos
  THEN mAllocatedSize(x) - x.mReadPos + x.mWritePos
  ELSE x.mWritePos - x.mReadPos

FreeSize(x) == AllocatedSize(x) - DataSize(x)

\* Where the position p of an access lies that may cross the end.
Place(x, p) == IF p >= mAllocatedSize(x) THEN p - mAllocatedSize(x) ELSE p

\* getDirect and getArray: size cells from a position.
GetArray(x, position, size) == [i \in 1..size |-> x.cells[Place(x, position + i - 1) + 1]]

\* setDirect and setArray.
SetArray(x, source, position) ==
  [x EXCEPT !.cells = [q \in DOMAIN @ |->
     LET hit == {i \in DOMAIN source : Place(x, position + i - 1) + 1 = q}
     IN  IF hit = {} THEN @[q] ELSE source[CHOOSE i \in hit : TRUE]]]

Content(x) == GetArray(x, x.mReadPos, DataSize(x))

\* Mutant: an empty circular buffer is taken for a full one.
RangesOfFullLap(x, r, w) ==
  IF x.mode = "plain" THEN <<<<r, w>>>>
  ELSE IF w <= r THEN <<<<r, mAllocatedSize(x)>>, <<0, w>>>>
  ELSE <<<<r, w>>>>

\* getDataRanges, as the positions of the first and behind the last cell.  The
\* second range is there, and empty, when the data ends at the end of the memory.
Ranges(x, r, w) ==
  IF x.mode = "plain" THEN <<<<r, w>>>>
  ELSE IF w < r THEN <<<<r, mAllocatedSize(x)>>, <<0, w>>>>
  ELSE IF w # r THEN <<<<r, w>>>> ELSE <<>>
DataRanges(x) == Ranges(x, x.mReadPos, x.mWritePos)

\* getDataRangesFromMark leaves the empty second range out.
DataRangesFromMark(x) ==
  LET s == Ranges(x, x.mReadPosMarked, x.mWritePosMarked)
  IN  IF Len(s) = 2 /\ s[2][2] = 0 THEN <<s[1]>> ELSE s

-----------------------------------------------------------------------------
(* Positions                                                               *)

RSkipOk(x, n) == IF x.mode = "plain" THEN x.mReadPos + n <= mAllocatedSize(x) ELSE n <= DataSize(x)
WSkipOk(x, n) == IF x.mode = "plain" THEN x.mWritePos + n <= mAllocatedSize(x) ELSE n <= FreeSize(x)

Forward(x, p, n) == IF x.mode = "plain" THEN p + n ELSE Place(x, p + n)
RSkip(x, n) == [x EXCEPT !.mReadPos = Forward(x, @, n)]
WSkip(x, n) == [x EXCEPT !.mWritePos = Forward(x, @, n)]

RRevOk(x, n) == IF x.mode = "plain" THEN n <= x.mReadPos ELSE n <= mAllocatedSize(x) - 1
WRevOk(x, n) == IF x.mode = "plain" THEN n <= x.mWritePos ELSE n <= mAllocatedSize(x) - 1

\* Mutant: the size that the client sees, without the cell that is never filled.
BackwardInUsable(x, p, n) == IF p < n THEN AllocatedSize(x) - (n - p) ELSE p - n

Backward(x, p, n) == IF p < n THEN mAllocatedSize(x) - (n - p) ELSE p - n
RRev(x, n) == [x EXCEPT !.mReadPos = Backward(x, @, n)]
WRev(x, n) == [x EXCEPT !.mWritePos = Backward(x, @, n)]

MarkRead(x) == [x EXCEPT !.mReadPosMarked = x.mReadPos]
MarkWrite(x) == [x EXCEPT !.mWritePosMarked = x.mWritePos]
Mark(x) == MarkRead(MarkWrite(x))
ResetRead(x) == [x EXCEPT !.mReadPos = x.mReadPosMarked]
ResetWrite(x) == [x EXCEPT !.mWritePos = x.mWritePosMarked]

\* reset() forgets the marks, the other two keep them.
Reset(x) == [ResetRead(ResetWrite(x)) EXCEPT !.mReadPosMarked = 0, !.mWritePosMarked = 0]

Clear(x) ==
  [x EXCEPT !.mReadPos = 0, !.mWritePos = 0, !.mReadPosMarked = 0, !.mWritePosMarked = 0]

\* zero() clears freeSize() bytes from the write position on; they end inside the
\* memory only while nothing before it is free, which no assertion asks.
ZeroOk(x) == FreeSize(x) >= 0 /\ x.mWritePos + FreeSize(x) <= mAllocatedSize(x)
Zero(x) == SetArray(x, [i \in 1..FreeSize(x) |-> 0], x.mWritePos)

-----------------------------------------------------------------------------
(* crunch and resize                                                       *)

\* A plain buffer that has nothing to move stays as it is.
CrunchMoves(x) == x.mode = "circular" \/ (DataSize(x) > 0 /\ x.mReadPos > 0)

\* The data moves to the front; the marks stay where they were.
Crunched(x) ==
  IF ~CrunchMoves(x) THEN x
  ELSE LET s == Content(x)
       IN  [SetArray(x, s, 0) EXCEPT !.mReadPos = 0, !.mWritePos = Len(s)]

\* realloc keeps the cells there are.
Resized(x, size) ==
  LET y == IF x.mode = "circular" THEN Crunched(x) ELSE x
  IN  [y EXCEPT !.cells = @ \o Uninitialized(size - Len(@))]

\* round_up_to_nearest_power_of_two::apply, on sizes up to MaxSize.  Nothing is
\* rounded up to nothing: 0 - 1 has all its bits set, and 1 more is 0.
MaxSize == 1073741824
PowersOfTwo ==
  {1, 2, 4, 8, 16, 32, 64, 128, 256, 512, 1024, 2048, 4096, 8192, 16384, 32768, 65536,
   131072, 262144, 524288, 1048576, 2097152, 4194304, 8388608, 16777216, 33554432,
   67108864, 134217728, 268435456, 536870912, MaxSize}
RoundUp(n) == IF n = 0 THEN 0 ELSE CHOOSE p \in PowersOfTwo : n <= p /\ p < 2 * n

-----------------------------------------------------------------------------
(* Reading and writing                                                     *)

\* Cells a buffer needs to hold n more.
Needed(x, n) == IF x.mode = "plain" THEN x.mWritePos + n ELSE DataSize(x) + n + 1

WriteOk(x, n) == ~x.mReadOnly /\ (x.mOnDemand \/ mAllocatedSize(x) >= Needed(x, n))

Grown(x, n) ==
  IF ~x.mOnDemand \/ mAllocatedSize(x) >= Needed(x, n) THEN x
  ELSE IF x.mode = "plain" THEN Resized(x, RoundUp(x.mWritePos + n))
  ELSE Resized(x, RoundUp(DataSize(x) + n) + 1)

\* writeDirect and writeArray.
WriteArray(x, source) ==
  LET y == Grown(x, Len(source))
  IN  WSkip(SetArray(y, source, y.mWritePos), Len(source))

\* readDirect and readArray: the cells.  They assert what rskip asserts, which in a
\* plain buffer is the end of the memory and not that of the data.
ReadOk(x, n) == RSkipOk(x, n)
ReadArray(x, n) == GetArray(x, x.mReadPos, n)

\* The n cells at the read position do not cross the end of the memory.
OnePiece(x, n) == x.mReadPos + n <= mAllocatedSize(x)

\* append takes the source's data at rptr() as one range, also where it goes on at
\* the start of circular memory: what lies behind the memory is copied.
AppendOk(x, y, n) == n <= DataSize(y) /\ WriteOk(x, n)
AppendSource(y, n) ==
  [i \in 1..n |-> IF y.mReadPos + i <= mAllocatedSize(y) THEN y.cells[y.mReadPos + i] ELSE Junk]

\* operator>> of a stream asserts freeSize(), which counts the cells that were read;
\* only those from the write position on are there for it, which no assertion asks.
StreamInOk(x, n) == n <= FreeSize(x) /\ x.mWritePos + n <= mAllocatedSize(x)
=============================================================================
