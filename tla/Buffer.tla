------------------------------- MODULE Buffer -------------------------------
(***************************************************************************)
(* Clients of BufferT (core/Buffer.h): buffers that are constructed,       *)
(* copied, moved, assigned, written, read, rewound, crunched, grown and    *)
(* appended to each other in any order the assertions of the code allow.   *)
(* Clients keep to more than the assertions in four places: they read no   *)
(* more than dataSize() (the code checks it of circular buffers only),     *)
(* rewind and return to marks only inside what the buffer still holds, and *)
(* call zero() and operator>> only where BufferOps allows it.              *)
(*                                                                         *)
(* A client has its own view of a buffer, kept in the history variable     *)
(* view: the cells it has read and may go back to, the cells it has still  *)
(* to read, and the marks it has set in them.                              *)
(***************************************************************************)
EXTENDS BufferOps

CONSTANTS
  Name,                   \* the variables of the client that hold buffers
  Mode,                   \* Name -> "plain" or "circular"
  Cell,                   \* what is written
  Span,                   \* how many cells a call may be about
  Capacity,               \* bound: cells of a buffer of fixed size
  MaxCells,               \* bound: cells of a buffer that grows
  NULL

ASSUME SizeAssumption == Capacity \in Nat /\ MaxCells \in 0..MaxSize /\ Span \subseteq Nat
ASSUME CellAssumption == Junk \notin Cell /\ Mode \in [Name -> {"plain", "circular"}]

VARIABLES
  buf,                    \* Name -> the buffer, or NULL
  view                    \* Name -> [back, next, rmark, wmark]; a mark counts cells of
                          \* back \o next, and is NULL if the cells were moved
bufferVars == <<buf, view>>

NewView == [back |-> <<>>, next |-> <<>>, rmark |-> 0, wmark |-> 0]
Moved(v) == [back |-> <<>>, next |-> v.next, rmark |-> NULL, wmark |-> NULL]

BufferInit ==
  /\ buf = [b \in Name |-> NULL]
  /\ view = [b \in Name |-> NewView]

Alive(b) == buf[b] # NULL
Becomes(b, x, v) ==
  /\ buf' = [buf EXCEPT ![b] = x]
  /\ view' = [view EXCEPT ![b] = v]

-----------------------------------------------------------------------------
(* Objects                                                                 *)

\* The constructors of BufferT.
Construct(b) ==
  /\ ~Alive(b)
  /\ \E x \in {NewOnDemand(Mode[b]), NewSized(Mode[b], Capacity),
               NewOver(Mode[b], Uninitialized(Capacity), FALSE),
               NewOver(Mode[b], Uninitialized(Capacity), TRUE)} :
       Becomes(b, x, NewView)

Destroy(b) ==
  /\ Alive(b)
  /\ Becomes(b, NULL, NewView)

\* A buffer over the caller's memory shares it with its copy: clients use one of them.
Shares(x) == ~x.mOwner /\ x.cells # <<>>

\* Construction from, or assignment of, another buffer of the same class.
Copy(b, c) ==
  /\ b # c /\ Mode[b] = Mode[c]
  /\ Alive(c) /\ ~Shares(buf[c])
  /\ Becomes(b, IF Alive(b) THEN AssignedFrom(buf[b], buf[c]) ELSE CopyOf(buf[c]), view[c])

Move(b, c) ==
  /\ b # c /\ Mode[b] = Mode[c]
  /\ Alive(c)
  /\ buf' = [buf EXCEPT ![b] = buf[c], ![c] = MovedFrom(buf[c])]
  /\ view' = [view EXCEPT ![b] = view[c], ![c] = NewView]

\* setMutable(bool) of BufferBase, which a read-only buffer needs before it is
\* written; the setMutable() of the concurrently pooled BufferT does nothing.
SetMutable(b) ==
  /\ Alive(b) /\ buf[b].mReadOnly
  /\ Becomes(b, [buf[b] EXCEPT !.mReadOnly = FALSE], view[b])

-----------------------------------------------------------------------------
(* Cells                                                                   *)

\* In a circular buffer the cells behind the reader are there until the writer
\* comes round to them: x is the buffer after a write, v the view that has it.
Trimmed(x, v) ==
  LET k == IF x.mode = "circular" /\ Len(v.back) > FreeSize(x) THEN Len(v.back) - FreeSize(x) ELSE 0
      Shift(m) == IF m = NULL \/ m < k THEN NULL ELSE m - k
  IN  IF k = 0 THEN v
      ELSE [back |-> SubSeq(v.back, k + 1, Len(v.back)), next |-> v.next,
            rmark |-> Shift(v.rmark), wmark |-> Shift(v.wmark)]

\* The view after s has been written to a buffer that was x before and is y now.
ViewAfterWrite(x, y, v, s) ==
  LET u == IF x.mode = "circular" /\ y.cells # <<>> /\ Len(x.cells) # Len(y.cells) THEN Moved(v) ELSE v
  IN  Trimmed(y, [u EXCEPT !.next = @ \o s])

\* Only memory of its own can be reallocated.
MayGrow(x, n) ==
  (x.mOnDemand /\ mAllocatedSize(x) < Needed(x, n)) =>
    /\ x.mOwner \/ x.cells = <<>>
    /\ Needed(x, n) <= MaxCells /\ mAllocatedSize(Grown(x, n)) <= MaxCells

Write(b, s) ==
  /\ Alive(b)
  /\ WriteOk(buf[b], Len(s)) /\ MayGrow(buf[b], Len(s))
  /\ LET y == WriteArray(buf[b], s)
     IN  Becomes(b, y, ViewAfterWrite(buf[b], y, view[b], s))

ViewAfterRead(v, n) ==
  [v EXCEPT !.back = @ \o SubSeq(v.next, 1, n), !.next = SubSeq(@, n + 1, Len(@))]

\* read, and rskip without a look at the cells.  Clients stop at the end of the data.
Read(b, n) ==
  /\ Alive(b)
  /\ ReadOk(buf[b], n) /\ n <= DataSize(buf[b])
  /\ Becomes(b, RSkip(buf[b], n), ViewAfterRead(view[b], n))

\* wskip: what lies there becomes data.
SkipWrite(b, n) ==
  /\ Alive(b) /\ buf[b].cells # <<>>
  /\ WSkipOk(buf[b], n)
  /\ LET y == WSkip(buf[b], n)
     IN  Becomes(b, y, ViewAfterWrite(buf[b], y, view[b], GetArray(buf[b], buf[b].mWritePos, n)))

\* The view with the read position at k and the write position at m of back \o next.
ViewAt(v, k, m) ==
  LET s == v.back \o v.next
  IN  [v EXCEPT !.back = SubSeq(s, 1, k), !.next = SubSeq(s, k + 1, m)]

RewindRead(b, n) ==
  LET k == Len(view[b].back) - n
  IN  /\ Alive(b)
      /\ k >= 0 /\ RRevOk(buf[b], n)
      /\ Becomes(b, RRev(buf[b], n), ViewAt(view[b], k, Len(view[b].back \o view[b].next)))

RewindWrite(b, n) ==
  /\ Alive(b)
  /\ n <= Len(view[b].next) /\ WRevOk(buf[b], n)
  /\ Becomes(b, WRev(buf[b], n),
             [view[b] EXCEPT !.next = SubSeq(@, 1, Len(@) - n)])

SetMarks(b) ==
  LET v == view[b]
      r == Len(v.back)
      w == Len(v.back \o v.next)
  IN  /\ Alive(b)
      /\ \/ Becomes(b, Mark(buf[b]), [v EXCEPT !.rmark = r, !.wmark = w])
         \/ Becomes(b, MarkRead(buf[b]), [v EXCEPT !.rmark = r])
         \/ Becomes(b, MarkWrite(buf[b]), [v EXCEPT !.wmark = w])

\* A client goes back to a mark in the cells it has.
ReadMarkOk(b) == view[b].rmark # NULL /\ view[b].rmark <= Len(view[b].back)
WriteMarkOk(b, r) ==
  LET v == view[b]
  IN  v.wmark # NULL /\ r <= v.wmark /\ v.wmark <= Len(v.back \o v.next)

GoToMarks(b) ==
  LET v == view[b]
      w == Len(v.back \o v.next)
  IN  /\ Alive(b)
      /\ \/ /\ ReadMarkOk(b) /\ WriteMarkOk(b, v.rmark)
            /\ Becomes(b, Reset(buf[b]), [ViewAt(v, v.rmark, v.wmark) EXCEPT !.rmark = NULL, !.wmark = NULL])
         \/ /\ ReadMarkOk(b)
            /\ Becomes(b, ResetRead(buf[b]), ViewAt(v, v.rmark, w))
         \/ /\ WriteMarkOk(b, Len(v.back))
            /\ Becomes(b, ResetWrite(buf[b]), ViewAt(v, Len(v.back), v.wmark))

Crunch(b) ==
  /\ Alive(b)
  /\ Becomes(b, Crunched(buf[b]), IF CrunchMoves(buf[b]) THEN Moved(view[b]) ELSE view[b])

ClearAll(b) ==
  /\ Alive(b)
  /\ Becomes(b, Clear(buf[b]), NewView)

\* zero() forgets what is behind the reader of a circular buffer.
ZeroFree(b) ==
  /\ Alive(b) /\ ~buf[b].mReadOnly
  /\ ZeroOk(buf[b])
  /\ Becomes(b, Zero(buf[b]), IF Mode[b] = "circular" THEN Moved(view[b]) ELSE view[b])

\* The n cells that append takes from c: those behind the end of its memory, where
\* circular data goes on at the start, are not the client's.
Taken(c, n) == [i \in 1..n |-> IF OnePiece(buf[c], i) THEN view[c].next[i] ELSE Junk]

\* append of n cells, or of all there are.  It consumes what it takes, although the
\* comment on it says that the read pointer of the source "will not be altered".
AppendTo(b, c, n) ==
  /\ b # c /\ Alive(b) /\ Alive(c)
  /\ AppendOk(buf[b], buf[c], n) /\ MayGrow(buf[b], n)
  /\ LET y == WriteArray(buf[b], AppendSource(buf[c], n))
     IN  /\ buf' = [buf EXCEPT ![b] = y, ![c] = RSkip(buf[c], n)]
         /\ view' = [view EXCEPT
              ![b] = ViewAfterWrite(buf[b], y, view[b], Taken(c, n)),
              ![c] = ViewAfterRead(view[c], n)]

\* operator<< of c to a stream, and operator>> of b from it, of plain buffers.
StreamTo(b, c) ==
  /\ b # c /\ Alive(b) /\ Alive(c) /\ Mode[b] = "plain" /\ Mode[c] = "plain"
  /\ LET s == Content(buf[c])
         y == WSkip(SetArray(buf[b], s, buf[b].mWritePos), Len(s))
     IN  /\ StreamInOk(buf[b], Len(s))
         /\ buf' = [buf EXCEPT ![b] = y, ![c] = RSkip(buf[c], Len(s))]
         /\ view' = [view EXCEPT ![b].next = @ \o view[c].next,
                                 ![c] = ViewAfterRead(view[c], Len(s))]

\* What a client does that has the buffers S.
Use(S) ==
  \E b \in S :
    \/ Construct(b) \/ Destroy(b) \/ SetMutable(b)
    \/ SetMarks(b) \/ GoToMarks(b) \/ Crunch(b) \/ ClearAll(b) \/ ZeroFree(b)
    \/ \E n \in Span : \E s \in [1..n -> Cell] : Write(b, s)
    \/ \E n \in Span : Read(b, n) \/ SkipWrite(b, n) \/ RewindRead(b, n) \/ RewindWrite(b, n)
    \/ \E c \in S : Copy(b, c) \/ Move(b, c) \/ StreamTo(b, c)
    \/ \E c \in S, n \in Span : AppendTo(b, c, n)

BufferSpec == BufferInit /\ [][Use(Name)]_bufferVars

-----------------------------------------------------------------------------
(* Properties                                                              *)

BufferTypeOK ==
  \A b \in Name : Alive(b) =>
    LET x == buf[b]
    IN  /\ x.mode = Mode[b]
        /\ x.cells \in Seq(Cell \cup {Junk, 0})
        /\ {x.mReadPos, x.mWritePos} \subseteq
             0..(IF x.mode = "plain" \/ x.cells = <<>> THEN Len(x.cells) ELSE Len(x.cells) - 1)

\* The memory between the read and the write position is exactly what the client
\* has written and not read, whatever wraps, growth, crunches, rewinds, returns to
\* marks, copies, moves, streams and appends there were; and the positions of
\* a circular buffer never stand behind its end.  Of cells appended from circular
\* data that goes on at the start of the memory, those before the end arrive and the
\* others are Junk: append reads on behind the memory.
ContentIsUnread ==
  /\ BufferTypeOK
  /\ \A b \in Name : Alive(b) => Content(buf[b]) = view[b].next

\* The cells that a list of ranges names; there are two at most.
RangeCells(x, s) ==
  LET Part(i) == IF i \in DOMAIN s THEN SubSeq(x.cells, s[i][1] + 1, s[i][2]) ELSE <<>>
  IN  Part(1) \o Part(2)

\* The ranges a client gets for direct access cover the unread cells in order, and
\* those from the marks the cells between the marks while these are in the view.
RangesAreContent ==
  \A b \in Name : Alive(b) =>
    LET v == view[b]
        x == buf[b]
    IN  /\ RangeCells(x, DataRanges(x)) = v.next
        /\ (ReadMarkOk(b) /\ WriteMarkOk(b, v.rmark)) =>
             RangeCells(x, DataRangesFromMark(x)) = SubSeq(v.back \o v.next, v.rmark + 1, v.wmark)
=============================================================================
