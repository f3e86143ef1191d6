----------------------------- MODULE SpscBuffer -----------------------------
(***************************************************************************)
(* SpscCircularBuffer (core/Buffer.h) between a writer and a reader, as    *)
(* its single-producer single-consumer test uses it: each waits until      *)
(* freeSize() or dataSize() is large enough, and then writes or reads one  *)
(* value of Width bytes.  The positions are volatile, so every load and    *)
(* store of them is a step of its own; wskip and rskip move a position     *)
(* with two stores when it passes the end.                                 *)
(*                                                                         *)
(* The byte k of the i-th value is the cell <<i, k>>.                      *)
(***************************************************************************)
EXTENDS BufferOps

CONSTANTS
  Width,                  \* sizeof(T)
  Size,                   \* the size the buffer was constructed with
  Values                  \* bound: values sent

VARIABLES
  ring,                   \* the buffer
  writer,                 \* [pc, i]: the next store of the writer, the values sent
  reader,                 \* [pc, i, x]: x is the value read last
  thrown                  \* a thread has ended with std::length_error or an assertion
ringVars == <<ring, writer, reader, thrown>>

RingInit ==
  /\ ring = NewSized("circular", Size)
  /\ writer = [pc |-> "wait", i |-> 0]
  /\ reader = [pc |-> "wait", i |-> 0, x |-> <<>>]
  /\ thrown = FALSE

ValueOf(i) == [k \in 1..Width |-> <<i, k>>]

\* wait, and the test of writeDirect: enough space.
WaitFree ==
  /\ writer.pc = "wait" /\ writer.i < Values
  /\ FreeSize(ring) >= Width
  /\ writer' = [writer EXCEPT !.pc = "set"]
  /\ UNCHANGED <<ring, reader, thrown>>

\* setDirect.
SetDirect ==
  /\ writer.pc = "set"
  /\ ring' = SetArray(ring, ValueOf(writer.i), ring.mWritePos)
  /\ writer' = [writer EXCEPT !.pc = "skip"]
  /\ UNCHANGED <<reader, thrown>>

\* wskip: the test, and mWritePos += bytes.
AdvanceWrite ==
  /\ writer.pc = "skip"
  /\ IF Width > FreeSize(ring)
     THEN thrown' = TRUE /\ UNCHANGED ring
     ELSE ring' = [ring EXCEPT !.mWritePos = @ + Width] /\ UNCHANGED thrown
  /\ writer' = [writer EXCEPT !.pc = "wrap"]
  /\ UNCHANGED reader

\* wskip: mWritePos -= mAllocatedSize beyond the end.
WrapWrite ==
  /\ writer.pc = "wrap"
  /\ ring' = [ring EXCEPT !.mWritePos = Place(ring, @)]
  /\ writer' = [pc |-> "wait", i |-> writer.i + 1]
  /\ UNCHANGED <<reader, thrown>>

WaitData ==
  /\ reader.pc = "wait" /\ reader.i < Values
  /\ DataSize(ring) >= Width
  /\ reader' = [reader EXCEPT !.pc = "get"]
  /\ UNCHANGED <<ring, writer, thrown>>

\* getDirect.
GetDirect ==
  /\ reader.pc = "get"
  /\ reader' = [reader EXCEPT !.pc = "skip", !.x = GetArray(ring, ring.mReadPos, Width)]
  /\ UNCHANGED <<ring, writer, thrown>>

AdvanceRead ==
  /\ reader.pc = "skip"
  /\ IF Width > DataSize(ring)
     THEN thrown' = TRUE /\ UNCHANGED ring
     ELSE ring' = [ring EXCEPT !.mReadPos = @ + Width] /\ UNCHANGED thrown
  /\ reader' = [reader EXCEPT !.pc = "wrap"]
  /\ UNCHANGED writer

WrapRead ==
  /\ reader.pc = "wrap"
  /\ ring' = [ring EXCEPT !.mReadPos = Place(ring, @)]
  /\ reader' = [reader EXCEPT !.pc = "wait", !.i = @ + 1]
  /\ UNCHANGED <<writer, thrown>>

RingNext ==
  /\ ~thrown
  /\ \/ WaitFree \/ SetDirect \/ AdvanceWrite \/ WrapWrite
     \/ WaitData \/ GetDirect \/ AdvanceRead \/ WrapRead

RingSpec == RingInit /\ [][RingNext]_ringVars

-----------------------------------------------------------------------------
(* Properties                                                              *)

\* What the test asserts after every read: the i-th value read is the i-th value
\* written.  The buffer does not promise it: while the writer is between the two
\* stores of wskip, a reader that passes the end finds as many bytes too many as
\* the buffer has, and reads again what the writer left there a round ago.
ReadsInOrder == reader.pc = "skip" => reader.x = ValueOf(reader.i)
=============================================================================
