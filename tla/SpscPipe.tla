------------------------------ MODULE SpscPipe ------------------------------
(***************************************************************************)
(* What a pipe between one writer and one reader promises, independently   *)
(* of how atomic::AtomicPipe (include/core/AtomicQueue.h) implements it.   *)
(*                                                                         *)
(* The writer stages messages one by one.  A message written with          *)
(* incomplete_ = true belongs to a batch that is not finished yet: a flush *)
(* must leave it behind, and unwrite may still take it back.  flush makes  *)
(* the completed prefix of the staged messages visible to the reader in    *)
(* one step.  The reader takes visible messages in order.                  *)
(***************************************************************************)
EXTENDS Naturals, Sequences

CONSTANT Value            \* the messages

VARIABLES
  staged,                 \* written and not flushed
  complete,               \* length of the prefix of staged that a flush publishes
  visible,                \* flushed and not read
  delivered               \* every message read so far, in order

pvars == <<staged, complete, visible, delivered>>

PInit ==
  /\ staged = <<>>
  /\ complete = 0
  /\ visible = <<>>
  /\ delivered = <<>>

\* AtomicPipe::write
Stage(v, incomplete) ==
  /\ staged' = Append(staged, v)
  /\ complete' = IF incomplete THEN complete ELSE Len(staged) + 1
  /\ UNCHANGED <<visible, delivered>>

\* AtomicPipe::unwrite: only messages of the unfinished batch come back.
Unstage ==
  /\ Len(staged) > complete
  /\ staged' = SubSeq(staged, 1, Len(staged) - 1)
  /\ UNCHANGED <<complete, visible, delivered>>

\* AtomicPipe::flush
Commit ==
  /\ complete > 0
  /\ visible' = visible \o SubSeq(staged, 1, complete)
  /\ staged' = SubSeq(staged, complete + 1, Len(staged))
  /\ complete' = 0
  /\ UNCHANGED delivered

\* AtomicPipe::read
Take ==
  /\ visible # <<>>
  /\ delivered' = Append(delivered, Head(visible))
  /\ visible' = Tail(visible)
  /\ UNCHANGED <<staged, complete>>

PNext ==
  \/ \E v \in Value, incomplete \in BOOLEAN : Stage(v, incomplete)
  \/ Unstage
  \/ Commit
  \/ Take

PSpec == PInit /\ [][PNext]_pvars

=============================================================================
