------------------------------- MODULE Buffer -------------------------------
(***************************************************************************)
(* The buffer between a peer's socket and the messages read from or        *)
(* written to it (struct Buffer, src/p2p.rs): a deque of chunks, a read    *)
(* position and a checkpoint.                                              *)
(*                                                                         *)
(* read_ahead, advance and read_advance walk the chunks in a loop; a step  *)
(* of the model is one iteration.  The operations take &mut self, so no    *)
(* other operation comes between the iterations of one.  The calls are the *)
(* ones event_processor and decode make: advance follows a read_ahead and  *)
(* asks for no more than that returned.                                    *)
(***************************************************************************)
EXTENDS Integers, Sequences

CONSTANTS Byte,            \* the values a byte can have
          Input,           \* the byte strings that are written
          Count,           \* how many bytes a caller asks for
          IO_BUFFER_SIZE,  \* a chunk grows by appending up to this size
          MaxStream        \* bound: bytes written in a behaviour

ASSUME BufferAssumption ==
  /\ Input \subseteq Seq(Byte) \ {<< >>}
  /\ Count \subseteq Nat \ {0}
  /\ IO_BUFFER_SIZE \in Nat \ {0}
  /\ MaxStream \in Nat

VARIABLES chunks,      \* sequence of chunks, each a byte string
          pos,         \* <<chunk, offset>> of the next byte, both from zero
          checkpoint,  \* pos at the last commit
          op,          \* the operation in progress, or "none"
          phase,       \* "idle", in the "loop" of the operation, or "done"
          want, have,  \* locals of the loop: bytes asked for and collected,
          at,          \*   the position it moves (in read_ahead a copy of pos)
          out,         \*   and the bytes copied
          ahead,       \* caller: bytes read ahead and not yet advanced over
          result,      \* the bytes the last read_ahead or read_advance returned
          stream,      \* history: every byte written
          starts       \* history: how many bytes were written before each chunk

locals == <<op, phase, want, have, at, out>>
history == <<stream, starts>>
bufferVars == <<chunks, pos, checkpoint, locals, ahead, result, history>>

Loops == {"read_ahead", "advance", "read_advance"}

Chunk(p) == chunks[p[1] + 1]

-----------------------------------------------------------------------------

BufferInit ==
  /\ chunks = << >>
  /\ pos = <<0, 0>>
  /\ checkpoint = <<0, 0>>
  /\ op = "none"
  /\ phase = "idle"
  /\ want = 0
  /\ have = 0
  /\ at = <<0, 0>>
  /\ out = << >>
  /\ ahead = 0
  /\ result = << >>
  /\ stream = << >>
  /\ starts = << >>

\* A chunk that would outgrow IO_BUFFER_SIZE is left as it is and a new one begun.
NeedsChunk(bs) ==
  \/ chunks = << >>
  \/ Len(bs) + Len(chunks[Len(chunks)]) > IO_BUFFER_SIZE

Write(bs) ==
  /\ phase = "idle"
  /\ Len(stream) + Len(bs) <= MaxStream
  /\ IF NeedsChunk(bs)
     THEN /\ chunks' = Append(chunks, bs)
          /\ starts' = Append(starts, Len(stream))
     ELSE /\ chunks' = [chunks EXCEPT ![Len(chunks)] = @ \o bs]
          /\ UNCHANGED starts
  /\ stream' = stream \o bs
  /\ ahead' = 0
  /\ UNCHANGED <<pos, checkpoint, locals, result>>

rollback ==
  /\ phase = "idle"
  /\ pos' = checkpoint
  /\ ahead' = 0
  /\ UNCHANGED <<chunks, checkpoint, locals, result, history>>

\* Mutant: the current chunk becomes the first, but pos still counts the dropped ones.
commitKeepingIndex ==
  /\ phase = "idle"
  /\ chunks' = SubSeq(chunks, pos[1] + 1, Len(chunks))
  /\ starts' = SubSeq(starts, pos[1] + 1, Len(starts))
  /\ checkpoint' = pos
  /\ UNCHANGED <<pos, locals, ahead, result, stream>>

\* Mutant: the checkpoint is not moved to what has been consumed.
commitWithoutMark ==
  /\ phase = "idle"
  /\ chunks' = SubSeq(chunks, pos[1] + 1, Len(chunks))
  /\ starts' = SubSeq(starts, pos[1] + 1, Len(starts))
  /\ pos' = <<0, pos[2]>>
  /\ UNCHANGED <<checkpoint, locals, ahead, result, stream>>

\* The chunks before the current one are dropped, the current one becomes the first.
commit ==
  /\ phase = "idle"
  /\ chunks' = SubSeq(chunks, pos[1] + 1, Len(chunks))
  /\ starts' = SubSeq(starts, pos[1] + 1, Len(starts))
  /\ pos' = <<0, pos[2]>>
  /\ checkpoint' = pos'
  /\ UNCHANGED <<locals, ahead, result, stream>>

\* What the three walks have in common at their start; p is the phase it leads to.
Begin(o, n, p) ==
  /\ phase = "idle"
  /\ op' = o
  /\ phase' = p
  /\ want' = n
  /\ have' = 0
  /\ at' = pos
  /\ out' = << >>
  /\ UNCHANGED <<chunks, pos, checkpoint, ahead, result, history>>

read_ahead(n) == Begin("read_ahead", n, IF chunks = << >> THEN "done" ELSE "loop")

read_advance(n) == Begin("read_advance", n, IF chunks = << >> THEN "done" ELSE "loop")

\* The caller's condition: no more than was read ahead.
advance(n) == n <= ahead /\ Begin("advance", n, "loop")

\* What an iteration can take from the current chunk.
Available == LET wanted == want - have
                 left == Len(Chunk(at)) - at[2]
             IN  IF wanted < left THEN wanted ELSE left

\* Mutant: no step to the next chunk.
Stays(offset) == <<at[1], offset>>

\* A wholly read chunk is left for the next one, if there is one.
Beyond(offset) ==
  IF offset = Len(Chunk(at)) /\ at[1] < Len(chunks) - 1
  THEN <<at[1] + 1, 0>>
  ELSE <<at[1], offset>>

\* Mutant: advance stops at the end of any chunk.
EndsWithChunk(offset) ==
  \/ have + Available >= want
  \/ offset = Len(Chunk(at)) /\ (op = "advance" \/ at[1] >= Len(chunks) - 1)

\* The loop ends with enough bytes, or at the end of the last chunk.
Ends(offset) ==
  \/ have + Available >= want
  \/ offset = Len(Chunk(at)) /\ at[1] >= Len(chunks) - 1

Iterate ==
  /\ phase = "loop"
  /\ out' = IF op = "advance" THEN out
            ELSE out \o SubSeq(Chunk(at), at[2] + 1, at[2] + Available)
  /\ have' = have + Available
  /\ at' = Beyond(at[2] + Available)
  /\ pos' = IF op = "read_ahead" THEN pos ELSE at'
  /\ phase' = IF Ends(at[2] + Available) THEN "done" ELSE "loop"
  /\ UNCHANGED <<chunks, checkpoint, op, want, ahead, result, history>>

Return ==
  /\ phase = "done"
  /\ result' = IF op = "advance" THEN result ELSE out
  /\ ahead' = CASE op = "read_ahead" -> have
                [] op = "advance" -> ahead - have
                [] op = "read_advance" -> 0
  /\ op' = "none"
  /\ phase' = "idle"
  /\ want' = 0
  /\ have' = 0
  /\ at' = <<0, 0>>
  /\ out' = << >>
  /\ UNCHANGED <<chunks, pos, checkpoint, history>>

BufferNext ==
  \/ \E bs \in Input : Write(bs)
  \/ \E n \in Count : read_ahead(n)
  \/ \E n \in Count : advance(n)
  \/ \E n \in Count : read_advance(n)
  \/ Iterate
  \/ Return
  \/ rollback
  \/ commit

BufferSafety == BufferInit /\ [][BufferNext]_bufferVars

\* A call that has begun runs to its end: nothing else runs on its thread.
BufferSpec == BufferSafety /\ WF_bufferVars(Iterate \/ Return)

-----------------------------------------------------------------------------

Position == Nat \X Nat

BufferTypeOK ==
  /\ chunks \in Seq(Seq(Byte))
  /\ pos \in Position /\ checkpoint \in Position /\ at \in Position
  /\ op \in Loops \cup {"none"}
  /\ phase \in {"idle", "loop", "done"}
  /\ want \in Nat /\ have \in Nat /\ ahead \in Nat
  /\ out \in Seq(Byte) /\ result \in Seq(Byte) /\ stream \in Seq(Byte)
  /\ starts \in Seq(Nat)

\* A position a read may start from: an existing chunk, at most its end.
Valid(p) ==
  IF chunks = << >> THEN p = <<0, 0>>
  ELSE p[1] < Len(chunks) /\ p[2] <= Len(Chunk(p))

\* No index is out of range and no subtraction underflows, which would be a
\* panic: the loops of read_ahead, advance and read_advance only ever look at a
\* chunk that exists and at an offset within it, whatever writes, commits and
\* rollbacks came before (chunks[pos.0], current.len() - pos.1).
InBounds ==
  /\ Valid(pos)
  /\ Valid(checkpoint)
  /\ phase = "loop" => chunks # << >> /\ Valid(at)

\* A position as the number of bytes before it.
Abs(p) == IF chunks = << >> THEN 0 ELSE starts[p[1] + 1] + p[2]

\* event_processor drops the result of write_buffer.advance(wlen): it relies on
\* the position having moved by exactly the bytes the socket took.
AdvanceIsExact == op = "advance" /\ phase = "done" => have = want

\* A loop that goes on has left its chunk for the next one, which exists: it cannot
\* look twice at the end of a chunk, as it would if the position stayed there.
LoopsMoveOn ==
  [][phase = "loop" /\ phase' = "loop" =>
        at'[1] = at[1] + 1 /\ at'[1] < Len(chunks)]_bufferVars

\* Every read_ahead, advance and read_advance returns: an iteration that finds
\* nothing left in its chunk goes on to the next chunk or leaves the loop.
CallsReturn == (phase = "loop") ~> (phase = "idle")

\* While an operation moves pos, its caller still sees the position it started from.
Seen == IF op \in {"advance", "read_advance"} /\ phase # "idle" THEN Abs(pos) - have ELSE Abs(pos)

\* The chunks are invisible: the buffer is a queue of bytes that returns every
\* byte once, in the order written, across chunk boundaries, and takes reading
\* back to the last commit, no further and no less, on a rollback.
Queue == INSTANCE ByteQueue WITH next <- Seen, mark <- Abs(checkpoint)

IsByteQueue == Queue!QueueSpec
=============================================================================
