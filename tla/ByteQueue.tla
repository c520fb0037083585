----------------------------- MODULE ByteQueue -----------------------------
(***************************************************************************)
(* What a Buffer (src/p2p.rs) promises its callers, without its chunks: a  *)
(* stream of bytes that grows at its end, a place up to which it has been  *)
(* read, and a mark to which reading can be taken back.                    *)
(***************************************************************************)
EXTENDS Integers, Sequences

CONSTANTS Input,    \* the byte strings that are written
          Count     \* how many bytes a caller asks for

VARIABLES stream,   \* every byte written so far, in order
          next,     \* how many of them have been read
          mark,     \* how many had been read at the last commit
          result    \* the bytes the last read or look ahead returned

queueVars == <<stream, next, mark, result>>

Least(a, b) == IF a < b THEN a ELSE b

\* The next n unread bytes, or all there are if there are fewer.
Unread(n) == SubSeq(stream, next + 1, next + Least(n, Len(stream) - next))

QueueInit ==
  /\ stream = << >>
  /\ next = 0
  /\ mark = 0
  /\ result = << >>

Put(bs) ==
  /\ stream' = stream \o bs
  /\ UNCHANGED <<next, mark, result>>

\* Look ahead: the bytes stay unread.
Peek(n) ==
  /\ result' = Unread(n)
  /\ UNCHANGED <<stream, next, mark>>

Take(n) ==
  /\ result' = Unread(n)
  /\ next' = next + Least(n, Len(stream) - next)
  /\ UNCHANGED <<stream, mark>>

Skip(n) ==
  /\ n <= Len(stream) - next
  /\ next' = next + n
  /\ UNCHANGED <<stream, mark, result>>

Commit ==
  /\ mark' = next
  /\ UNCHANGED <<stream, next, result>>

Rollback ==
  /\ next' = mark
  /\ UNCHANGED <<stream, mark, result>>

QueueNext ==
  \/ \E bs \in Input : Put(bs)
  \/ \E n \in Count : Peek(n) \/ Take(n) \/ Skip(n)
  \/ Commit
  \/ Rollback

QueueSpec == QueueInit /\ [][QueueNext]_queueVars
=============================================================================
