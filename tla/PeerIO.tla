------------------------------- MODULE PeerIO -------------------------------
(***************************************************************************)
(* The bytes between one connected peer's socket and the messages sent to  *)
(* and received from it: the two halves of event_processor, struct Peer's  *)
(* queue and event registration, encode and decode (src/p2p.rs).           *)
(*                                                                         *)
(* Two threads meet at the peer's mutex: the control loop, which sends,    *)
(* and the event loop, which polls and then handles an event.  The event   *)
(* loop holds the mutex for the whole of a handler, the remote peer goes   *)
(* on at the other end of the socket.  read_buffer and write_buffer are    *)
(* their unread bytes (Buffer is a queue of bytes: Sequential_proofs).     *)
(***************************************************************************)
EXTENDS Integers, FiniteSets, SequencesExt

CONSTANTS Message,         \* messages
          Version,         \* the first message sent over an outgoing connection
          Size,            \* Message -> its length on the wire, in bytes
          Garbled,         \* the messages decode fails on
          IO_BUFFER_SIZE,  \* bytes moved by one read_ahead or socket read
          Window,          \* bytes the socket takes before a write would block
          BAN, Penalty,    \* the score to be banned, and for an event that fails
          Score,           \* the scores the control loop is asked to add
          MaxSent,         \* bound: messages sent to the peer
          MaxArrived       \* bound: messages the peer sends

ASSUME PeerIOAssumption ==
  /\ Size \in [Message -> Nat \ {0}]
  /\ Garbled \subseteq Message /\ Version \in Message
  /\ Score \subseteq Nat
  /\ {IO_BUFFER_SIZE, Window, BAN, Penalty} \subseteq Nat \ {0}
  /\ {MaxSent, MaxArrived} \subseteq Nat

VARIABLES alive,         \* the peer is in the map
          closed,        \* the remote end has closed the connection
          queue,         \* messages sent and not yet encoded (the channel)
          write_buffer,  \* bytes encoded and not yet written
          room,          \* bytes the socket takes at present
          writeable,     \* registered for writing; otherwise for reading
          inbox,         \* bytes arrived at the socket
          read_buffer,   \* bytes read and not yet decoded
          ban,           \* ban score
          pc,            \* where the event loop is
          control,       \* where the control loop is
          ahead,         \* event loop: bytes read ahead and not yet written
          sent, taken,   \* history: messages sent; those taken from the queue
          encoded, wire, \* history: bytes encoded; those the socket took
          arrived,       \* history: messages that arrived
          incoming,      \* history: messages handed to the dispatcher
          failed         \* history: an event ended with a decoding error

outVars == <<queue, write_buffer, room, ahead, sent, taken, encoded, wire>>
inVars == <<inbox, read_buffer, ban, arrived, incoming, failed>>
ioVars == <<alive, closed, writeable, pc, control, outVars, inVars>>

\* A message on the wire: its bytes, numbered.
encode(m) == [i \in 1 .. Size[m] |-> <<m, i>>]

\* connect: registered for writing, with this node's version in the channel, if
\* outgoing; for reading otherwise.
IOInit ==
  /\ alive = TRUE /\ closed = FALSE
  /\ \/ queue = <<Version>> /\ writeable = TRUE
     \/ queue = << >> /\ writeable = FALSE
  /\ sent = queue
  /\ write_buffer = << >> /\ room = Window /\ ahead = 0
  /\ taken = << >> /\ encoded = << >> /\ wire = << >>
  /\ inbox = << >> /\ read_buffer = << >> /\ ban = 0
  /\ arrived = << >> /\ incoming = << >> /\ failed = FALSE
  /\ pc = "idle" /\ control = "idle"

-----------------------------------------------------------------------------
(***************************************************************************)
(* The remote end.                                                         *)
(***************************************************************************)

\* The remote end reads what was written: the socket takes more.
Drain ==
  /\ ~closed
  /\ room < Window
  /\ room' \in room + 1 .. Window
  /\ UNCHANGED <<alive, closed, writeable, pc, control, queue, write_buffer, ahead, sent, taken, encoded, wire, inVars>>

Arrive(m) ==
  /\ ~closed
  /\ Len(arrived) < MaxArrived
  /\ arrived' = Append(arrived, m)
  /\ inbox' = inbox \o encode(m)
  /\ UNCHANGED <<alive, closed, writeable, pc, control, outVars, read_buffer, ban, incoming, failed>>

Close ==
  /\ ~closed
  /\ closed' = TRUE
  /\ UNCHANGED <<alive, writeable, pc, control, outVars, inVars>>

-----------------------------------------------------------------------------
(***************************************************************************)
(* The control loop.                                                       *)
(***************************************************************************)

\* Where the event loop does not hold the mutex.
Unlocked == pc \notin {"write", "out", "next"}

\* Mutant: send does not register for writing.
SendUnregistered(m) ==
  /\ alive
  /\ Unlocked /\ control = "idle"
  /\ Len(sent) < MaxSent
  /\ sent' = Append(sent, m)
  /\ queue' = Append(queue, m)
  /\ UNCHANGED <<alive, closed, writeable, pc, control, write_buffer, room, ahead, taken, encoded, wire, inVars>>

\* Peer::send: into the channel, then registered for writing.
Send(m) ==
  /\ alive
  /\ Unlocked /\ control = "idle"
  /\ Len(sent) < MaxSent
  /\ sent' = Append(sent, m)
  /\ queue' = Append(queue, m)
  /\ writeable' = TRUE
  /\ UNCHANGED <<alive, closed, pc, control, write_buffer, room, ahead, taken, encoded, wire, inVars>>

\* ban: the score is added under the mutex, the peer disconnected after it.
ControlBan(score) ==
  /\ alive
  /\ Unlocked /\ control = "idle"
  /\ ban' = ban + score
  /\ control' = IF ban' >= BAN THEN "leave" ELSE "idle"
  /\ UNCHANGED <<alive, closed, writeable, pc, outVars, inbox, read_buffer, arrived, incoming, failed>>

ControlDisconnect ==
  /\ control = "leave"
  /\ Unlocked
  /\ alive' = FALSE
  /\ control' = "idle"
  /\ UNCHANGED <<closed, writeable, pc, outVars, inVars>>

-----------------------------------------------------------------------------
(***************************************************************************)
(* The event loop.                                                         *)
(***************************************************************************)

\* Level triggered: an event as long as there is what the peer is registered for.
Poll ==
  /\ alive
  /\ pc = "idle"
  /\ \/ writeable /\ room > 0 /\ pc' = "writable"
     \/ ~writeable /\ (inbox # << >> \/ closed) /\ pc' = "readable"
  /\ UNCHANGED <<alive, closed, writeable, control, outVars, inVars>>

\* An event with hup or error set; or an event after which reading fails.
HangUp ==
  /\ alive
  /\ pc \in {"idle", "readable"}
  /\ closed
  /\ pc' = "leave"
  /\ UNCHANGED <<alive, closed, writeable, control, outVars, inVars>>

\* The peer has left the map since the event was polled: the event is ignored.
Ignore ==
  /\ ~alive
  /\ pc \in {"writable", "readable", "ban"}
  /\ pc' = "idle"
  /\ UNCHANGED <<alive, closed, writeable, control, outVars, inVars>>

\* An event that failed costs the peer Penalty.
EventBan ==
  /\ alive
  /\ pc = "ban"
  /\ ban' = ban + Penalty
  /\ pc' = IF ban' >= BAN THEN "leave" ELSE "idle"
  /\ UNCHANGED <<alive, closed, writeable, control, outVars, inbox, read_buffer, arrived, incoming, failed>>

\* disconnect: the peer leaves the map.
EventDisconnect ==
  /\ pc = "leave"
  /\ alive' = FALSE
  /\ pc' = "idle"
  /\ UNCHANGED <<closed, writeable, control, outVars, inVars>>

\* The head of the write loop: read ahead what a write did not finish.
ReadAhead ==
  /\ \/ pc = "writable" /\ alive
     \/ pc = "write"
  /\ ahead' = IF Len(write_buffer) < IO_BUFFER_SIZE THEN Len(write_buffer) ELSE IO_BUFFER_SIZE
  /\ pc' = IF write_buffer = << >> THEN "next" ELSE "out"
  /\ UNCHANGED <<alive, closed, writeable, control, queue, write_buffer, room, sent, taken, encoded, wire, inVars>>

\* Mutant: the write buffer is advanced by what was read ahead.
SocketTakesAll(n) ==
  /\ pc = "out"
  /\ n <= room /\ n <= ahead
  /\ wire' = wire \o SubSeq(write_buffer, 1, n)
  /\ write_buffer' = SubSeq(write_buffer, ahead + 1, Len(write_buffer))
  /\ room' = room - n
  /\ ahead' = 0
  /\ pc' = "next"
  /\ UNCHANGED <<alive, closed, writeable, control, queue, sent, taken, encoded, inVars>>

\* stream.write takes some of the bytes; they leave the write buffer for good.
SocketTakes(n) ==
  /\ pc = "out"
  /\ n <= room /\ n <= ahead
  /\ wire' = wire \o SubSeq(write_buffer, 1, n)
  /\ write_buffer' = SubSeq(write_buffer, n + 1, Len(write_buffer))
  /\ room' = room - n
  /\ ahead' = ahead - n
  /\ pc' = IF ahead = n THEN "next" ELSE "out"
  /\ UNCHANGED <<alive, closed, writeable, control, queue, sent, taken, encoded, inVars>>

\* stream.write would block: an error, which ends the loop over the socket and
\* leaves get_next set.
WouldBlock ==
  /\ pc = "out"
  /\ room = 0
  /\ pc' = "next"
  /\ ahead' = 0
  /\ UNCHANGED <<alive, closed, writeable, control, queue, write_buffer, room, sent, taken, encoded, wire, inVars>>

\* try_receive finds a message: it is encoded behind what is left to write.
TakeNext ==
  /\ pc = "next"
  /\ queue # << >>
  /\ queue' = Tail(queue)
  /\ taken' = Append(taken, Head(queue))
  /\ write_buffer' = write_buffer \o encode(Head(queue))
  /\ encoded' = encoded \o encode(Head(queue))
  /\ pc' = "write"
  /\ UNCHANGED <<alive, closed, writeable, control, room, ahead, sent, wire, inVars>>

\* Mutant: one message for each event, whatever else is in the channel.
DoneWritingEarly ==
  /\ pc = "next"
  /\ writeable' = FALSE
  /\ pc' = "idle"
  /\ UNCHANGED <<alive, closed, control, outVars, inVars>>

\* Mutant: it stays registered for writing.
DoneWritingRegistered ==
  /\ pc = "next"
  /\ queue = << >>
  /\ pc' = "idle"
  /\ UNCHANGED <<alive, closed, writeable, control, outVars, inVars>>

\* Nothing in the channel: reregister_read.
DoneWriting ==
  /\ pc = "next"
  /\ queue = << >>
  /\ writeable' = FALSE
  /\ pc' = "idle"
  /\ UNCHANGED <<alive, closed, control, outVars, inVars>>

\* The numbers of a finite set, in ascending order.
Ascending(S) ==
  CHOOSE f \in [1 .. Cardinality(S) -> S] : \A i, j \in DOMAIN f : i < j => f[i] < f[j]

\* The positions at which a string of bytes completes a message.
Complete(bytes) ==
  {i \in DOMAIN bytes : /\ Size[bytes[i][1]] <= i
                         /\ SubSeq(bytes, 1 + i - Size[bytes[i][1]], i) = encode(bytes[i][1])}

\* The messages decode finds in it.
Messages(bytes) ==
  LET at == Ascending(Complete(bytes)) IN [k \in DOMAIN at |-> bytes[at[k]][1]]

\* Mutant: an incomplete message is not rolled back.
AfterAll(bytes, k) == << >>

\* What decode leaves in the buffer after the first k messages.
After(bytes, k) ==
  IF k = 0 THEN bytes
  ELSE SubSeq(bytes, 1 + Ascending(Complete(bytes))[k], Len(bytes))

\* Mutant: one message for each event.
DecodesOne(msgs) == IF msgs = << >> THEN 0 ELSE 1

\* How many messages are taken: all, or up to the first that does not decode.
Decodes(msgs) ==
  IF \E k \in DOMAIN msgs : msgs[k] \in Garbled
    THEN SelectInSeq(msgs, LAMBDA m : m \in Garbled) ELSE Len(msgs)

\* The read half: n bytes from the socket (none once the remote end has closed:
\* then disconnect), then decode until a message is not complete (rolled back) or
\* does not decode: it is committed away, and the error abandons what was decoded
\* before it in this event, disconnect included.
Read(n) ==
  LET bytes == read_buffer \o SubSeq(inbox, 1, n)
      all == Messages(bytes)
      msgs == SubSeq(all, 1, Decodes(all))
      fails == msgs # << >> /\ Last(msgs) \in Garbled
  IN  /\ inbox' = SubSeq(inbox, n + 1, Len(inbox))
      /\ read_buffer' = After(bytes, Len(msgs))
      /\ incoming' = IF ~fails /\ n > 0 THEN incoming \o msgs ELSE incoming
      /\ failed' = (failed \/ fails)
      /\ pc' = IF fails THEN "ban" ELSE IF n = 0 THEN "leave" ELSE "idle"

HandleRead ==
  /\ alive
  /\ pc = "readable"
  /\ \E n \in 0 .. Len(inbox) :
       /\ n <= IO_BUFFER_SIZE
       /\ n = 0 <=> inbox = << >>
       /\ Read(n)
  /\ UNCHANGED <<alive, closed, writeable, control, outVars, ban, arrived>>

EventLoop ==
  \/ Poll \/ HangUp \/ Ignore \/ EventBan \/ EventDisconnect
  \/ ReadAhead \/ WouldBlock \/ TakeNext \/ DoneWriting
  \/ \E n \in 1 .. Window : SocketTakes(n)
  \/ HandleRead

IONext ==
  \/ \E m \in Message \ Garbled : Send(m)
  \/ \E score \in Score : ControlBan(score)
  \/ ControlDisconnect
  \/ \E m \in Message : Arrive(m)
  \/ Drain \/ Close
  \/ EventLoop

IOSafety == IOInit /\ [][IONext]_ioVars

\* The event loop runs, and the remote end keeps reading.
IOSpec == IOSafety /\ WF_ioVars(EventLoop) /\ WF_ioVars(Drain)

-----------------------------------------------------------------------------

\* The n-th byte of a message.
Byte == {b \in Message \X Nat : b[2] \in 1 .. Size[b[1]]}

\* Whatever partial writes, refused writes and later sends come in between, the
\* remote end gets the bytes of the messages in the order they were sent, none
\* twice and none left out: what send put into the channel was taken in order,
\* and what was encoded is on the wire or, behind it, in the write buffer.
WriteOrder ==
  /\ sent = taken \o queue
  /\ encoded = wire \o write_buffer

\* A message in the channel never waits for an event that will not come: send
\* registers for writing, and the event loop goes back to reading only when the
\* channel is empty, under the same mutex (writeable, reregister_read).
QueuedIsRegistered == queue # << >> => writeable

\* The dispatcher gets the peer's messages in the order they were sent, none
\* twice, however they are cut into socket reads; and all of them, as long as no
\* message failed to decode.
ReadInOrder ==
  /\ \E D \in SUBSET DOMAIN arrived :
       incoming = [k \in 1 .. Cardinality(D) |-> arrived[Ascending(D)[k]]]
  /\ ~failed => incoming \o Messages(read_buffer \o inbox) = arrived

\* No message that has been read completely is left in the read buffer when the
\* event loop goes back to polling, where only more bytes would bring it up
\* again, as long as no message failed to decode.
NothingWaits == ~failed => Messages(read_buffer) = << >>

\* A peer with messages in its channel gets them encoded, as long as it reads
\* what it is sent.
QueueDrains == (queue # << >>) ~> (queue = << >> \/ ~alive)

\* Being registered for writing, which excludes reading, never keeps the node
\* from reading what the peer sent for good.
ReadResumes == (inbox # << >>) ~> (inbox = << >> \/ ~alive)

\* The peer is registered for reading only when there is "no unfinished write and
\* no outgoing message" (event_processor).
UnfinishedIsRegistered == pc = "idle" /\ write_buffer # << >> => writeable
=============================================================================
