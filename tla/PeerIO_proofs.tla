---------------------------- MODULE PeerIO_proofs ----------------------------
(***************************************************************************)
(* Proofs about the two halves of PeerIO, for every set of messages, sizes *)
(* and windows.                                                            *)
(***************************************************************************)
EXTENDS PeerIO, FiniteSetTheorems, TLAPS

\* What the write half keeps: the types its sequences need, how far it has read
\* ahead, and the two properties.
OutInv ==
  /\ queue \in Seq(Message) /\ sent \in Seq(Message) /\ taken \in Seq(Message)
  /\ write_buffer \in Seq(Byte) /\ encoded \in Seq(Byte) /\ wire \in Seq(Byte)
  /\ ahead \in Nat /\ ahead <= Len(write_buffer)
  /\ WriteOrder
  /\ QueuedIsRegistered

\* A message on the wire is a sequence of bytes.
LEMMA EncodeType == \A m \in Message : encode(m) \in Seq(Byte)
<1> SUFFICES ASSUME NEW m \in Message PROVE encode(m) \in Seq(Byte)
  OBVIOUS
<1>1. Size[m] \in Nat
  BY PeerIOAssumption
<1>2. \A i \in 1 .. Size[m] : <<m, i>> \in Byte
  BY <1>1 DEF Byte
<1> QED
  BY <1>1, <1>2 DEF encode

\* Two sequences, one after the other.
LEMMA Joined ==
  ASSUME NEW S, NEW s \in Seq(S), NEW t \in Seq(S)
  PROVE  /\ s \o t \in Seq(S)
         /\ Len(s \o t) = Len(s) + Len(t)
         /\ \A i \in 1 .. Len(s) + Len(t) : (s \o t)[i] = IF i <= Len(s) THEN s[i] ELSE t[i - Len(s)]
OBVIOUS

\* Sequences with the same elements at every position are the same.
LEMMA SameElements ==
  ASSUME NEW S, NEW s \in Seq(S), NEW t \in Seq(S), Len(s) = Len(t),
         \A i \in 1 .. Len(s) : s[i] = t[i]
  PROVE  s = t
OBVIOUS

\* A sequence is what comes before a position and what comes after it.
LEMMA SplitAt ==
  ASSUME NEW S, NEW s \in Seq(S), NEW n \in 0 .. Len(s)
  PROVE  /\ SubSeq(s, 1, n) \in Seq(S) /\ Len(SubSeq(s, 1, n)) = n
         /\ SubSeq(s, n + 1, Len(s)) \in Seq(S) /\ Len(SubSeq(s, n + 1, Len(s))) = Len(s) - n
         /\ SubSeq(s, 1, n) \o SubSeq(s, n + 1, Len(s)) = s
<1> DEFINE a == SubSeq(s, 1, n)
           b == SubSeq(s, n + 1, Len(s))
<1>1. a \in Seq(S) /\ Len(a) = n /\ \A i \in 1 .. n : a[i] = s[i]
  OBVIOUS
<1>2. /\ b \in Seq(S) /\ Len(b) = Len(s) - n
      /\ \A i \in 1 .. Len(s) - n : b[i] = s[n + i]
  OBVIOUS
<1> HIDE DEF a, b
<1>0. n \in Nat /\ Len(s) \in Nat /\ n <= Len(s)
  OBVIOUS
<1>3. a \o b \in Seq(S) /\ Len(a \o b) = Len(s)
  <2>1. a \o b \in Seq(S) /\ Len(a \o b) = Len(a) + Len(b)
    BY <1>1, <1>2, Joined, Zenon
  <2> QED
    BY <1>0, <1>1, <1>2, <2>1
<1>4. ASSUME NEW i \in 1 .. Len(s) PROVE (a \o b)[i] = s[i]
  <2>1. CASE i <= n
    BY <1>1, <1>2, <2>1
  <2>2. CASE i > n
    <3>1. (a \o b)[i] = b[i - n]
      BY <1>1, <1>2, <2>2
    <3>2. i - n \in 1 .. Len(s) - n /\ n + (i - n) = i
      BY <2>2
    <3> QED
      BY <1>2, <3>1, <3>2
  <2>3. i <= n \/ i > n
    BY <1>0
  <2> QED
    BY <2>1, <2>2, <2>3, Zenon
<1>5. a \o b = s
  BY <1>3, <1>4, SameElements, Zenon
<1> QED
  BY <1>1, <1>2, <1>5, Zenon DEF a, b

\* Concatenation is associative.
LEMMA Associative ==
  \A S : \A a, b, c \in Seq(S) : (a \o b) \o c = a \o (b \o c)
  OBVIOUS

\* Appending to the second of two sequences appends to both.
LEMMA AppendConcat ==
  \A a, b \in Seq(Message) : \A x \in Message : Append(a \o b, x) = a \o Append(b, x)
<1> SUFFICES ASSUME NEW a \in Seq(Message), NEW b \in Seq(Message), NEW x \in Message
             PROVE  Append(a \o b, x) = a \o Append(b, x)
  BY Zenon
<1>1. <<x>> \in Seq(Message) /\ a \o b \in Seq(Message)
  OBVIOUS
<1>2. Append(a \o b, x) = (a \o b) \o <<x>> /\ Append(b, x) = b \o <<x>>
  BY <1>1
<1> QED
  BY <1>1, <1>2, Associative

\* The initial states satisfy the invariant: connect queues the version only
\* together with registering for writing.
LEMMA InitOutInv == IOInit => OutInv
<1> SUFFICES ASSUME IOInit PROVE OutInv
  OBVIOUS
<1>0. <<Version>> \in Seq(Message) /\ << >> \in Seq(Message)
  BY PeerIOAssumption
<1>1. /\ queue \in Seq(Message) /\ sent = queue /\ taken = << >>
      /\ write_buffer = << >> /\ encoded = << >> /\ wire = << >> /\ ahead = 0
      /\ QueuedIsRegistered
  BY <1>0, Zenon DEF IOInit, QueuedIsRegistered
<1>2. /\ << >> \in Seq(Message) /\ << >> \in Seq(Byte) /\ Len(<< >>) = 0
      /\ << >> \o queue = queue /\ << >> \o << >> = << >>
  BY <1>1
<1> QED
  BY <1>1, <1>2 DEF OutInv, WriteOrder

\* What the socket takes leaves the front of the write buffer.
LEMMA SocketTakesStep ==
  ASSUME OutInv, NEW n \in 1 .. Window, SocketTakes(n)
  PROVE  OutInv'
<1> DEFINE a == SubSeq(write_buffer, 1, n)
           b == SubSeq(write_buffer, n + 1, Len(write_buffer))
<1>0. /\ n \in Nat /\ ahead \in Nat /\ Len(write_buffer) \in Nat
      /\ n <= ahead /\ ahead <= Len(write_buffer)
  <2>1. Window \in Nat
    BY PeerIOAssumption
  <2>2. n \in Nat /\ n <= ahead
    BY <2>1 DEF SocketTakes
  <2> QED
    BY <2>2 DEF OutInv
<1>1. n \in 0 .. Len(write_buffer) /\ ahead - n \in Nat
  BY <1>0
<1>2. a \in Seq(Byte) /\ b \in Seq(Byte) /\ Len(b) = Len(write_buffer) - n /\ a \o b = write_buffer
  BY <1>1, SplitAt DEF OutInv
<1>3. wire' = wire \o a /\ write_buffer' = b /\ ahead' = ahead - n
  BY DEF SocketTakes
<1>4. UNCHANGED <<queue, sent, taken, encoded, writeable>>
  BY DEF SocketTakes
<1> HIDE DEF a, b
<1>5. wire \in Seq(Byte) /\ wire \o a \in Seq(Byte)
  BY <1>2 DEF OutInv
<1>6. (wire \o a) \o b = wire \o (a \o b)
  <2>1. wire \in Seq(Byte) /\ a \in Seq(Byte) /\ b \in Seq(Byte)
    BY <1>2, <1>5
  <2> QED
    BY <2>1, Associative
<1>7. ahead' \in Nat /\ ahead' <= Len(write_buffer')
  BY <1>0, <1>2, <1>3
<1>8. WriteOrder'
  BY <1>2, <1>3, <1>4, <1>6 DEF OutInv, WriteOrder
<1> QED
  BY <1>2, <1>3, <1>4, <1>5, <1>7, <1>8 DEF OutInv, QueuedIsRegistered

\* What is encoded goes from the head of the channel to the end of the write buffer.
LEMMA TakeNextStep ==
  ASSUME OutInv, TakeNext
  PROVE  OutInv'
<1> DEFINE m == Head(queue)
           e == encode(m)
<1>1. m \in Message /\ Tail(queue) \in Seq(Message)
  BY DEF OutInv, TakeNext
<1>2. /\ queue' = Tail(queue) /\ taken' = Append(taken, m) /\ sent' = sent
      /\ write_buffer' = write_buffer \o e /\ encoded' = encoded \o e
      /\ UNCHANGED <<wire, ahead, writeable>> /\ queue # << >>
  BY DEF TakeNext
<1>3. e \in Seq(Byte)
  BY <1>1, EncodeType
<1>4. Append(taken, m) \o Tail(queue) = taken \o queue /\ Append(taken, m) \in Seq(Message)
  BY <1>2, SMTT(60) DEF OutInv
<1> HIDE DEF m, e
<1>5. write_buffer \o e \in Seq(Byte) /\ encoded \o e \in Seq(Byte) /\ Len(write_buffer \o e) >= Len(write_buffer)
  <2>1. write_buffer \in Seq(Byte) /\ encoded \in Seq(Byte)
    BY DEF OutInv
  <2>2. Len(write_buffer) \in Nat /\ Len(e) \in Nat
    BY <1>3, <2>1
  <2>3. /\ write_buffer \o e \in Seq(Byte) /\ encoded \o e \in Seq(Byte)
        /\ Len(write_buffer \o e) = Len(write_buffer) + Len(e)
    BY <1>3, <2>1, Joined
  <2> QED BY <2>2, <2>3
<1>6. (wire \o write_buffer) \o e = wire \o (write_buffer \o e)
  <2>1. wire \in Seq(Byte) /\ write_buffer \in Seq(Byte) /\ e \in Seq(Byte)
    BY <1>3 DEF OutInv
  <2> QED BY <2>1, Associative
<1>7. ahead' \in Nat /\ ahead' <= Len(write_buffer')
  <2>1. ahead \in Nat /\ Len(write_buffer) \in Nat /\ Len(write_buffer \o e) \in Nat /\ ahead <= Len(write_buffer)
    BY <1>5 DEF OutInv
  <2> QED
    BY <1>2, <1>5, <2>1
<1>8. WriteOrder'
  BY <1>2, <1>4, <1>6, Zenon DEF OutInv, WriteOrder
<1>9. QueuedIsRegistered'
  BY <1>2 DEF OutInv, QueuedIsRegistered
<1> QED
  BY <1>1, <1>2, <1>4, <1>5, <1>7, <1>8, <1>9 DEF OutInv

\* A message sent goes to the end of the channel, and the peer is registered.
LEMMA SendStep ==
  ASSUME OutInv, NEW m \in Message, Send(m)
  PROVE  OutInv'
<1>1. /\ sent' = Append(sent, m) /\ queue' = Append(queue, m) /\ writeable' = TRUE
      /\ UNCHANGED <<write_buffer, ahead, taken, encoded, wire>>
  BY DEF Send
<1>2. Append(taken \o queue, m) = taken \o Append(queue, m)
  <2>1. taken \in Seq(Message) /\ queue \in Seq(Message)
    BY DEF OutInv
  <2> QED
    BY <2>1, AppendConcat, Zenon
<1>3. Append(sent, m) \in Seq(Message) /\ Append(queue, m) \in Seq(Message)
  BY DEF OutInv
<1>4. WriteOrder'
  BY <1>1, <1>2 DEF OutInv, WriteOrder
<1>5. QueuedIsRegistered'
  BY <1>1 DEF QueuedIsRegistered
<1> QED
  BY <1>1, <1>3, <1>4, <1>5 DEF OutInv

\* Every step keeps the invariant.
LEMMA OutStep == OutInv /\ [IONext]_ioVars => OutInv'
<1> SUFFICES ASSUME OutInv, [IONext]_ioVars PROVE OutInv'
  OBVIOUS
<1>1. ASSUME NEW m \in Message, Send(m) PROVE OutInv'
  BY <1>1, SendStep
<1>2. ASSUME NEW n \in 1 .. Window, SocketTakes(n) PROVE OutInv'
  BY <1>2, SocketTakesStep
<1>3. CASE TakeNext
  BY <1>3, TakeNextStep
<1>4. CASE ReadAhead
  <2>1. /\ ahead' = IF Len(write_buffer) < IO_BUFFER_SIZE THEN Len(write_buffer) ELSE IO_BUFFER_SIZE
        /\ UNCHANGED <<queue, write_buffer, sent, taken, encoded, wire, writeable>>
    BY <1>4 DEF ReadAhead
  <2>2. IO_BUFFER_SIZE \in Nat /\ Len(write_buffer) \in Nat
    BY PeerIOAssumption DEF OutInv
  <2>3. ahead' \in Nat /\ ahead' <= Len(write_buffer)
    BY <2>1, <2>2
  <2> QED
    BY <2>1, <2>3 DEF OutInv, WriteOrder, QueuedIsRegistered
<1>5. CASE WouldBlock
  <2>1. ahead' = 0 /\ UNCHANGED <<queue, write_buffer, sent, taken, encoded, wire, writeable>>
    BY <1>5 DEF WouldBlock
  <2>2. 0 <= Len(write_buffer)
    BY DEF OutInv
  <2> QED
    BY <2>1, <2>2 DEF OutInv, WriteOrder, QueuedIsRegistered
<1>6. CASE DoneWriting
  BY <1>6 DEF DoneWriting, outVars, OutInv, WriteOrder, QueuedIsRegistered
<1>7. CASE UNCHANGED <<queue, write_buffer, ahead, sent, taken, encoded, wire, writeable>>
  BY <1>7 DEF OutInv, WriteOrder, QueuedIsRegistered
<1>8. CASE Drain \/ Close \/ ControlDisconnect \/ \E score \in Score : ControlBan(score)
  BY <1>7, <1>8 DEF Drain, Close, ControlDisconnect, ControlBan, outVars
<1>9. CASE \E m \in Message : Arrive(m)
  BY <1>7, <1>9 DEF Arrive, outVars
<1>10. CASE Poll \/ HangUp \/ Ignore \/ EventBan \/ EventDisconnect \/ HandleRead
  BY <1>7, <1>10 DEF Poll, HangUp, Ignore, EventBan, EventDisconnect, HandleRead, outVars
<1>11. CASE UNCHANGED ioVars
  BY <1>7, <1>11 DEF ioVars, outVars
<1> QED
  BY <1>1, <1>2, <1>3, <1>4, <1>5, <1>6, <1>8, <1>9, <1>10, <1>11 DEF IONext, EventLoop

\* The remote end gets what was sent, in order, whatever partial and refused
\* writes come in between (WriteOrder), for every message, size and window.
THEOREM WritesInOrder == IOSpec => []WriteOrder
<1>1. IOSafety => []OutInv
  BY InitOutInv, OutStep, PTL DEF IOSafety
<1>2. OutInv => WriteOrder
  BY DEF OutInv
<1> QED
  BY <1>1, <1>2, PTL DEF IOSpec

\* A message in the channel has the peer registered for writing, so that an event
\* will come for it (QueuedIsRegistered).
THEOREM QueuedHasEvent == IOSpec => []QueuedIsRegistered
<1>1. IOSafety => []OutInv
  BY InitOutInv, OutStep, PTL DEF IOSafety
<1>2. OutInv => QueuedIsRegistered
  BY DEF OutInv
<1> QED
  BY <1>1, <1>2, PTL DEF IOSpec
-----------------------------------------------------------------------------
(***************************************************************************)
(* The read half.                                                          *)
(***************************************************************************)

\* A set of natural numbers has a least element.
LEMMA LeastNumber ==
    ASSUME NEW S \in SUBSET Nat, S # {}
    PROVE  \E m \in S : \A k \in S : m <= k
<1> DEFINE R == OpToRel(<, Nat)
<1>1. IsWellFoundedOn(R, Nat)
  BY NatLessThanWellFounded, Zenon
<1>2. \A x, y \in Nat : y < x => <<y, x>> \in R
  BY DEF R, OpToRel
<1> HIDE DEF R
<1>3. PICK x \in S : \A y \in S : ~ (<<y, x>> \in R)
  BY <1>1, WFMin, Zenon
<1>4. \A k \in S : ~(k < x)
  BY <1>2, <1>3, Zenon
<1>5. \A k \in S : x <= k
  BY <1>4
<1> QED BY <1>5

\* f lists numbers in ascending order.
Increasing(f) == \A i, j \in DOMAIN f : i < j => f[i] < f[j]

\* Two ascending lists of the same numbers are the same.
LEMMA OneOrder ==
  ASSUME NEW K \in Nat, NEW T \in SUBSET Nat, NEW e \in Surjection(1 .. K, T), NEW f \in Surjection(1 .. K, T),
         Increasing(e), Increasing(f)
  PROVE  e = f
<1> DEFINE B == {k \in 1 .. K : e[k] # f[k]}
<1>1. /\ e \in [1 .. K -> T] /\ \A t \in T : \E k \in 1 .. K : e[k] = t
      /\ f \in [1 .. K -> T] /\ \A t \in T : \E k \in 1 .. K : f[k] = t
  BY DEF Surjection
<1>2. \A i, j \in 1 .. K : i < j => e[i] < e[j] /\ f[i] < f[j]
  BY <1>1 DEF Increasing
<1> SUFFICES ASSUME B # {} PROVE FALSE
  BY <1>1
<1>3. PICK m \in B : \A k \in B : m <= k
  <2>1. B \in SUBSET Nat
    OBVIOUS
  <2> HIDE DEF B
  <2> QED BY <2>1, LeastNumber
<1>4. m \in 1 .. K /\ e[m] # f[m] /\ e[m] \in T /\ f[m] \in T /\ e[m] \in Nat /\ f[m] \in Nat
  BY <1>1, <1>3, Zenon
<1>5. \A k \in 1 .. K : k < m => e[k] = f[k]
  BY <1>3, <1>4
<1> HIDE DEF B
<1>6. PICK i \in 1 .. K : e[i] = f[m]
  BY <1>1, <1>4
<1>7. PICK j \in 1 .. K : f[j] = e[m]
  BY <1>1, <1>4
<1>8. e[i] \in Nat /\ e[j] \in Nat /\ f[i] \in Nat /\ f[j] \in Nat
  BY <1>1, Zenon
<1>9. i >= m
  BY <1>2, <1>4, <1>5, <1>6, <1>8
<1>10. j >= m
  BY <1>2, <1>4, <1>5, <1>7, <1>8
<1>11. e[m] <= f[m]
  BY <1>2, <1>4, <1>6, <1>8, <1>9
<1>12. f[m] <= e[m]
  BY <1>2, <1>4, <1>7, <1>8, <1>10
<1> QED
  BY <1>4, <1>11, <1>12

\* Ascending finds the ascending list of a set.
LEMMA AscendingIs ==
  ASSUME NEW K \in Nat, NEW e \in [1 .. K -> Nat], Increasing(e)
  PROVE  LET T == {e[k] : k \in 1 .. K} IN Ascending(T) = e /\ Cardinality(T) = K
<1> DEFINE T == {e[k] : k \in 1 .. K}
<1>1. e \in Surjection(1 .. K, T) /\ T \in SUBSET Nat
  BY DEF Surjection
<1>2. e \in Injection(1 .. K, T)
  <2>1. \A i, j \in 1 .. K : i < j => e[i] < e[j]
    BY DEF Increasing
  <2>2. \A i, j \in 1 .. K : e[i] = e[j] => i = j
    BY <2>1
  <2>3. e \in [1 .. K -> T]
    OBVIOUS
  <2> QED BY <2>2, <2>3 DEF Injection, IsInjective
<1> HIDE DEF T
<1>3. Cardinality(T) = K /\ IsFiniteSet(T)
  <2>1. ExistsBijection(1 .. K, T)
    BY <1>1, <1>2 DEF ExistsBijection, Bijection
  <2> QED BY <2>1, FS_CountingElements, FS_NatBijection
<1>4. ASSUME NEW f \in [1 .. K -> T], Increasing(f) PROVE f = e
  <2>1. f \in Injection(1 .. K, T)
    <3>1. \A i, j \in 1 .. K : i < j => f[i] < f[j] /\ f[i] \in Nat /\ f[j] \in Nat
      BY <1>1, <1>4, Zenon DEF Increasing
    <3>2. \A i, j \in 1 .. K : f[i] = f[j] => i = j
      BY <3>1
    <3> QED BY <3>2 DEF Injection, IsInjective
  <2>2. Cardinality(1 .. K) = K /\ IsFiniteSet(1 .. K)
    BY FS_Interval
  <2>3. f \in Surjection(1 .. K, T)
    BY <1>3, <2>1, <2>2, FS_Injection
  <2> QED BY <1>1, <1>4, <2>3, OneOrder
<1>5. e \in [1 .. K -> T] /\ Increasing(e)
  BY <1>1 DEF Surjection
<1>6. Ascending(T) = e
  <2>1. Ascending(T) = CHOOSE f \in [1 .. K -> T] : Increasing(f)
    BY <1>3 DEF Ascending, Increasing
  <2> QED BY <1>4, <1>5, <2>1
<1> QED
  BY <1>3, <1>6 DEF T

\* bytes are the messages ms, one behind the other: message k ends at e[k].
Frames(bytes, ms, e) ==
  /\ ms \in Seq(Message) /\ bytes \in Seq(Byte)
  /\ e \in [0 .. Len(ms) -> Nat] /\ e[0] = 0 /\ e[Len(ms)] = Len(bytes)
  /\ \A k \in 1 .. Len(ms) :
       /\ e[k] = e[k - 1] + Size[ms[k]]
       /\ \A i \in 1 .. Size[ms[k]] : bytes[e[k - 1] + i] = <<ms[k], i>>

\* Later messages end later.
LEMMA FramesIncrease ==
  ASSUME NEW bytes, NEW ms, NEW e, Frames(bytes, ms, e)
  PROVE  \A j, k \in 0 .. Len(ms) : j < k => e[j] < e[k]
<1> SUFFICES ASSUME NEW j \in 0 .. Len(ms) PROVE \A k \in 0 .. Len(ms) : j < k => e[j] < e[k]
  OBVIOUS
<1> DEFINE B == {k \in 0 .. Len(ms) : j < k /\ ~(e[j] < e[k])}
<1>0. /\ Len(ms) \in Nat /\ ms \in Seq(Message) /\ e \in [0 .. Len(ms) -> Nat]
      /\ \A k \in 1 .. Len(ms) : e[k] = e[k - 1] + Size[ms[k]]
  BY DEF Frames
<1> SUFFICES ASSUME B # {} PROVE FALSE
  OBVIOUS
<1>1. PICK m \in B : \A k \in B : m <= k
  <2>1. B \in SUBSET Nat
    BY <1>0
  <2> HIDE DEF B
  <2> QED BY <2>1, LeastNumber
<1>2. m \in 1 .. Len(ms) /\ j < m /\ ~(e[j] < e[m])
  BY <1>0, <1>1
<1>3. m - 1 \in 0 .. Len(ms) /\ m - 1 \notin B
  BY <1>0, <1>1, <1>2
<1>4. j < m - 1 => e[j] < e[m - 1]
  BY <1>3
<1> HIDE DEF B
<1>5. e[m] = e[m - 1] + Size[ms[m]] /\ Size[ms[m]] \in Nat \ {0}
  <2>1. ms[m] \in Message /\ e[m] = e[m - 1] + Size[ms[m]]
    BY <1>0, <1>2
  <2>2. Size[ms[m]] \in Nat \ {0}
    BY <2>1, PeerIOAssumption
  <2> QED BY <2>1, <2>2
<1>6. e[j] \in Nat /\ e[m - 1] \in Nat /\ (j = m - 1 \/ j < m - 1)
  <2>1. e[j] \in Nat /\ e[m - 1] \in Nat
    BY <1>0, <1>3
  <2>2. j \in Nat /\ m \in Nat
    BY <1>0, <1>2
  <2> QED BY <1>2, <2>1, <2>2
<1> QED
  BY <1>2, <1>4, <1>5, <1>6

\* Byte i is a byte of one of the messages.
Covered(bytes, ms, e, i) ==
  \E k \in 1 .. Len(ms) : i - e[k - 1] \in 1 .. Size[ms[k]] /\ bytes[i] = <<ms[k], i - e[k - 1]>>

\* Every byte is.
LEMMA FramesCover ==
  ASSUME NEW bytes, NEW ms, NEW e, Frames(bytes, ms, e), NEW i \in 1 .. Len(bytes)
  PROVE  Covered(bytes, ms, e, i)
<1> DEFINE B == {k \in 0 .. Len(ms) : i <= e[k]}
<1>0. /\ Len(ms) \in Nat /\ ms \in Seq(Message) /\ e \in [0 .. Len(ms) -> Nat]
      /\ e[0] = 0 /\ e[Len(ms)] = Len(bytes) /\ Len(bytes) \in Nat
      /\ \A k \in 1 .. Len(ms) : e[k] = e[k - 1] + Size[ms[k]]
  BY DEF Frames
<1>1. Len(ms) \in B
  BY <1>0
<1>2. PICK k \in B : \A j \in B : k <= j
  <2>1. B \in SUBSET Nat
    BY <1>0
  <2> HIDE DEF B
  <2> QED BY <1>1, <2>1, LeastNumber
<1>3. k \in 1 .. Len(ms) /\ i <= e[k]
  BY <1>0, <1>2
<1>4. k - 1 \in 0 .. Len(ms) /\ k - 1 \notin B
  BY <1>0, <1>2, <1>3
<1>5. e[k - 1] < i /\ e[k - 1] \in Nat
  BY <1>0, <1>4
<1> HIDE DEF B
<1>6. e[k] = e[k - 1] + Size[ms[k]] /\ Size[ms[k]] \in Nat
  BY <1>0, <1>3, PeerIOAssumption
<1>7. i - e[k - 1] \in 1 .. Size[ms[k]] /\ e[k - 1] + (i - e[k - 1]) = i
  BY <1>3, <1>5, <1>6
<1>8. \A j \in 1 .. Size[ms[k]] : bytes[e[k - 1] + j] = <<ms[k], j>>
  BY <1>3 DEF Frames
<1> DEFINE j == i - e[k - 1]
<1>9. j \in 1 .. Size[ms[k]] /\ e[k - 1] + j = i
  BY <1>7
<1> HIDE DEF j
<1>10. bytes[i] = <<ms[k], j>>
  BY <1>8, <1>9
<1> QED
  BY <1>3, <1>9, <1>10 DEF j, Covered

\* The messages that end within the first n bytes are the first K.
Within(ms, e, n, K) == \A k \in 0 .. Len(ms) : e[k] <= n <=> k <= K

\* There is such a K.
LEMMA FramesWithin ==
  ASSUME NEW bytes, NEW ms, NEW e, Frames(bytes, ms, e), NEW n \in 0 .. Len(bytes)
  PROVE  \E K \in 0 .. Len(ms) : Within(ms, e, n, K)
<1> DEFINE B == {k \in 0 .. Len(ms) : n < e[k]}
<1>0. /\ Len(ms) \in Nat /\ e \in [0 .. Len(ms) -> Nat] /\ e[0] = 0 /\ n \in Nat
  BY DEF Frames
<1>1. \A j, k \in 0 .. Len(ms) : j < k => e[j] < e[k]
  BY FramesIncrease
<1>2. CASE B = {}
  <2>1. \A k \in 0 .. Len(ms) : e[k] <= n /\ k <= Len(ms)
    BY <1>0, <1>2
  <2>2. Within(ms, e, n, Len(ms))
    BY <2>1 DEF Within
  <2> QED BY <1>0, <2>2
<1>3. CASE B # {}
  <2>1. PICK m \in B : \A k \in B : m <= k
    <3>1. B \in SUBSET Nat
      BY <1>0
    <3> HIDE DEF B
    <3> QED BY <1>3, <3>1, LeastNumber
  <2>2. m \in 1 .. Len(ms) /\ n < e[m]
    BY <1>0, <2>1
  <2>3. ASSUME NEW k \in 0 .. Len(ms) PROVE e[k] <= n <=> k <= m - 1
    <3>1. e[k] \in Nat /\ e[m] \in Nat /\ k \in Nat /\ m \in Nat
      BY <1>0, <2>2
    <3>2. k < m => e[k] <= n
      BY <1>0, <2>1, <3>1
    <3>3. k >= m => e[k] > n
      BY <1>0, <1>1, <2>2, <3>1
    <3> QED BY <1>0, <3>1, <3>2, <3>3
  <2>4. m - 1 \in 0 .. Len(ms)
    BY <1>0, <2>2
  <2> QED BY <2>3, <2>4, Zenon DEF Within
<1> QED
  BY <1>2, <1>3

\* The first n bytes complete a message where a message ends.
LEMMA CompleteOf ==
  ASSUME NEW bytes, NEW ms, NEW e, Frames(bytes, ms, e), NEW n \in 0 .. Len(bytes),
         NEW K \in 0 .. Len(ms), Within(ms, e, n, K)
  PROVE  Complete(SubSeq(bytes, 1, n)) = {e[k] : k \in 1 .. K}
<1> DEFINE p == SubSeq(bytes, 1, n)
<1>0. /\ Len(ms) \in Nat /\ ms \in Seq(Message) /\ e \in [0 .. Len(ms) -> Nat]
      /\ bytes \in Seq(Byte) /\ Len(bytes) \in Nat
      /\ \A k \in 1 .. Len(ms) : e[k] = e[k - 1] + Size[ms[k]]
  BY DEF Frames
<1>1. p \in Seq(Byte) /\ Len(p) = n /\ n \in Nat /\ DOMAIN p = 1 .. n /\ \A i \in 1 .. n : p[i] = bytes[i]
  BY <1>0
<1> HIDE DEF p
<1>2. ASSUME NEW i \in Complete(p) PROVE i \in {e[k] : k \in 1 .. K}
  <2>1. i \in 1 .. n /\ i \in 1 .. Len(bytes) /\ Size[p[i][1]] <= i /\ SubSeq(p, 1 + i - Size[p[i][1]], i) = encode(p[i][1])
    <3>1. i \in DOMAIN p /\ Size[p[i][1]] <= i /\ SubSeq(p, 1 + i - Size[p[i][1]], i) = encode(p[i][1])
      BY DEF Complete
    <3>2. i \in 1 .. n /\ i \in 1 .. Len(bytes)
      BY <1>0, <1>1, <3>1
    <3> QED BY <3>1, <3>2
  <2>2. PICK k \in 1 .. Len(ms) : i - e[k - 1] \in 1 .. Size[ms[k]] /\ bytes[i] = <<ms[k], i - e[k - 1]>>
    <3>1. Covered(bytes, ms, e, i)
      BY <2>1, FramesCover
    <3> QED BY <3>1, Zenon DEF Covered
  <2> DEFINE s == Size[ms[k]]
             a == 1 + i - s
  <2>3. p[i] = <<ms[k], i - e[k - 1]>> /\ p[i][1] = ms[k] /\ p[i][2] = i - e[k - 1]
    BY <1>1, <2>1, <2>2
  <2>4. s \in Nat \ {0}
    <3>1. ms[k] \in Message
      BY <1>0
    <3> QED BY <3>1, PeerIOAssumption
  <2>5. s <= i /\ SubSeq(p, a, i) = encode(ms[k]) /\ encode(ms[k])[s] = <<ms[k], s>>
    <3>1. s <= i /\ SubSeq(p, a, i) = encode(ms[k])
      BY <2>1, <2>3
    <3>2. encode(ms[k]) = [x \in 1 .. s |-> <<ms[k], x>>]
      BY DEF encode
    <3> HIDE DEF s
    <3>3. s \in 1 .. s
      BY <2>4
    <3>4. encode(ms[k])[s] = <<ms[k], s>>
      BY <3>2, <3>3
    <3> QED BY <3>1, <3>4
  <2> HIDE DEF s
  <2>6. a \in Nat /\ a >= 1 /\ a <= i /\ i - a + 1 = s /\ a + s - 1 = i /\ s \in 1 .. i - a + 1
    <3>1. i \in Nat /\ s \in Nat /\ s >= 1 /\ s <= i
      BY <1>1, <2>1, <2>4, <2>5
    <3> QED BY <3>1
  <2> HIDE DEF a
  <2>7. SubSeq(p, a, i)[s] = p[a + s - 1]
    BY <1>1, <2>1, <2>6
  <2>8. p[i][2] = s
    BY <2>5, <2>6, <2>7
  <2> DEFINE d == e[k - 1]
  <2>9. i = e[k] /\ e[k] <= n
    <3>1. d \in Nat /\ e[k] = d + s
      <4>1. k - 1 \in 0 .. Len(ms) /\ k \in 1 .. Len(ms)
        BY <1>0
      <4> QED BY <1>0, <4>1 DEF s
    <3>2. i - d = s
      BY <2>3, <2>8
    <3> HIDE DEF d
    <3> QED BY <1>1, <2>1, <2>4, <3>1, <3>2
  <2>10. k \in 1 .. K
    BY <1>0, <2>9 DEF Within
  <2> QED BY <2>9, <2>10
<1>3. ASSUME NEW k \in 1 .. K PROVE e[k] \in Complete(p)
  <2> DEFINE s == Size[ms[k]]
             b == e[k - 1]
             i == e[k]
  <2>0. k \in 1 .. Len(ms) /\ k - 1 \in 0 .. Len(ms)
    BY <1>0
  <2>1. s \in Nat \ {0} /\ b \in Nat /\ i = b + s /\ i <= n
    <3>1. s \in Nat \ {0}
      BY <1>0, <2>0, PeerIOAssumption
    <3>2. b \in Nat /\ i = b + s
      BY <1>0, <2>0, Zenon
    <3>3. i <= n
      BY <1>0, <2>0 DEF Within
    <3> QED BY <3>1, <3>2, <3>3
  <2>2. \A j \in 1 .. s : bytes[b + j] = <<ms[k], j>>
    BY <2>0, Zenon DEF Frames
  <2> HIDE DEF b, s, i
  <2>3. \A j \in 1 .. s : p[b + j] = <<ms[k], j>>
    <3>1. \A j \in 1 .. s : b + j \in 1 .. n
      BY <1>1, <2>1
    <3>2. \A j \in 1 .. s : p[b + j] = bytes[b + j]
      BY <1>1, <3>1
    <3> QED BY <2>2, <3>2, Zenon
  <2>4. i \in 1 .. n /\ p[i] = <<ms[k], s>> /\ p[i][1] = ms[k]
    <3>1. i \in 1 .. n /\ s \in 1 .. s
      BY <1>1, <2>1
    <3>2. p[i] = <<ms[k], s>>
      BY <2>1, <2>3, <3>1
    <3> QED BY <3>1, <3>2
  <2>5. SubSeq(p, 1 + b, i) = encode(ms[k])
    <3>1. SubSeq(p, 1 + b, i) \in Seq(Byte) /\ Len(SubSeq(p, 1 + b, i)) = s
      BY <1>1, <2>1
    <3>2. \A j \in 1 .. s : SubSeq(p, 1 + b, i)[j] = p[b + j]
      BY <1>1, <2>1
    <3>3. encode(ms[k]) \in Seq(Byte) /\ Len(encode(ms[k])) = s /\ \A j \in 1 .. s : encode(ms[k])[j] = <<ms[k], j>>
      <4>1. encode(ms[k]) \in Seq(Byte)
        BY <1>0, <2>0, EncodeType
      <4>2. encode(ms[k]) = [j \in 1 .. s |-> <<ms[k], j>>]
        BY DEF encode, s
      <4> QED BY <2>1, <4>1, <4>2
    <3>4. \A j \in 1 .. s : SubSeq(p, 1 + b, i)[j] = encode(ms[k])[j]
      BY <2>3, <3>2, <3>3, Zenon
    <3> QED BY <3>1, <3>3, <3>4, SameElements, Zenon
  <2>6. 1 + i - s = 1 + b /\ s <= i
    BY <2>1
  <2>7. Size[p[i][1]] = s
    BY <2>4 DEF s
  <2>8. i \in Complete(p)
    BY <1>1, <2>4, <2>5, <2>6, <2>7 DEF Complete
  <2> QED BY <2>8 DEF i
<1> QED
  BY <1>2, <1>3 DEF p

\* The messages found in the first n bytes are the first K; what is left after k
\* of them begins behind the k-th.
Found(bytes, ms, e, n, K) ==
  LET p == SubSeq(bytes, 1, n) IN
  /\ Messages(p) = SubSeq(ms, 1, K)
  /\ \A k \in 0 .. K : After(p, k) = SubSeq(p, e[k] + 1, n)

\* Decoding finds the messages that end within the bytes.
LEMMA MessagesOf ==
  ASSUME NEW bytes, NEW ms, NEW e, Frames(bytes, ms, e), NEW n \in 0 .. Len(bytes),
         NEW K \in 0 .. Len(ms), Within(ms, e, n, K)
  PROVE  Found(bytes, ms, e, n, K)
<1> DEFINE p == SubSeq(bytes, 1, n)
           f == [k \in 1 .. K |-> e[k]]
<1>0. /\ Len(ms) \in Nat /\ ms \in Seq(Message) /\ e \in [0 .. Len(ms) -> Nat] /\ e[0] = 0
      /\ bytes \in Seq(Byte) /\ Len(bytes) \in Nat
      /\ \A k \in 1 .. Len(ms) : e[k] = e[k - 1] + Size[ms[k]]
  BY DEF Frames
<1>1. p \in Seq(Byte) /\ Len(p) = n /\ n \in Nat /\ \A i \in 1 .. n : p[i] = bytes[i]
  BY <1>0
<1>2. Complete(p) = {e[k] : k \in 1 .. K}
  BY CompleteOf
<1>3. K \in Nat /\ f \in [1 .. K -> Nat] /\ \A k \in 1 .. K : f[k] = e[k]
  BY <1>0
<1>4. Increasing(f)
  <2>1. \A j, k \in 0 .. Len(ms) : j < k => e[j] < e[k]
    BY FramesIncrease
  <2> QED BY <1>0, <1>3, <2>1 DEF Increasing
<1> HIDE DEF p, f
<1>5. Ascending(Complete(p)) = f
  <2>1. Complete(p) = {f[k] : k \in 1 .. K}
    BY <1>2, <1>3
  <2> QED BY <1>3, <1>4, <2>1, AscendingIs, Zenon
<1>6. Messages(p) = SubSeq(ms, 1, K)
  <2>1. ASSUME NEW k \in 1 .. K PROVE p[f[k]][1] = ms[k]
    <3> DEFINE s == Size[ms[k]]
               b == e[k - 1]
    <3>1. k \in 1 .. Len(ms) /\ k \in 0 .. Len(ms) /\ k - 1 \in 0 .. Len(ms)
      BY <1>0
    <3>2. s \in Nat \ {0} /\ b \in Nat /\ e[k] = b + s /\ e[k] <= n
      <4>1. s \in Nat \ {0}
        BY <1>0, <3>1, PeerIOAssumption
      <4>2. b \in Nat /\ e[k] = b + s
        BY <1>0, <3>1, Zenon
      <4>3. e[k] <= n
        BY <1>0, <3>1 DEF Within
      <4> QED BY <4>1, <4>2, <4>3
    <3>3. \A j \in 1 .. s : bytes[b + j] = <<ms[k], j>>
      BY <3>1, Zenon DEF Frames
    <3> HIDE DEF b, s
    <3>4. bytes[b + s] = <<ms[k], s>> /\ p[b + s] = bytes[b + s]
      <4>1. s \in 1 .. s /\ b + s \in 1 .. n
        BY <1>1, <3>2
      <4> QED BY <1>1, <3>3, <4>1, Zenon
    <3> QED BY <1>3, <3>2, <3>4
  <2>2. Messages(p) = [k \in 1 .. K |-> p[f[k]][1]]
    BY <1>3, <1>5 DEF Messages
  <2>3. SubSeq(ms, 1, K) = [k \in 1 .. K |-> ms[k]]
    BY <1>0
  <2> QED BY <2>1, <2>2, <2>3
<1>7. ASSUME NEW k \in 0 .. K PROVE After(p, k) = SubSeq(p, e[k] + 1, n)
  <2>1. CASE k = 0
    <3>1. SubSeq(p, 1, n) = p
      BY <1>1
    <3> QED BY <1>0, <2>1, <3>1 DEF After
  <2>2. CASE k # 0
    <3>1. k \in 1 .. K /\ e[k] \in Nat
      BY <1>0, <1>3, <2>2
    <3>2. 1 + e[k] = e[k] + 1
      BY <3>1
    <3> QED BY <1>1, <1>3, <1>5, <2>2, <3>1, <3>2, Zenon DEF After
  <2> QED BY <2>1, <2>2
<1> QED
  BY <1>6, <1>7, Zenon DEF p, Found

\* A message more, behind the others.
LEMMA FramesAppend ==
  ASSUME NEW bytes, NEW ms, NEW e, Frames(bytes, ms, e), NEW m \in Message
  PROVE  \E f : Frames(bytes \o encode(m), Append(ms, m), f) /\ \A k \in 0 .. Len(ms) : f[k] = e[k]
<1> DEFINE L == Len(ms)
           s == Size[m]
           c == encode(m)
           f == [k \in 0 .. L + 1 |-> IF k = L + 1 THEN e[L] + s ELSE e[k]]
           b2 == bytes \o c
           ms2 == Append(ms, m)
<1>0. /\ ms \in Seq(Message) /\ bytes \in Seq(Byte) /\ L \in Nat /\ Len(bytes) \in Nat
      /\ e \in [0 .. L -> Nat] /\ e[0] = 0 /\ e[L] = Len(bytes)
  BY DEF Frames
<1>1. s \in Nat \ {0} /\ c \in Seq(Byte) /\ Len(c) = s /\ \A i \in 1 .. s : c[i] = <<m, i>>
  <2>1. s \in Nat \ {0}
    BY PeerIOAssumption
  <2>2. c \in Seq(Byte)
    BY EncodeType
  <2>3. c = [i \in 1 .. s |-> <<m, i>>]
    BY DEF encode
  <2> QED BY <2>1, <2>2, <2>3
<1>2. /\ ms2 \in Seq(Message) /\ Len(ms2) = L + 1 /\ ms2[L + 1] = m
      /\ \A k \in 1 .. L : ms2[k] = ms[k]
  BY <1>0
<1> HIDE DEF c, s, ms2
<1>3. /\ b2 \in Seq(Byte) /\ Len(b2) = Len(bytes) + s
      /\ \A i \in 1 .. Len(bytes) : b2[i] = bytes[i]
      /\ \A i \in 1 .. s : b2[Len(bytes) + i] = c[i]
  <2>1. b2 \in Seq(Byte) /\ Len(b2) = Len(bytes) + s
    BY <1>0, <1>1, Joined, Zenon
  <2>2. \A i \in 1 .. Len(bytes) + s : b2[i] = IF i <= Len(bytes) THEN bytes[i] ELSE c[i - Len(bytes)]
    BY <1>0, <1>1, Joined
  <2> HIDE DEF b2
  <2>3. ASSUME NEW i \in 1 .. Len(bytes) PROVE b2[i] = bytes[i]
    <3>1. i \in 1 .. Len(bytes) + s /\ i <= Len(bytes)
      BY <1>0, <1>1
    <3> QED BY <2>2, <3>1
  <2>4. ASSUME NEW i \in 1 .. s PROVE b2[Len(bytes) + i] = c[i]
    <3>1. Len(bytes) + i \in 1 .. Len(bytes) + s /\ ~(Len(bytes) + i <= Len(bytes)) /\ Len(bytes) + i - Len(bytes) = i
      BY <1>0, <1>1
    <3> QED BY <2>2, <3>1
  <2> QED BY <2>1, <2>3, <2>4
<1> HIDE DEF b2
<1>4. /\ f \in [0 .. L + 1 -> Nat] /\ f[0] = 0 /\ f[L + 1] = Len(bytes) + s
      /\ \A k \in 0 .. L : f[k] = e[k]
  BY <1>0, <1>1
<1> HIDE DEF f
<1>5. ASSUME NEW k \in 1 .. L
      PROVE  f[k] = f[k - 1] + Size[ms2[k]] /\ \A i \in 1 .. Size[ms2[k]] : b2[f[k - 1] + i] = <<ms2[k], i>>
  <2>1. k \in 0 .. L /\ k - 1 \in 0 .. L /\ ms2[k] = ms[k] /\ f[k] = e[k] /\ f[k - 1] = e[k - 1]
    <3>1. k \in 0 .. L /\ k - 1 \in 0 .. L
      BY <1>0
    <3> QED BY <1>2, <1>4, <3>1, Zenon
  <2>2. e[k] = e[k - 1] + Size[ms[k]] /\ \A i \in 1 .. Size[ms[k]] : bytes[e[k - 1] + i] = <<ms[k], i>>
    BY Zenon DEF Frames
  <2>3. e[k] <= Len(bytes)
    <3>1. \A i, j \in 0 .. Len(ms) : i < j => e[i] < e[j]
      BY FramesIncrease
    <3>2. k = L \/ e[k] < e[L]
      BY <1>0, <2>1, <3>1
    <3> QED BY <1>0, <2>1, <3>2
  <2> DEFINE d == e[k - 1]
             z == Size[ms[k]]
  <2>4. d \in Nat /\ z \in Nat /\ d + z <= Len(bytes)
    <3>1. d \in Nat
      BY <1>0, <2>1
    <3>2. z \in Nat
      BY <1>0, PeerIOAssumption
    <3> QED BY <2>2, <2>3, <3>1, <3>2
  <2> HIDE DEF d, z
  <2>5. \A i \in 1 .. z : b2[d + i] = bytes[d + i]
    <3> SUFFICES ASSUME NEW i \in 1 .. z PROVE d + i \in 1 .. Len(bytes)
      BY <1>3
    <3> QED BY <1>0, <2>4
  <2> QED BY <2>1, <2>2, <2>5, Zenon DEF d, z
<1>6. f[L + 1] = f[L] + Size[ms2[L + 1]] /\ \A i \in 1 .. Size[ms2[L + 1]] : b2[f[L] + i] = <<ms2[L + 1], i>>
  <2>1. f[L] = Len(bytes) /\ Size[ms2[L + 1]] = s
    BY <1>0, <1>2, <1>4 DEF s
  <2> QED BY <1>1, <1>2, <1>3, <1>4, <2>1, Zenon
<1>7. ASSUME NEW k \in 1 .. L + 1
      PROVE  f[k] = f[k - 1] + Size[ms2[k]] /\ \A i \in 1 .. Size[ms2[k]] : b2[f[k - 1] + i] = <<ms2[k], i>>
  <2>1. k \in 1 .. L \/ (k = L + 1 /\ k - 1 = L)
    BY <1>0
  <2> QED BY <1>5, <1>6, <2>1, Zenon
<1>8. Frames(b2, ms2, f)
  BY <1>2, <1>3, <1>4, <1>7, Zenon DEF Frames
<1> QED
  BY <1>4, <1>8 DEF b2, ms2, c

\* The messages behind the first K, in the bytes behind them.
Dropped(bytes, ms, e, K) ==
  /\ e[K] \in 0 .. Len(bytes)
  /\ \E f : /\ Frames(SubSeq(bytes, e[K] + 1, Len(bytes)), SubSeq(ms, K + 1, Len(ms)), f)
            /\ \A k \in 0 .. Len(ms) - K : f[k] = e[K + k] - e[K]

\* What is behind the first K is messages again.
LEMMA FramesDrop ==
  ASSUME NEW bytes, NEW ms, NEW e, Frames(bytes, ms, e), NEW K \in 0 .. Len(ms)
  PROVE  Dropped(bytes, ms, e, K)
<1> DEFINE L == Len(ms)
           a == e[K]
           b2 == SubSeq(bytes, a + 1, Len(bytes))
           ms2 == SubSeq(ms, K + 1, L)
           f == [k \in 0 .. L - K |-> e[K + k] - a]
<1>0. /\ ms \in Seq(Message) /\ bytes \in Seq(Byte) /\ L \in Nat /\ Len(bytes) \in Nat
      /\ e \in [0 .. L -> Nat] /\ e[0] = 0 /\ e[L] = Len(bytes) /\ K \in Nat /\ K <= L
  BY DEF Frames
<1>1. \A j, k \in 0 .. L : j < k => e[j] < e[k]
  BY FramesIncrease
<1>2. \A j, k \in 0 .. L : j <= k => e[j] <= e[k]
  <2> SUFFICES ASSUME NEW j \in 0 .. L, NEW k \in 0 .. L, j <= k PROVE e[j] <= e[k]
    OBVIOUS
  <2>1. e[j] \in Nat /\ e[k] \in Nat /\ (j = k \/ j < k)
    BY <1>0
  <2> QED BY <1>1, <2>1
<1>3. a \in Nat /\ a <= Len(bytes)
  BY <1>0, <1>2
<1>4. b2 \in Seq(Byte) /\ Len(b2) = Len(bytes) - a /\ \A i \in 1 .. Len(bytes) - a : b2[i] = bytes[a + i]
  <2> HIDE DEF a
  <2> QED BY <1>0, <1>3
<1>5. ms2 \in Seq(Message) /\ Len(ms2) = L - K /\ \A k \in 1 .. L - K : ms2[k] = ms[K + k]
  BY <1>0
<1>6. \A k \in 0 .. L - K : K + k \in 0 .. L /\ a <= e[K + k] /\ e[K + k] \in Nat
  BY <1>0, <1>2
<1>7. \A k \in 0 .. L - K : f[k] = e[K + k] - a /\ f[k] \in Nat
  <2> SUFFICES ASSUME NEW k \in 0 .. L - K PROVE f[k] = e[K + k] - a /\ f[k] \in Nat
    OBVIOUS
  <2>1. f[k] = e[K + k] - a
    OBVIOUS
  <2> HIDE DEF f
  <2>2. e[K + k] - a \in Nat
    <3>1. a \in Nat /\ e[K + k] \in Nat /\ a <= e[K + k]
      BY <1>3, <1>6
    <3> HIDE DEF a
    <3> QED BY <3>1
  <2> QED BY <2>1, <2>2
<1>8. f \in [0 .. L - K -> Nat]
  BY <1>7, Zenon
<1> HIDE DEF f, b2, ms2
<1>9. f[0] = 0 /\ f[L - K] = Len(b2)
  <2>1. 0 \in 0 .. L - K /\ L - K \in 0 .. L - K /\ K + 0 = K /\ K + (L - K) = L
    BY <1>0
  <2>2. f[0] = a - a
    BY <1>7, <2>1
  <2>3. f[L - K] = Len(bytes) - a
    BY <1>0, <1>7, <2>1
  <2> QED BY <1>3, <1>4, <2>2, <2>3
<1>10. ASSUME NEW k \in 1 .. L - K
       PROVE  f[k] = f[k - 1] + Size[ms2[k]] /\ \A i \in 1 .. Size[ms2[k]] : b2[f[k - 1] + i] = <<ms2[k], i>>
  <2> DEFINE d == e[K + k - 1]
             z == Size[ms[K + k]]
  <2>1. K + k \in 1 .. L /\ k \in 0 .. L - K /\ k - 1 \in 0 .. L - K /\ K + (k - 1) = K + k - 1
    BY <1>0
  <2>2. e[K + k] = d + z /\ \A i \in 1 .. z : bytes[d + i] = <<ms[K + k], i>>
    <3> DEFINE j == K + k
    <3>1. j \in 1 .. L
      BY <2>1
    <3> HIDE DEF j
    <3>2. e[j] = e[j - 1] + Size[ms[j]] /\ \A i \in 1 .. Size[ms[j]] : bytes[e[j - 1] + i] = <<ms[j], i>>
      BY <3>1, Zenon DEF Frames
    <3> QED BY <3>2 DEF j
  <2>3. ms2[k] = ms[K + k] /\ f[k] = e[K + k] - a /\ f[k - 1] = d - a
    BY <1>5, <1>7, <2>1
  <2>4. d \in Nat /\ a <= d
    BY <1>6, <2>1
  <2>5. z \in Nat /\ e[K + k] <= Len(bytes)
    <3>1. ms[K + k] \in Message
      BY <1>0, <2>1
    <3>2. z \in Nat
      BY <3>1, PeerIOAssumption
    <3>3. e[K + k] <= Len(bytes)
      BY <1>0, <1>2, <2>1
    <3> QED BY <3>2, <3>3
  <2>6. Size[ms2[k]] = z
    BY <2>3
  <2> HIDE DEF a, d, z
  <2>7. f[k] = f[k - 1] + z
    BY <1>3, <2>2, <2>3, <2>4, <2>5
  <2>8. ASSUME NEW i \in 1 .. z PROVE b2[f[k - 1] + i] = <<ms2[k], i>>
    <3>1. d - a + i \in 1 .. Len(bytes) - a /\ a + (d - a + i) = d + i
      BY <1>0, <1>3, <2>2, <2>4, <2>5
    <3>2. b2[d - a + i] = bytes[a + (d - a + i)]
      BY <1>4, <3>1
    <3> QED BY <2>2, <2>3, <3>1, <3>2
  <2> QED BY <2>6, <2>7, <2>8
<1>11. Frames(b2, ms2, f)
  BY <1>4, <1>5, <1>8, <1>9, <1>10, Zenon DEF Frames
<1> QED
  <2>1. a \in 0 .. Len(bytes)
    BY <1>0, <1>3
  <2> QED BY <1>7, <1>11, <2>1 DEF Dropped, b2, ms2

\* What is left of a sequence behind its first a.
LEMMA Suffix ==
  ASSUME NEW S, NEW s \in Seq(S), NEW a \in 0 .. Len(s)
  PROVE  LET r == SubSeq(s, a + 1, Len(s)) IN
         r \in Seq(S) /\ Len(r) = Len(s) - a /\ \A k \in 1 .. Len(s) - a : r[k] = s[a + k]
  OBVIOUS

\* Concatenation of bytes is associative.
LEMMA BytesAssociative == \A a, b, c \in Seq(Byte) : (a \o b) \o c = a \o (b \o c)
  BY Associative

\* Concatenation of messages is associative.
LEMMA MessagesAssociative == \A a, b, c \in Seq(Message) : (a \o b) \o c = a \o (b \o c)
  BY Associative

\* Reading n bytes into the read buffer and dropping the first a of it drops the
\* first a of the read buffer and the inbox together.
Cut(r, i, n, N, a) ==
  LET p == r \o SubSeq(i, 1, n)
      q == SubSeq(p, a + 1, N)
      j == SubSeq(i, n + 1, Len(i))
  IN  /\ N \in 0 .. Len(r \o i) /\ p = SubSeq(r \o i, 1, N)
      /\ q \in Seq(Byte) /\ Len(q) = N - a /\ j \in Seq(Byte)
      /\ q \o j = SubSeq(r \o i, a + 1, Len(r \o i))

\* It does, for any n and a.
LEMMA ReadCut ==
  ASSUME NEW r \in Seq(Byte), NEW i \in Seq(Byte), NEW n \in 0 .. Len(i), NEW N \in Nat, N = Len(r) + n,
         NEW a \in 0 .. N
  PROVE  Cut(r, i, n, N, a)
<1> DEFINE h == SubSeq(i, 1, n)
           j == SubSeq(i, n + 1, Len(i))
           p == r \o h
           q == SubSeq(p, a + 1, N)
           b == r \o i
<1>0. Len(r) \in Nat /\ Len(i) \in Nat /\ n \in Nat /\ n <= Len(i) /\ a \in Nat /\ a <= N
  OBVIOUS
<1>1. /\ h \in Seq(Byte) /\ Len(h) = n /\ j \in Seq(Byte) /\ Len(j) = Len(i) - n /\ h \o j = i
  BY SplitAt, Zenon
<1> HIDE DEF h, j
<1>2. b = p \o j
  <2>1. (r \o h) \o j = r \o (h \o j)
    <3>1. r \in Seq(Byte) /\ h \in Seq(Byte) /\ j \in Seq(Byte)
      BY <1>1
    <3> QED BY <3>1, BytesAssociative, Zenon
  <2> QED BY <1>1, <2>1
<1>3. p \in Seq(Byte) /\ Len(p) = N
  <2>1. p \in Seq(Byte) /\ Len(p) = Len(r) + Len(h)
    BY <1>1, Joined
  <2> QED BY <1>1, <2>1
<1> HIDE DEF p, b
<1>4. b \in Seq(Byte) /\ Len(b) = N + Len(j) /\ \A k \in 1 .. N + Len(j) : b[k] = IF k <= N THEN p[k] ELSE j[k - N]
  <2>1. p \in Seq(Byte) /\ j \in Seq(Byte)
    BY <1>1, <1>3
  <2>2. /\ p \o j \in Seq(Byte) /\ Len(p \o j) = Len(p) + Len(j)
        /\ \A k \in 1 .. Len(p) + Len(j) : (p \o j)[k] = IF k <= Len(p) THEN p[k] ELSE j[k - Len(p)]
    BY <2>1, Joined
  <2>3. Len(p) = N
    BY <1>3
  <2> QED BY <1>2, <2>2, <2>3, Zenon
<1>5. Len(j) \in Nat /\ N \in 0 .. Len(b)
  BY <1>1, <1>4
<1>6. p = SubSeq(b, 1, N)
  <2>1. SubSeq(b, 1, N) \in Seq(Byte) /\ Len(SubSeq(b, 1, N)) = N /\ \A k \in 1 .. N : SubSeq(b, 1, N)[k] = b[k]
    BY <1>4, <1>5
  <2>2. \A k \in 1 .. N : b[k] = p[k]
    BY <1>4, <1>5
  <2>3. \A k \in 1 .. N : p[k] = SubSeq(b, 1, N)[k]
    BY <2>1, <2>2
  <2> QED BY <1>3, <2>1, <2>3, SameElements
<1>7. q \in Seq(Byte) /\ Len(q) = N - a /\ \A k \in 1 .. N - a : q[k] = p[a + k]
  BY <1>0, <1>3
<1> DEFINE s == SubSeq(b, a + 1, Len(b))
<1>8. s \in Seq(Byte) /\ Len(s) = Len(b) - a /\ \A k \in 1 .. Len(b) - a : s[k] = b[a + k]
  <2>1. b \in Seq(Byte) /\ a \in 0 .. Len(b)
    BY <1>0, <1>4, <1>5
  <2> QED BY <2>1, Suffix
<1> HIDE DEF q, s
<1>9. /\ q \o j \in Seq(Byte) /\ Len(q \o j) = N - a + Len(j)
      /\ \A k \in 1 .. N - a + Len(j) : (q \o j)[k] = IF k <= N - a THEN q[k] ELSE j[k - (N - a)]
  <2>1. q \in Seq(Byte) /\ j \in Seq(Byte)
    BY <1>1, <1>7
  <2>2. /\ q \o j \in Seq(Byte) /\ Len(q \o j) = Len(q) + Len(j)
        /\ \A k \in 1 .. Len(q) + Len(j) : (q \o j)[k] = IF k <= Len(q) THEN q[k] ELSE j[k - Len(q)]
    BY <2>1, Joined
  <2>3. Len(q) = N - a
    BY <1>7
  <2> QED BY <2>2, <2>3, Zenon
<1>10. Len(s) = N - a + Len(j) /\ Len(b) - a = N - a + Len(j)
  BY <1>0, <1>4, <1>5, <1>8
<1>11. ASSUME NEW k \in 1 .. N - a + Len(j) PROVE (q \o j)[k] = s[k]
  <2>1. s[k] = b[a + k]
    BY <1>8, <1>10
  <2>2. k \in Nat /\ a + k \in 1 .. N + Len(j) /\ a + k - N = k - (N - a) /\ (k <= N - a <=> a + k <= N)
    BY <1>0, <1>5
  <2>3. b[a + k] = IF a + k <= N THEN p[a + k] ELSE j[a + k - N]
    BY <1>4, <2>2
  <2>4. CASE k <= N - a
    <3>1. k \in 1 .. N - a
      BY <1>0, <2>2, <2>4
    <3>2. (q \o j)[k] = q[k] /\ q[k] = p[a + k]
      BY <1>7, <1>9, <2>4, <3>1
    <3> QED BY <2>1, <2>2, <2>3, <2>4, <3>2
  <2>5. CASE ~(k <= N - a)
    <3>1. (q \o j)[k] = j[k - (N - a)]
      BY <1>9, <2>5
    <3> QED BY <2>1, <2>2, <2>3, <2>5, <3>1
  <2> QED BY <2>4, <2>5, Zenon
<1>12. q \o j = s
  BY <1>8, <1>9, <1>10, <1>11, SameElements, Zenon
<1> QED
  BY <1>1, <1>5, <1>6, <1>7, <1>12, Zenon DEF h, j, p, q, b, s, Cut

\* Decoding takes all the messages, unless the last it takes does not decode.
LEMMA DecodesOf ==
  ASSUME NEW all \in Seq(Message)
  PROVE  LET msgs == SubSeq(all, 1, Decodes(all)) IN
         /\ Decodes(all) \in 0 .. Len(all)
         /\ ~(msgs # << >> /\ Last(msgs) \in Garbled) => Decodes(all) = Len(all)
<1> DEFINE c == Decodes(all)
           I == {i \in 1 .. Len(all) : all[i] \in Garbled}
           msgs == SubSeq(all, 1, c)
<1>0. Len(all) \in Nat /\ DOMAIN all = 1 .. Len(all)
  OBVIOUS
<1>1. CASE I = {}
  <2>1. c = Len(all)
    BY <1>0, <1>1 DEF Decodes
  <2> HIDE DEF c
  <2> QED BY <1>0, <2>1 DEF c
<1>2. CASE I # {}
  <2>1. c = SelectInSeq(all, LAMBDA m : m \in Garbled)
    BY <1>0, <1>2 DEF Decodes
  <2>2. c = Min(I)
    BY <1>2, <2>1 DEF SelectInSeq
  <2>3. PICK m \in I : \A k \in I : m <= k
    <3>1. I \in SUBSET Nat
      OBVIOUS
    <3> HIDE DEF I
    <3> QED BY <1>2, <3>1, LeastNumber
  <2>4. c \in I
    BY <2>2, <2>3 DEF Min
  <2>5. c \in 1 .. Len(all) /\ all[c] \in Garbled
    BY <2>4
  <2> HIDE DEF c, I
  <2>6. Len(msgs) = c /\ msgs[c] = all[c] /\ c # 0
    BY <1>0, <2>5
  <2>7. msgs # << >> /\ Last(msgs) \in Garbled
    BY <2>5, <2>6 DEF Last
  <2> QED BY <2>5, <2>7 DEF c
<1> QED
  BY <1>1, <1>2

\* s is what is left of t when some of it is left out.
Subsequence(s, t) ==
  \E g \in [1 .. Len(s) -> 1 .. Len(t)] : Increasing(g) /\ \A k \in 1 .. Len(s) : s[k] = t[g[k]]

\* What comes later may be left out.
LEMMA SubsequenceOfMore ==
  ASSUME NEW s \in Seq(Message), NEW t \in Seq(Message), NEW u \in Seq(Message), Subsequence(s, t)
  PROVE  Subsequence(s, t \o u)
<1>0. Len(s) \in Nat /\ Len(t) \in Nat /\ Len(u) \in Nat
  OBVIOUS
<1>1. PICK g \in [1 .. Len(s) -> 1 .. Len(t)] : Increasing(g) /\ \A k \in 1 .. Len(s) : s[k] = t[g[k]]
  BY DEF Subsequence
<1>2. Len(t \o u) = Len(t) + Len(u) /\ \A i \in 1 .. Len(t) : (t \o u)[i] = t[i]
  OBVIOUS
<1>3. \A k \in 1 .. Len(s) : g[k] \in 1 .. Len(t) /\ g[k] \in 1 .. Len(t \o u)
  <2>1. \A i \in 1 .. Len(t) : i \in 1 .. Len(t) + Len(u)
    BY <1>0
  <2>2. \A k \in 1 .. Len(s) : g[k] \in 1 .. Len(t)
    BY <1>1
  <2> QED BY <1>2, <2>1, <2>2
<1>4. g \in [1 .. Len(s) -> 1 .. Len(t \o u)] /\ \A k \in 1 .. Len(s) : s[k] = (t \o u)[g[k]]
  BY <1>1, <1>2, <1>3
<1> QED
  BY <1>1, <1>4, Zenon DEF Subsequence

\* What comes later may be kept.
LEMMA SubsequenceOfBoth ==
  ASSUME NEW s \in Seq(Message), NEW t \in Seq(Message), NEW u \in Seq(Message), Subsequence(s, t)
  PROVE  Subsequence(s \o u, t \o u)
<1> DEFINE a == Len(s)
           b == Len(t)
           c == Len(u)
<1>0. a \in Nat /\ b \in Nat /\ c \in Nat
  OBVIOUS
<1>1. PICK g \in [1 .. a -> 1 .. b] : Increasing(g) /\ \A k \in 1 .. a : s[k] = t[g[k]]
  BY DEF Subsequence
<1>2. /\ Len(t \o u) = b + c /\ (\A i \in 1 .. b : (t \o u)[i] = t[i]) /\ (\A i \in 1 .. c : (t \o u)[b + i] = u[i])
  OBVIOUS
<1>3. /\ Len(s \o u) = a + c /\ (\A i \in 1 .. a : (s \o u)[i] = s[i]) /\ (\A i \in 1 .. c : (s \o u)[a + i] = u[i])
  OBVIOUS
<1> HIDE DEF a, b, c
<1> DEFINE h == [k \in 1 .. a + c |-> IF k <= a THEN g[k] ELSE b + (k - a)]
<1>4. \A k \in 1 .. a : k \in 1 .. a + c /\ k <= a /\ g[k] \in 1 .. b /\ g[k] \in 1 .. b + c
  BY <1>0, <1>1
<1>5. \A k \in 1 .. a + c : ~(k <= a) => k - a \in 1 .. c /\ b + (k - a) \in 1 .. b + c /\ k = a + (k - a)
  BY <1>0
<1>6. \A k \in 1 .. a + c : k <= a => k \in 1 .. a
  BY <1>0
<1>7. h \in [1 .. a + c -> 1 .. b + c]
  BY <1>4, <1>5, <1>6
<1>8. /\ \A k \in 1 .. a : h[k] = g[k]
      /\ \A k \in 1 .. a + c : ~(k <= a) => h[k] = b + (k - a)
  BY <1>4
<1>9. DOMAIN h = 1 .. a + c
  OBVIOUS
<1> HIDE DEF h
<1>10. Increasing(h)
  <2> SUFFICES ASSUME NEW i \in 1 .. a + c, NEW j \in 1 .. a + c, i < j PROVE h[i] < h[j]
    BY <1>9 DEF Increasing
  <2>0. i \in Nat /\ j \in Nat
    BY <1>0
  <2>1. CASE j <= a
    <3>1. i \in 1 .. a /\ j \in 1 .. a
      BY <1>0, <2>0, <2>1
    <3>2. g[i] < g[j]
      BY <1>1, <3>1 DEF Increasing
    <3> QED BY <1>8, <3>1, <3>2
  <2>2. CASE ~(j <= a) /\ i <= a
    <3>1. i \in 1 .. a /\ h[i] = g[i] /\ g[i] \in 1 .. b /\ h[j] = b + (j - a)
      BY <1>4, <1>6, <1>8, <2>2
    <3> QED BY <1>0, <2>0, <2>2, <3>1
  <2>3. CASE ~(j <= a) /\ ~(i <= a)
    <3>1. h[i] = b + (i - a) /\ h[j] = b + (j - a)
      BY <1>8, <2>3
    <3> QED BY <1>0, <2>0, <3>1
  <2> QED BY <2>1, <2>2, <2>3
<1>11. ASSUME NEW k \in 1 .. a + c PROVE (s \o u)[k] = (t \o u)[h[k]]
  <2>1. CASE k <= a
    BY <1>1, <1>2, <1>3, <1>4, <1>6, <1>8, <2>1
  <2>2. CASE ~(k <= a)
    <3> DEFINE d == k - a
    <3>1. d \in 1 .. c /\ k = a + d /\ h[k] = b + d
      BY <1>5, <1>8, <2>2
    <3> HIDE DEF d
    <3>2. (s \o u)[a + d] = u[d] /\ (t \o u)[b + d] = u[d]
      BY <1>2, <1>3, <3>1, Zenon
    <3> QED BY <3>1, <3>2
  <2> QED BY <2>1, <2>2, Zenon
<1>12. /\ h \in [1 .. Len(s \o u) -> 1 .. Len(t \o u)]
       /\ \A k \in 1 .. Len(s \o u) : (s \o u)[k] = (t \o u)[h[k]]
  BY <1>2, <1>3, <1>7, <1>11, Zenon
<1> QED
  BY <1>10, <1>12, Zenon DEF Subsequence

\* A subsequence is what stands at some positions, in their order.
LEMMA SubsequenceIsOrdered ==
  ASSUME NEW s \in Seq(Message), NEW t \in Seq(Message), Subsequence(s, t)
  PROVE  \E D \in SUBSET DOMAIN t : s = [k \in 1 .. Cardinality(D) |-> t[Ascending(D)[k]]]
<1>0. Len(s) \in Nat /\ Len(t) \in Nat /\ DOMAIN t = 1 .. Len(t) /\ s = [k \in 1 .. Len(s) |-> s[k]]
  OBVIOUS
<1>1. PICK g \in [1 .. Len(s) -> 1 .. Len(t)] : Increasing(g) /\ \A k \in 1 .. Len(s) : s[k] = t[g[k]]
  BY DEF Subsequence
<1> DEFINE D == {g[k] : k \in 1 .. Len(s)}
<1>2. D \in SUBSET DOMAIN t /\ g \in [1 .. Len(s) -> Nat]
  BY <1>0, <1>1
<1>3. Ascending(D) = g /\ Cardinality(D) = Len(s)
  BY <1>0, <1>1, <1>2, AscendingIs, Zenon
<1> HIDE DEF D
<1>4. s = [k \in 1 .. Cardinality(D) |-> t[Ascending(D)[k]]]
  BY <1>0, <1>1, <1>3
<1> QED
  BY <1>2, <1>4

\* What the read half keeps.  The messages that arrived are those done with and
\* those whose bytes are in the read buffer and the socket, where the first begins
\* at the first byte; the dispatcher has got a subsequence of those done with.  As
\* long as none failed to decode it has got all of them, and the read buffer ends
\* before the first message does.
InInv ==
  /\ inbox \in Seq(Byte) /\ read_buffer \in Seq(Byte)
  /\ arrived \in Seq(Message) /\ incoming \in Seq(Message) /\ failed \in BOOLEAN
  /\ \E done \in Seq(Message), ms \in Seq(Message) : \E e :
       /\ arrived = done \o ms
       /\ Frames(read_buffer \o inbox, ms, e)
       /\ Subsequence(incoming, done)
       /\ ~failed => incoming = done /\ Within(ms, e, Len(read_buffer), 0)

\* A connection starts with nothing to read.
LEMMA InitInInv == IOInit => InInv
<1> SUFFICES ASSUME IOInit PROVE InInv
  OBVIOUS
<1>1. inbox = << >> /\ read_buffer = << >> /\ arrived = << >> /\ incoming = << >> /\ failed = FALSE
  BY DEF IOInit
<1> DEFINE z == << >>
           e == [k \in 0 .. 0 |-> 0]
<1>2. z \in Seq(Message) /\ z \in Seq(Byte) /\ Len(z) = 0 /\ z \o z = z
  OBVIOUS
<1>3. e \in [0 .. 0 -> Nat] /\ e[0] = 0 /\ 1 .. 0 = {} /\ \A k \in 0 .. 0 : k = 0
  OBVIOUS
<1> HIDE DEF z, e
<1>4. Frames(z, z, e)
  BY <1>2, <1>3 DEF Frames
<1>5. Subsequence(z, z)
  <2> DEFINE g == [k \in 1 .. 0 |-> 0]
  <2>1. g \in [1 .. 0 -> 1 .. 0] /\ DOMAIN g = {}
    BY <1>3
  <2> HIDE DEF g
  <2>2. g \in [1 .. Len(z) -> 1 .. Len(z)] /\ Increasing(g) /\ \A k \in 1 .. Len(z) : z[k] = z[g[k]]
    BY <1>2, <1>3, <2>1 DEF Increasing
  <2> QED BY <2>2 DEF Subsequence
<1>6. Within(z, e, 0, 0)
  <2>1. \A k \in 0 .. 0 : e[k] = 0 /\ k = 0
    BY <1>3
  <2>2. \A k \in 0 .. 0 : e[k] <= 0 <=> k <= 0
    BY <2>1
  <2> QED BY <1>2, <2>2 DEF Within
<1>7. inbox = z /\ read_buffer = z /\ arrived = z /\ incoming = z
  BY <1>1 DEF z
<1>8. /\ arrived = z \o z /\ Frames(read_buffer \o inbox, z, e) /\ Subsequence(incoming, z)
      /\ incoming = z /\ Within(z, e, Len(read_buffer), 0)
  BY <1>2, <1>4, <1>5, <1>6, <1>7
<1> QED
  BY <1>1, <1>2, <1>7, <1>8, Zenon DEF InInv

\* A message that arrives goes behind the others; it does not end before them.
LEMMA ArriveStep ==
  ASSUME InInv, NEW m \in Message, Arrive(m)
  PROVE  InInv'
<1> DEFINE c == encode(m)
<1>1. /\ arrived' = Append(arrived, m) /\ inbox' = inbox \o c
      /\ read_buffer' = read_buffer /\ incoming' = incoming /\ failed' = failed
  BY DEF Arrive
<1>2. PICK done \in Seq(Message), ms \in Seq(Message) : \E e :
       /\ arrived = done \o ms
       /\ Frames(read_buffer \o inbox, ms, e)
       /\ Subsequence(incoming, done)
       /\ ~failed => incoming = done /\ Within(ms, e, Len(read_buffer), 0)
  BY Zenon DEF InInv
<1>3. PICK e :
       /\ arrived = done \o ms
       /\ Frames(read_buffer \o inbox, ms, e)
       /\ Subsequence(incoming, done)
       /\ ~failed => incoming = done /\ Within(ms, e, Len(read_buffer), 0)
  BY <1>2
<1>4. /\ inbox \in Seq(Byte) /\ read_buffer \in Seq(Byte) /\ c \in Seq(Byte)
      /\ arrived \in Seq(Message) /\ incoming \in Seq(Message) /\ failed \in BOOLEAN
  BY EncodeType DEF InInv
<1> DEFINE b == read_buffer \o inbox
           ms2 == Append(ms, m)
<1>5. PICK f : Frames(b \o c, ms2, f) /\ \A k \in 0 .. Len(ms) : f[k] = e[k]
  BY <1>3, FramesAppend
<1> HIDE DEF c
<1>6. b \o c = read_buffer \o (inbox \o c) /\ inbox \o c \in Seq(Byte)
  <2>1. read_buffer \in Seq(Byte) /\ inbox \in Seq(Byte) /\ c \in Seq(Byte)
    BY <1>4
  <2>2. (read_buffer \o inbox) \o c = read_buffer \o (inbox \o c)
    BY <2>1, BytesAssociative, Zenon
  <2>3. inbox \o c \in Seq(Byte)
    BY <2>1, Joined
  <2> QED BY <2>2, <2>3
<1>7. ms2 \in Seq(Message) /\ Append(arrived, m) = done \o ms2 /\ Append(arrived, m) \in Seq(Message)
  <2>1. ms2 \in Seq(Message) /\ Append(arrived, m) \in Seq(Message)
    BY <1>4
  <2>2. Append(done \o ms, m) = done \o Append(ms, m)
    BY AppendConcat, Zenon
  <2> QED BY <1>3, <2>1, <2>2
<1>8. ASSUME ~failed PROVE Within(ms2, f, Len(read_buffer), 0)
  <2>1. Within(ms, e, Len(read_buffer), 0)
    BY <1>3, <1>8
  <2>2. Len(ms) \in Nat /\ Len(ms2) = Len(ms) + 1 /\ Len(read_buffer) \in Nat
    BY <1>4
  <2>3. Len(read_buffer) \in 0 .. Len(b \o c)
    <3>1. Len(b \o c) = Len(read_buffer) + Len(inbox \o c) /\ Len(inbox \o c) \in Nat
      BY <1>4, <1>6, Joined
    <3> QED BY <2>2, <3>1
  <2>4. PICK K \in 0 .. Len(ms2) : Within(ms2, f, Len(read_buffer), K)
    BY <1>5, <2>3, FramesWithin, Zenon
  <2>5. K = 0
    <3> SUFFICES ASSUME K # 0 PROVE FALSE
      OBVIOUS
    <3>1. f[1] <= Len(read_buffer) /\ 1 \in 0 .. Len(ms2) /\ 1 <= K
      BY <2>2, <2>4 DEF Within
    <3>2. CASE Len(ms) >= 1
      <4>1. 1 \in 0 .. Len(ms) /\ f[1] = e[1]
        BY <1>5, <2>2, <3>2
      <4>2. ~(e[1] <= Len(read_buffer))
        BY <2>1, <4>1 DEF Within
      <4> QED BY <3>1, <4>1, <4>2
    <3>3. CASE Len(ms) = 0
      <4>1. Len(b) = 0 /\ Len(b) = Len(read_buffer) + Len(inbox) /\ Len(inbox) \in Nat
        BY <1>3, <1>4, <3>3, Joined DEF Frames
      <4>2. f[0] < f[1] /\ f[0] = 0 /\ f[1] \in Nat
        <5>1. \A i, j \in 0 .. Len(ms2) : i < j => f[i] < f[j]
          BY <1>5, FramesIncrease, Zenon
        <5>2. f[0] = 0 /\ f \in [0 .. Len(ms2) -> Nat]
          BY <1>5 DEF Frames
        <5> QED BY <2>2, <3>1, <5>1, <5>2
      <4> QED BY <2>2, <3>1, <4>1, <4>2
    <3> QED BY <2>2, <3>2, <3>3
  <2> QED BY <2>4, <2>5
<1> HIDE DEF ms2
<1>9. /\ arrived' = done \o ms2 /\ Frames(read_buffer' \o inbox', ms2, f)
      /\ Subsequence(incoming', done)
      /\ ~failed' => incoming' = done /\ Within(ms2, f, Len(read_buffer'), 0)
  BY <1>1, <1>3, <1>5, <1>6, <1>7, <1>8
<1>10. /\ inbox' \in Seq(Byte) /\ read_buffer' \in Seq(Byte)
       /\ arrived' \in Seq(Message) /\ incoming' \in Seq(Message) /\ failed' \in BOOLEAN
  BY <1>1, <1>4, <1>6, <1>7
<1> QED
  BY <1>7, <1>9, <1>10, Zenon DEF InInv

\* A read takes the messages it finds complete, up to the first that does not
\* decode, off the front of the bytes; unless it fails, the read buffer then ends
\* before the next message does.
Took(r, i, n, ms, e) ==
  LET p == r \o SubSeq(i, 1, n)
      all == Messages(p)
      c == Decodes(all)
      msgs == SubSeq(all, 1, c)
      fails == msgs # << >> /\ Last(msgs) \in Garbled
      q == After(p, Len(msgs))
      j == SubSeq(i, n + 1, Len(i))
      ms2 == SubSeq(ms, c + 1, Len(ms))
  IN  /\ msgs \in Seq(Message) /\ ms2 \in Seq(Message) /\ ms = msgs \o ms2
      /\ q \in Seq(Byte) /\ j \in Seq(Byte)
      /\ n = 0 /\ Within(ms, e, Len(r), 0) => msgs = << >>
      /\ \E f : Frames(q \o j, ms2, f) /\ (~fails => Within(ms2, f, Len(q), 0))

\* It does, however many bytes it reads.
LEMMA ReadFrames ==
  ASSUME NEW r \in Seq(Byte), NEW i \in Seq(Byte), NEW n \in 0 .. Len(i), NEW ms \in Seq(Message), NEW e,
         Frames(r \o i, ms, e)
  PROVE  Took(r, i, n, ms, e)
<1> DEFINE N == Len(r) + n
           b == r \o i
           p == r \o SubSeq(i, 1, n)
           all == Messages(p)
           c == Decodes(all)
           msgs == SubSeq(all, 1, c)
           fails == msgs # << >> /\ Last(msgs) \in Garbled
           q == After(p, Len(msgs))
           j == SubSeq(i, n + 1, Len(i))
           ms2 == SubSeq(ms, c + 1, Len(ms))
<1>0. N \in Nat /\ Len(ms) \in Nat /\ Len(r) \in Nat /\ n \in Nat /\ 0 \in 0 .. N
  OBVIOUS
<1>1. N \in 0 .. Len(b) /\ p = SubSeq(b, 1, N)
  <2> HIDE DEF N
  <2>1. N = Len(r) + n
    BY DEF N
  <2>2. Cut(r, i, n, N, 0)
    BY <1>0, <2>1, ReadCut
  <2> QED BY <2>2 DEF Cut
<1>2. PICK K \in 0 .. Len(ms) : Within(ms, e, N, K)
  <2> HIDE DEF N
  <2> QED BY <1>1, FramesWithin, Zenon
<1>3. all = SubSeq(ms, 1, K) /\ \A k \in 0 .. K : After(p, k) = SubSeq(p, e[k] + 1, N)
  <2>0. Frames(b, ms, e)
    OBVIOUS
  <2> HIDE DEF N, b, p
  <2>1. Found(b, ms, e, N, K)
    BY <1>1, <1>2, <2>0, MessagesOf
  <2> QED BY <1>1, <2>1, Zenon DEF Found
<1> HIDE DEF all, p, N
<1>4. all \in Seq(Message) /\ Len(all) = K /\ K \in Nat /\ \A k \in 1 .. K : all[k] = ms[k]
  <2>1. K \in Nat /\ K <= Len(ms)
    BY <1>0
  <2>2. /\ SubSeq(ms, 1, K) \in Seq(Message) /\ Len(SubSeq(ms, 1, K)) = K
        /\ \A k \in 1 .. K : SubSeq(ms, 1, K)[k] = ms[k]
    BY <1>0, <2>1
  <2> QED BY <1>3, <2>1, <2>2
<1>5. c \in 0 .. K /\ (~fails => c = K)
  BY <1>4, DecodesOf
<1> HIDE DEF fails, c
<1>6. msgs = SubSeq(ms, 1, c) /\ msgs \in Seq(Message) /\ Len(msgs) = c /\ c \in 0 .. Len(ms)
  <2>1. c \in Nat /\ c <= K /\ K <= Len(ms) /\ c \in 0 .. Len(ms)
    BY <1>0, <1>4, <1>5
  <2>2. msgs \in Seq(Message) /\ Len(msgs) = c /\ \A k \in 1 .. c : msgs[k] = all[k]
    BY <1>4, <2>1
  <2>3. /\ SubSeq(ms, 1, c) \in Seq(Message) /\ Len(SubSeq(ms, 1, c)) = c
        /\ \A k \in 1 .. c : SubSeq(ms, 1, c)[k] = ms[k]
    BY <1>0, <2>1
  <2>4. \A k \in 1 .. c : k \in 1 .. K
    BY <1>4, <2>1
  <2>5. \A k \in 1 .. c : msgs[k] = SubSeq(ms, 1, c)[k]
    BY <1>4, <2>2, <2>3, <2>4
  <2> HIDE DEF msgs
  <2>6. msgs = SubSeq(ms, 1, c)
    BY <2>2, <2>3, <2>5, SameElements
  <2> QED BY <2>1, <2>2, <2>6
<1>7. ms2 \in Seq(Message) /\ ms = msgs \o ms2
  BY <1>6, SplitAt, Zenon
<1> DEFINE a == e[c]
<1>8. /\ a \in 0 .. Len(b)
      /\ \E f : /\ Frames(SubSeq(b, a + 1, Len(b)), ms2, f)
                /\ \A k \in 0 .. Len(ms) - c : f[k] = e[c + k] - a
  <2>1. Frames(b, ms, e)
    OBVIOUS
  <2> HIDE DEF b
  <2>2. Dropped(b, ms, e, c)
    BY <1>6, <2>1, FramesDrop
  <2> QED BY <2>2, Zenon DEF Dropped
<1>9. a \in 0 .. N
  <2>1. a <= N
    BY <1>2, <1>5, <1>6 DEF Within
  <2>2. a \in Nat
    BY <1>8
  <2> HIDE DEF a
  <2> QED BY <1>0, <2>1, <2>2
<1>10. q = SubSeq(p, a + 1, N)
  BY <1>3, <1>5, <1>6
<1> HIDE DEF a, b, q, j, ms2, msgs
<1>11. q \in Seq(Byte) /\ Len(q) = N - a /\ j \in Seq(Byte) /\ q \o j = SubSeq(b, a + 1, Len(b))
  <2>1. N = Len(r) + n /\ p = r \o SubSeq(i, 1, n) /\ j = SubSeq(i, n + 1, Len(i)) /\ b = r \o i
    BY DEF N, p, j, b
  <2>2. Cut(r, i, n, N, a)
    BY <1>0, <1>9, <2>1, ReadCut
  <2> QED BY <1>10, <2>1, <2>2, Zenon DEF Cut
<1>12. PICK f : /\ Frames(q \o j, ms2, f)
                /\ \A k \in 0 .. Len(ms) - c : f[k] = e[c + k] - a
  BY <1>8, <1>11
<1>13. ASSUME ~fails PROVE Within(ms2, f, Len(q), 0)
  <2>1. c = K /\ Len(ms2) = Len(ms) - K
    BY <1>0, <1>5, <1>6, <1>13 DEF ms2
  <2> SUFFICES ASSUME NEW k \in 0 .. Len(ms) - K PROVE f[k] <= Len(q) <=> k <= 0
    BY <2>1 DEF Within
  <2> DEFINE x == e[K + k]
  <2>2. K + k \in 0 .. Len(ms) /\ k \in Nat /\ (K + k <= K <=> k <= 0)
    BY <1>0, <1>4
  <2>3. x \in Nat /\ (x <= N <=> K + k <= K)
    BY <1>2, <2>2 DEF Within, Frames
  <2>4. f[k] = x - a
    BY <1>12, <2>1
  <2> HIDE DEF x
  <2>5. x - a <= N - a <=> x <= N
    <3>1. a \in Nat /\ N \in Nat
      BY <1>0, <1>9
    <3> QED BY <2>3, <3>1
  <2> QED BY <1>11, <2>2, <2>3, <2>4, <2>5
<1>14. ASSUME n = 0, Within(ms, e, Len(r), 0) PROVE msgs = << >>
  <2>1. N = Len(r)
    BY <1>0, <1>14 DEF N
  <2>2. e[K] <= N
    BY <1>2, <1>4 DEF Within
  <2>3. K <= 0
    BY <1>14, <2>1, <2>2 DEF Within
  <2>4. c = 0
    BY <1>4, <1>5, <2>3
  <2> QED BY <1>6, <2>4
<1> QED
  BY <1>6, <1>7, <1>11, <1>12, <1>13, <1>14, Zenon DEF q, j, ms2, msgs, fails, c, all, p, Took

\* A read keeps the invariant: what it takes off the bytes is done with.
LEMMA ReadStep ==
  ASSUME InInv, HandleRead
  PROVE  InInv'
<1>0. /\ inbox \in Seq(Byte) /\ read_buffer \in Seq(Byte)
      /\ arrived \in Seq(Message) /\ incoming \in Seq(Message) /\ failed \in BOOLEAN
  BY DEF InInv
<1>1. PICK n \in 0 .. Len(inbox) : Read(n)
  BY DEF HandleRead
<1>2. PICK done \in Seq(Message), ms \in Seq(Message) : \E e :
       /\ arrived = done \o ms
       /\ Frames(read_buffer \o inbox, ms, e)
       /\ Subsequence(incoming, done)
       /\ ~failed => incoming = done /\ Within(ms, e, Len(read_buffer), 0)
  BY Zenon DEF InInv
<1>3. PICK e :
       /\ arrived = done \o ms
       /\ Frames(read_buffer \o inbox, ms, e)
       /\ Subsequence(incoming, done)
       /\ ~failed => incoming = done /\ Within(ms, e, Len(read_buffer), 0)
  BY <1>2
<1> DEFINE p == read_buffer \o SubSeq(inbox, 1, n)
           all == Messages(p)
           c == Decodes(all)
           msgs == SubSeq(all, 1, c)
           fails == msgs # << >> /\ Last(msgs) \in Garbled
           q == After(p, Len(msgs))
           j == SubSeq(inbox, n + 1, Len(inbox))
           ms2 == SubSeq(ms, c + 1, Len(ms))
<1>4. /\ inbox' = j /\ read_buffer' = q /\ arrived' = arrived
      /\ incoming' = IF ~fails /\ n > 0 THEN incoming \o msgs ELSE incoming
      /\ failed' = (failed \/ fails)
  BY <1>1, Zenon DEF Read, HandleRead
<1>5. Took(read_buffer, inbox, n, ms, e)
  BY <1>0, <1>3, ReadFrames
<1>6. /\ msgs \in Seq(Message) /\ ms2 \in Seq(Message) /\ ms = msgs \o ms2
      /\ q \in Seq(Byte) /\ j \in Seq(Byte)
      /\ n = 0 /\ Within(ms, e, Len(read_buffer), 0) => msgs = << >>
      /\ \E f : Frames(q \o j, ms2, f) /\ (~fails => Within(ms2, f, Len(q), 0))
  BY <1>5, Zenon DEF Took
<1>7. fails \in BOOLEAN
  OBVIOUS
<1> HIDE DEF msgs, ms2, q, j, fails
<1>8. PICK f : Frames(q \o j, ms2, f) /\ (~fails => Within(ms2, f, Len(q), 0))
  BY <1>6
<1> DEFINE done2 == done \o msgs
<1>9. done2 \in Seq(Message) /\ incoming \o msgs \in Seq(Message)
  BY <1>0, <1>6, Joined
<1>10. arrived' = done2 \o ms2
  <2>1. (done \o msgs) \o ms2 = done \o (msgs \o ms2)
    <3>1. msgs \in Seq(Message) /\ ms2 \in Seq(Message) /\ done \in Seq(Message)
      BY <1>6
    <3> QED BY <3>1, MessagesAssociative, Zenon
  <2> QED BY <1>3, <1>4, <1>6, <2>1
<1>11. Subsequence(incoming', done2)
  <2>1. Subsequence(incoming, done \o msgs)
    BY <1>0, <1>3, <1>6, SubsequenceOfMore
  <2>2. Subsequence(incoming \o msgs, done \o msgs)
    BY <1>0, <1>3, <1>6, SubsequenceOfBoth
  <2> QED BY <1>4, <2>1, <2>2
<1>12. ASSUME ~failed' PROVE incoming' = done2 /\ Within(ms2, f, Len(q), 0)
  <2>1. ~failed /\ ~fails
    BY <1>0, <1>4, <1>7, <1>12
  <2>2. incoming = done /\ Within(ms, e, Len(read_buffer), 0)
    BY <1>3, <2>1
  <2>3. CASE n > 0
    BY <1>4, <1>8, <2>1, <2>2, <2>3
  <2>4. CASE n = 0
    <3>1. incoming' = incoming
      BY <1>4, <2>4
    <3>2. msgs = << >>
      BY <1>6, <2>2, <2>4
    <3>3. done \o << >> = done
      BY Joined, SameElements
    <3> QED BY <1>8, <2>1, <2>2, <3>1, <3>2, <3>3
  <2> QED BY <2>3, <2>4
<1> HIDE DEF done2
<1>13. incoming' \in Seq(Message) /\ failed' \in BOOLEAN /\ arrived' \in Seq(Message)
  BY <1>0, <1>4, <1>7, <1>9
<1>14. /\ Frames(read_buffer' \o inbox', ms2, f)
       /\ ~failed' => incoming' = done2 /\ Within(ms2, f, Len(read_buffer'), 0)
  BY <1>4, <1>8, <1>12
<1> QED
  BY <1>4, <1>6, <1>9, <1>10, <1>11, <1>13, <1>14, Zenon DEF InInv

\* Every step keeps the invariant.
LEMMA InStep == InInv /\ [IONext]_ioVars => InInv'
<1> SUFFICES ASSUME InInv, [IONext]_ioVars PROVE InInv'
  OBVIOUS
<1>1. ASSUME NEW m \in Message, Arrive(m) PROVE InInv'
  BY <1>1, ArriveStep
<1>2. CASE HandleRead
  BY <1>2, ReadStep
<1>3. CASE UNCHANGED <<inbox, read_buffer, arrived, incoming, failed>>
  BY <1>3, Zenon DEF InInv
<1>4. ASSUME NEW m, Send(m) PROVE InInv'
  BY <1>3, <1>4 DEF Send, inVars
<1>5. ASSUME NEW n, SocketTakes(n) PROVE InInv'
  BY <1>3, <1>5 DEF SocketTakes, inVars
<1>6. CASE Drain \/ Close \/ ControlDisconnect \/ \E score \in Score : ControlBan(score)
  BY <1>3, <1>6 DEF Drain, Close, ControlDisconnect, ControlBan, inVars
<1>7. CASE Poll \/ HangUp \/ Ignore \/ EventBan \/ EventDisconnect
  BY <1>3, <1>7 DEF Poll, HangUp, Ignore, EventBan, EventDisconnect, inVars
<1>8. CASE ReadAhead \/ WouldBlock \/ TakeNext \/ DoneWriting
  BY <1>3, <1>8 DEF ReadAhead, WouldBlock, TakeNext, DoneWriting, inVars
<1>9. CASE UNCHANGED ioVars
  BY <1>3, <1>9 DEF ioVars, inVars
<1> QED
  BY <1>1, <1>2, <1>4, <1>5, <1>6, <1>7, <1>8, <1>9 DEF IONext, EventLoop

\* The dispatcher gets the peer's messages in the order they were sent and none
\* twice, and all of them as long as none failed to decode, however they are cut
\* into socket reads (ReadInOrder), for every message, size and buffer.
THEOREM ReadsInOrder == IOSpec => []ReadInOrder
<1>1. IOSafety => []InInv
  BY InitInInv, InStep, PTL DEF IOSafety
<1>2. InInv => ReadInOrder
  <2> SUFFICES ASSUME InInv PROVE ReadInOrder
    OBVIOUS
  <2>0. /\ inbox \in Seq(Byte) /\ read_buffer \in Seq(Byte)
        /\ arrived \in Seq(Message) /\ incoming \in Seq(Message)
    BY DEF InInv
  <2>1. PICK done \in Seq(Message), ms \in Seq(Message) : \E e :
         /\ arrived = done \o ms
         /\ Frames(read_buffer \o inbox, ms, e)
         /\ Subsequence(incoming, done)
         /\ ~failed => incoming = done
    BY Zenon DEF InInv
  <2>2. \E D \in SUBSET DOMAIN arrived :
          incoming = [k \in 1 .. Cardinality(D) |-> arrived[Ascending(D)[k]]]
    <3>1. Subsequence(incoming, arrived)
      BY <2>0, <2>1, SubsequenceOfMore
    <3> QED BY <2>0, <3>1, SubsequenceIsOrdered, Zenon
  <2>3. Messages(read_buffer \o inbox) = ms
    <3> DEFINE b == read_buffer \o inbox
               L == Len(b)
    <3>1. PICK e : Frames(b, ms, e)
      BY <2>1
    <3>2. b \in Seq(Byte) /\ L \in Nat /\ L \in 0 .. L /\ SubSeq(b, 1, L) = b
      BY <3>1 DEF Frames
    <3>3. Len(ms) \in 0 .. Len(ms) /\ SubSeq(ms, 1, Len(ms)) = ms
      OBVIOUS
    <3> HIDE DEF b
    <3>4. PICK K \in 0 .. Len(ms) : Within(ms, e, L, K)
      BY <3>1, <3>2, FramesWithin
    <3>5. K = Len(ms)
      <4>1. e[Len(ms)] <= L
        BY <3>1, <3>2 DEF Frames
      <4>2. Len(ms) <= K
        BY <3>3, <3>4, <4>1 DEF Within
      <4>3. Len(ms) \in Nat /\ K \in Nat /\ K <= Len(ms)
        BY <3>3
      <4> QED BY <4>2, <4>3
    <3>6. Found(b, ms, e, L, K)
      BY <3>1, <3>2, <3>4, MessagesOf
    <3> QED BY <3>2, <3>3, <3>5, <3>6, Zenon DEF Found, b
  <2> QED BY <2>1, <2>2, <2>3, Zenon DEF ReadInOrder
<1> QED
  BY <1>1, <1>2, PTL DEF IOSpec

\* A message that has been read completely is not left in the read buffer
\* (NothingWaits), for every message, size and buffer.
THEOREM NoMessageWaits == IOSpec => []NothingWaits
<1>1. IOSafety => []InInv
  BY InitInInv, InStep, PTL DEF IOSafety
<1>2. InInv => NothingWaits
  <2> SUFFICES ASSUME InInv, ~failed PROVE Messages(read_buffer) = << >>
    BY DEF NothingWaits
  <2>0. inbox \in Seq(Byte) /\ read_buffer \in Seq(Byte)
    BY DEF InInv
  <2>1. PICK ms \in Seq(Message) : \E e :
         Frames(read_buffer \o inbox, ms, e) /\ Within(ms, e, Len(read_buffer), 0)
    BY DEF InInv
  <2>2. PICK e : Frames(read_buffer \o inbox, ms, e) /\ Within(ms, e, Len(read_buffer), 0)
    BY <2>1
  <2> DEFINE b == read_buffer \o inbox
             N == Len(read_buffer)
  <2>3. N \in 0 .. Len(b) /\ SubSeq(b, 1, N) = read_buffer
    <3>1. Cut(read_buffer, inbox, 0, N, 0)
      <4>1. 0 \in 0 .. Len(inbox) /\ N \in Nat /\ N = N + 0 /\ 0 \in 0 .. N
        BY <2>0
      <4> QED BY <2>0, <4>1, ReadCut
    <3>2. read_buffer \o SubSeq(inbox, 1, 0) = read_buffer
      BY <2>0
    <3> QED BY <3>1, <3>2 DEF Cut
  <2>4. 0 \in 0 .. Len(ms) /\ SubSeq(ms, 1, 0) = << >>
    OBVIOUS
  <2> HIDE DEF b
  <2>5. Found(b, ms, e, N, 0)
    BY <2>2, <2>3, <2>4, MessagesOf, Zenon DEF b
  <2> QED BY <2>3, <2>4, <2>5, Zenon DEF Found
<1> QED
  BY <1>1, <1>2, PTL DEF IOSpec

=============================================================================
