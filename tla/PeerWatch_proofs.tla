--------------------------- MODULE PeerWatch_proofs ---------------------------
(***************************************************************************)
(* What Timeout keeps whatever is called, and what the threads that share  *)
(* it keep between them, for any peers and any times.                      *)
(***************************************************************************)
EXTENDS PeerWatch, TLAPS

Kept == TimeoutTypeOK /\ BusyIffOwing

-----------------------------------------------------------------------------
(***************************************************************************)
(* Timeout alone.                                                          *)
(***************************************************************************)

\* A call for somebody else changes nothing.
LEMMA Elsewhere ==
    ASSUME Kept, NEW p, p \notin Peer, NEW k, NEW n,
           forget(p) \/ expect(p, n, k) \/ received(p, n, k)
    PROVE  timeouts' = timeouts /\ expected' = expected
BY DEF Kept, TimeoutTypeOK, forget, expect, received

\* forget leaves the two maps in step and nothing owed by the peer.
LEMMA ForgetKeeps ==
    ASSUME Kept, NEW p \in Peer, forget(p)
    PROVE  /\ Kept'
           /\ \A q \in Peer : \A k \in Reply :
                 expected'[q][k] = IF q = p THEN 0 ELSE expected[q][k]
<1>1. /\ timeouts' \in [Peer -> NoTimeout .. TIMEOUT]
      /\ expected' \in [Peer -> [Reply -> 0 .. MaxOwed]]
  BY TimeoutAssumption DEF Kept, TimeoutTypeOK, forget, NoReply, NoTimeout
<1>2. \A q \in Peer : \A k \in Reply :
         expected'[q][k] = IF q = p THEN 0 ELSE expected[q][k]
  BY DEF Kept, TimeoutTypeOK, forget, NoReply
<1>3. \A q \in Peer : timeouts'[q] = IF q = p THEN NoTimeout ELSE timeouts[q]
  BY DEF Kept, TimeoutTypeOK, forget
<1>4. BusyIffOwing'
  BY <1>2, <1>3 DEF Kept, BusyIffOwing, is_busy
<1> QED BY <1>1, <1>2, <1>4 DEF Kept, TimeoutTypeOK

\* expect leaves the two maps in step and adds n to what is owed.
LEMMA ExpectKeeps ==
    ASSUME Kept, NEW p \in Peer, NEW k \in Reply, NEW n \in Nat \ {0}, expect(p, n, k)
    PROVE  /\ Kept'
           /\ \A q \in Peer : \A j \in Reply :
                 expected'[q][j] = expected[q][j] + IF q = p /\ j = k THEN n ELSE 0
           /\ \A q \in Peer : timeouts'[q] = IF q = p THEN TIMEOUT ELSE timeouts[q]
<1>1. \A q \in Peer : \A j \in Reply :
         expected'[q][j] = expected[q][j] + IF q = p /\ j = k THEN n ELSE 0
  BY TimeoutAssumption DEF Kept, TimeoutTypeOK, expect
<1>2. \A q \in Peer : timeouts'[q] = IF q = p THEN TIMEOUT ELSE timeouts[q]
  BY DEF Kept, TimeoutTypeOK, expect
<1>3. timeouts' \in [Peer -> NoTimeout .. TIMEOUT]
  BY TimeoutAssumption DEF Kept, TimeoutTypeOK, expect, NoTimeout
<1>4. expected' \in [Peer -> [Reply -> 0 .. MaxOwed]]
  BY TimeoutAssumption DEF Kept, TimeoutTypeOK, expect
<1>5. BusyIffOwing'
  <2> SUFFICES ASSUME NEW q \in Peer
               PROVE  timeouts'[q] # NoTimeout <=> \E j \in Reply : expected'[q][j] > 0
    BY DEF BusyIffOwing, is_busy
  <2>1. CASE q = p
    <3>1. expected'[p][k] > 0
      BY <1>1, TimeoutAssumption DEF Kept, TimeoutTypeOK
    <3> QED BY <2>1, <3>1, <1>2, TimeoutAssumption DEF NoTimeout
  <2>2. CASE q # p
    BY <2>2, <1>1, <1>2, TimeoutAssumption DEF Kept, TimeoutTypeOK, BusyIffOwing, is_busy
  <2> QED BY <2>1, <2>2
<1> QED BY <1>1, <1>2, <1>3, <1>4, <1>5 DEF Kept, TimeoutTypeOK

\* received leaves the two maps in step, adds to nothing that is owed, and restarts
\* the timeout or leaves it as it is while something is owed.
LEMMA ReceivedKeeps ==
    ASSUME Kept, NEW p \in Peer, NEW k \in Reply, NEW n \in Nat \ {0}, received(p, n, k)
    PROVE  /\ Kept'
           /\ \A q \in Peer : \A j \in Reply : expected'[q][j] <= expected[q][j]
           /\ \A q \in Peer : timeouts'[q] \in {timeouts[q], TIMEOUT, NoTimeout}
<1> DEFINE e == expected[p][k] - AtMost(n, expected[p][k])
<1>1. e \in 0 .. MaxOwed /\ e <= expected[p][k]
  BY TimeoutAssumption DEF Kept, TimeoutTypeOK, AtMost
<1>2. expected' = [expected EXCEPT ![p] = [expected[p] EXCEPT ![k] = e]]
  BY DEF received
<1> HIDE DEF e
<1>3. \A q \in Peer : \A j \in Reply :
         expected'[q][j] = IF q = p /\ j = k THEN e ELSE expected[q][j]
  BY <1>2 DEF Kept, TimeoutTypeOK
<1>4. expected' \in [Peer -> [Reply -> 0 .. MaxOwed]]
  BY <1>1, <1>2 DEF Kept, TimeoutTypeOK
<1>5. \A q \in Peer :
         timeouts'[q] = IF q # p THEN timeouts[q]
                        ELSE IF \A j \in Reply : expected'[p][j] = 0 THEN NoTimeout
                        ELSE IF expected[p][k] > 0 THEN TIMEOUT ELSE timeouts[p]
  BY DEF received, Kept, TimeoutTypeOK
<1>6. timeouts' \in [Peer -> NoTimeout .. TIMEOUT]
  <2>1. DOMAIN timeouts' = Peer /\ timeouts' = [q \in Peer |-> timeouts'[q]]
    BY DEF received, Kept, TimeoutTypeOK
  <2>2. \A q \in Peer : timeouts'[q] \in NoTimeout .. TIMEOUT
    BY <1>5, TimeoutAssumption DEF Kept, TimeoutTypeOK, NoTimeout
  <2> QED BY <2>1, <2>2
<1>7. BusyIffOwing'
  <2> SUFFICES ASSUME NEW q \in Peer
               PROVE  timeouts'[q] # NoTimeout <=> \E j \in Reply : expected'[q][j] > 0
    BY DEF BusyIffOwing, is_busy
  <2>1. timeouts[q] # NoTimeout <=> \E j \in Reply : expected[q][j] > 0
    BY DEF Kept, BusyIffOwing, is_busy
  <2>2. CASE q # p
    BY <2>1, <2>2, <1>3, <1>5
  <2>3. CASE q = p
    <3>1. \A j \in Reply : expected'[p][j] \in Nat /\ expected[p][j] \in Nat
      BY <1>4, TimeoutAssumption DEF Kept, TimeoutTypeOK
    <3>2. (\E j \in Reply : expected'[p][j] > 0) => timeouts[p] # NoTimeout
      BY <2>1, <2>3, <1>1, <1>3, <3>1
    <3> QED BY <2>3, <3>1, <3>2, <1>5, TimeoutAssumption DEF NoTimeout
  <2> QED BY <2>2, <2>3
<1> QED
  <2>1. \A q \in Peer : \A j \in Reply : expected'[q][j] <= expected[q][j]
    BY <1>1, <1>3, TimeoutAssumption DEF Kept, TimeoutTypeOK
  <2> QED BY <1>4, <1>5, <1>6, <1>7, <2>1 DEF Kept, TimeoutTypeOK

\* check leaves the two maps in step.
LEMMA CheckKeeps ==
    ASSUME Kept, NEW whats, check(whats)
    PROVE  Kept'
BY TimeoutAssumption DEF Kept, TimeoutTypeOK, BusyIffOwing, is_busy, check, NoReply, NoTimeout

\* So does a second.
LEMMA TimeKeeps ==
    ASSUME Kept, TimePasses, UNCHANGED expected
    PROVE  Kept'
BY TimeoutAssumption DEF Kept, TimeoutTypeOK, BusyIffOwing, is_busy, TimePasses, NoTimeout

\* Timeout::is_busy looks at one map and tells the truth about the other, in
\* whatever order forget, expect, received and check are called.
THEOREM TimeoutCorrect == TimeoutSpec => [](TimeoutTypeOK /\ BusyIffOwing)
<1>1. TimeoutInit => Kept
  BY TimeoutAssumption DEF TimeoutInit, Kept, TimeoutTypeOK, BusyIffOwing, is_busy, NoReply, NoTimeout
<1>2. Kept /\ [TimeoutNext]_timeoutVars => Kept'
  <2> SUFFICES ASSUME Kept, [TimeoutNext]_timeoutVars PROVE Kept'
    OBVIOUS
  <2>1. CASE UNCHANGED timeoutVars
    BY <2>1 DEF timeoutVars, Kept, TimeoutTypeOK, BusyIffOwing, is_busy
  <2>2. ASSUME NEW p \in Peer, NEW k \in Reply, NEW n \in 1 .. MaxOwed,
               expect(p, n, k) \/ received(p, n, k)
        PROVE  Kept'
    <3>1. n \in Nat \ {0}
      BY TimeoutAssumption
    <3> QED BY <2>2, <3>1, ExpectKeeps, ReceivedKeeps
  <2>3. ASSUME NEW p \in Peer, forget(p) PROVE Kept'
    BY <2>3, ForgetKeeps
  <2>4. ASSUME NEW whats \in SUBSET Reply, check(whats) PROVE Kept'
    BY <2>4, CheckKeeps
  <2>5. CASE TimePasses /\ UNCHANGED expected
    BY <2>5, TimeKeeps
  <2> QED BY <2>1, <2>2, <2>3, <2>4, <2>5 DEF TimeoutNext
<1> QED BY <1>1, <1>2, PTL DEF TimeoutSpec, Kept

-----------------------------------------------------------------------------
(***************************************************************************)
(* The threads.  Fair is WatchInv without what the threads are about to do.*)
(***************************************************************************)
Fair ==
    /\ Kept /\ OneRequestEach
    /\ age \in [Peer -> [Reply -> 0 .. TIMEOUT + 1]]
    /\ \A p \in Peer : \A k \in Reply :
          expected[p][k] > 0 => age[p][k] + timeouts[p] >= TIMEOUT

\* Ages counts from when an answer became expected.
LEMMA AgesCount ==
    ASSUME Fair, Ages
    PROVE  /\ age' \in [Peer -> [Reply -> 0 .. TIMEOUT + 1]]
           /\ \A p \in Peer : \A k \in Reply :
                 expected[p][k] > 0 /\ expected'[p][k] > 0 => age'[p][k] = age[p][k]
BY TimeoutAssumption DEF Fair, Ages

\* What only takes away from what is owed, and does not shorten a timeout that
\* still matters, is fair.
LEMMA LessIsFair ==
    ASSUME Fair, Ages, Kept',
           \A q \in Peer : \A j \in Reply : expected'[q][j] <= expected[q][j],
           \A q \in Peer : timeouts'[q] \in {timeouts[q], TIMEOUT, NoTimeout}
    PROVE  Fair'
<1>1. OneRequestEach'
  BY TimeoutAssumption DEF Fair, Kept, TimeoutTypeOK, OneRequestEach
<1>2. ASSUME NEW p \in Peer, NEW k \in Reply, expected'[p][k] > 0
      PROVE  age'[p][k] + timeouts'[p] >= TIMEOUT
  <2>1. expected[p][k] > 0
    BY <1>2, TimeoutAssumption DEF Fair, Kept, TimeoutTypeOK
  <2>2. age'[p][k] = age[p][k] /\ age[p][k] \in 0 .. TIMEOUT + 1
    BY <2>1, <1>2, AgesCount DEF Fair
  <2>3. timeouts'[p] # NoTimeout
    BY <1>2 DEF Kept, BusyIffOwing, is_busy
  <2>4. timeouts[p] \in NoTimeout .. TIMEOUT /\ age[p][k] + timeouts[p] >= TIMEOUT
    BY <2>1 DEF Fair, Kept, TimeoutTypeOK
  <2> QED BY <2>2, <2>3, <2>4, TimeoutAssumption DEF NoTimeout
<1> QED BY <1>1, <1>2, AgesCount DEF Fair

\* forget is fair.
LEMMA ForgetIsFair ==
    ASSUME Fair, Ages, NEW p \in Peer, forget(p)
    PROVE  Fair' /\ \A q \in Peer : \A j \in Reply : expected'[q][j] <= expected[q][j]
<1>1. /\ Kept'
      /\ \A q \in Peer : \A k \in Reply :
            expected'[q][k] = IF q = p THEN 0 ELSE expected[q][k]
  BY ForgetKeeps DEF Fair
<1>2. \A q \in Peer : \A j \in Reply : expected'[q][j] <= expected[q][j]
  BY <1>1, TimeoutAssumption DEF Fair, Kept, TimeoutTypeOK
<1>3. \A q \in Peer : timeouts'[q] \in {timeouts[q], TIMEOUT, NoTimeout}
  BY DEF forget, Fair, Kept, TimeoutTypeOK
<1> QED BY <1>1, <1>2, <1>3, LessIsFair

\* received is fair.
LEMMA ReceivedIsFair ==
    ASSUME Fair, Ages, NEW p \in Peer, NEW k \in Reply, received(p, 1, k)
    PROVE  Fair' /\ \A q \in Peer : \A j \in Reply : expected'[q][j] <= expected[q][j]
BY ReceivedKeeps, LessIsFair DEF Fair

\* check is fair.
LEMMA CheckIsFair ==
    ASSUME Fair, Ages, NEW whats, check(whats)
    PROVE  Fair' /\ \A q \in Peer : \A j \in Reply : expected'[q][j] <= expected[q][j]
<1>1. Kept'
  BY CheckKeeps DEF Fair
<1>2. \A q \in Peer : \A j \in Reply : expected'[q][j] <= expected[q][j]
  BY TimeoutAssumption DEF Fair, Kept, TimeoutTypeOK, check, NoReply
<1>3. \A q \in Peer : timeouts'[q] \in {timeouts[q], TIMEOUT, NoTimeout}
  BY DEF check
<1> QED BY <1>1, <1>2, <1>3, LessIsFair

\* expect is fair if the answer is not owed already: the timeout it restarts is
\* that of all that is owed.
LEMMA ExpectIsFair ==
    ASSUME Fair, Ages, NEW p \in Peer, NEW k \in Reply, expected[p][k] = 0, expect(p, 1, k)
    PROVE  /\ Fair'
           /\ \A q \in Peer : \A j \in Reply \ {k} : expected'[q][j] = expected[q][j]
<1>1. /\ Kept'
      /\ \A q \in Peer : \A j \in Reply :
            expected'[q][j] = expected[q][j] + IF q = p /\ j = k THEN 1 ELSE 0
      /\ \A q \in Peer : timeouts'[q] = IF q = p THEN TIMEOUT ELSE timeouts[q]
  BY ExpectKeeps DEF Fair
<1>2. \A q \in Peer : \A j \in Reply : expected[q][j] \in Nat
  BY TimeoutAssumption DEF Fair, Kept, TimeoutTypeOK
<1>3. OneRequestEach'
  BY <1>1, <1>2 DEF Fair, OneRequestEach
<1>4. ASSUME NEW q \in Peer, NEW j \in Reply, expected'[q][j] > 0
      PROVE  age'[q][j] + timeouts'[q] >= TIMEOUT
  <2>1. age'[q][j] \in 0 .. TIMEOUT + 1
    BY AgesCount
  <2>2. CASE q = p
    BY <2>1, <2>2, <1>1, TimeoutAssumption
  <2>3. CASE q # p
    BY <2>3, <1>1, <1>2, <1>4, AgesCount DEF Fair
  <2> QED BY <2>2, <2>3
<1>5. \A q \in Peer : \A j \in Reply \ {k} : expected'[q][j] = expected[q][j]
  BY <1>1, <1>2
<1> QED BY <1>1, <1>3, <1>4, <1>5, AgesCount DEF Fair

\* A second is fair: it takes from the timeout what it adds to the ages.
LEMMA TickIsFair ==
    ASSUME Fair, Tick
    PROVE  Fair'
<1>1. Kept' /\ expected' = expected
  BY TimeKeeps DEF Fair, Tick
<1>2. OneRequestEach'
  BY <1>1 DEF Fair, OneRequestEach
<1>3. age' \in [Peer -> [Reply -> 0 .. TIMEOUT + 1]]
  BY TimeoutAssumption DEF Fair, Tick, AtMost
<1>4. ASSUME NEW p \in Peer, NEW k \in Reply, expected'[p][k] > 0
      PROVE  age'[p][k] + timeouts'[p] >= TIMEOUT
  <2>1. /\ expected[p][k] > 0
        /\ age[p][k] \in 0 .. TIMEOUT + 1
        /\ timeouts[p] \in NoTimeout .. TIMEOUT /\ timeouts[p] # NoTimeout
        /\ age[p][k] + timeouts[p] >= TIMEOUT
    BY <1>1, <1>4 DEF Fair, Kept, TimeoutTypeOK, BusyIffOwing, is_busy
  <2>2. age'[p][k] = IF age[p][k] + 1 < TIMEOUT + 1 THEN age[p][k] + 1 ELSE TIMEOUT + 1
    BY <2>1 DEF Tick, AtMost
  <2>3. timeouts'[p] = IF timeouts[p] >= 0 THEN timeouts[p] - 1 ELSE timeouts[p]
    BY DEF Tick, TimePasses
  <2> QED BY <2>1, <2>2, <2>3, TimeoutAssumption DEF NoTimeout
<1> QED BY <1>1, <1>2, <1>3, <1>4 DEF Fair

AskFree ==
    /\ hpc.at = "ask" /\ hpc.p \in Peer => expected[hpc.p]["Headers"] = 0
    /\ ppc.at = "ask" /\ ppc.p \in Peer => expected[ppc.p]["Pong"] = 0

\* Less owed keeps a thread free to ask that was free.
LEMMA LessIsFree ==
    ASSUME Fair, Fair', AskFree,
           \A q \in Peer : \A j \in Reply : expected'[q][j] <= expected[q][j],
           hpc' = hpc \/ hpc'.at # "ask",
           ppc' = ppc \/ ppc'.at # "ask"
    PROVE  AskFree'
<1>1. \A q \in Peer : \A j \in Reply : expected[q][j] \in Nat /\ expected'[q][j] \in Nat
  BY TimeoutAssumption DEF Fair, Kept, TimeoutTypeOK
<1>2. "Headers" \in Reply /\ "Pong" \in Reply
  BY PeerWatchAssumption
<1> QED BY <1>1, <1>2 DEF AskFree

\* A step that leaves the maps and the ages alone is fair, and free if no thread is
\* newly about to ask.
LEMMA SameIsFair ==
    ASSUME Fair, UNCHANGED <<timeouts, expected, age>>
    PROVE  Fair' /\ \A q \in Peer : \A j \in Reply : expected'[q][j] <= expected[q][j]
<1>1. \A q \in Peer : \A j \in Reply : expected[q][j] \in Nat
  BY TimeoutAssumption DEF Fair, Kept, TimeoutTypeOK
<1> QED BY <1>1 DEF Fair, Kept, TimeoutTypeOK, BusyIffOwing, is_busy, OneRequestEach

\* A call for somebody else is fair.
LEMMA ElsewhereIsFair ==
    ASSUME Fair, Ages, NEW p, p \notin Peer, NEW k, NEW n,
           forget(p) \/ expect(p, n, k) \/ received(p, n, k)
    PROVE  Fair' /\ \A q \in Peer : \A j \in Reply : expected'[q][j] <= expected[q][j]
<1>1. timeouts' = timeouts /\ expected' = expected
  BY Elsewhere DEF Fair
<1>2. Kept' /\ \A q \in Peer : \A j \in Reply : expected'[q][j] <= expected[q][j]
  BY <1>1, TimeoutAssumption DEF Fair, Kept, TimeoutTypeOK, BusyIffOwing, is_busy
<1> QED BY <1>1, <1>2, LessIsFair

\* The steps of the header download thread keep WatchInv.
LEMMA HeaderThreadKeeps ==
    ASSUME Fair, AskFree, HeaderThread
    PROVE  Fair' /\ AskFree'
<1>0. "Headers" \in Reply /\ "Pong" \in Reply
  BY PeerWatchAssumption
<1>1. CASE HeaderMessage
  <2>1. hpc' \in {Waiting, At("check", Head(hq).p), At("received", Head(hq).p)}
    BY <1>1, Zenon DEF HeaderMessage
  <2>2. hpc'.at # "ask" /\ ppc' = ppc
    BY <1>1, <2>1 DEF HeaderMessage, Waiting, At
  <2> QED BY <1>1, <2>2, SameIsFair, LessIsFree DEF HeaderMessage
<1>2. CASE HeaderReceived
  <2>1. ppc' = ppc /\ hpc'.at # "ask"
    BY <1>2 DEF HeaderReceived, Waiting, At
  <2>2. Fair' /\ \A q \in Peer : \A j \in Reply : expected'[q][j] <= expected[q][j]
    BY <1>2, <1>0, ReceivedIsFair, ElsewhereIsFair DEF HeaderReceived
  <2> QED BY <2>1, <2>2, LessIsFree
<1>3. CASE HeaderCheckBusy
  <2>1. UNCHANGED <<timeouts, expected, age, ppc>>
    BY <1>3 DEF HeaderCheckBusy
  <2>2. ASSUME hpc'.at = "ask", hpc'.p \in Peer PROVE expected[hpc'.p]["Headers"] = 0
    <3>1. ~is_busy_with(hpc.p, "Headers") /\ hpc'.p = hpc.p
      BY <1>3, <2>2 DEF HeaderCheckBusy, Waiting, At
    <3> QED BY <2>2, <3>1, <1>0, TimeoutAssumption
            DEF is_busy_with, Fair, Kept, BusyIffOwing, TimeoutTypeOK
  <2> QED BY <2>1, <2>2, SameIsFair DEF AskFree
<1>4. CASE HeaderAsk
  <2>1. ppc' = ppc /\ hpc'.at # "ask"
    BY <1>4 DEF HeaderAsk, Waiting, At
  <2>2. CASE hpc.p \in Peer
    <3>1. expected[hpc.p]["Headers"] = 0
      BY <1>4, <2>2 DEF AskFree, HeaderAsk
    <3>2. /\ Fair'
          /\ \A q \in Peer : \A j \in Reply \ {"Headers"} : expected'[q][j] = expected[q][j]
      BY <1>4, <2>2, <3>1, <1>0, ExpectIsFair DEF HeaderAsk
    <3> QED BY <2>1, <3>2, <1>0 DEF AskFree
  <2>3. CASE hpc.p \notin Peer
    <3>1. Fair' /\ \A q \in Peer : \A j \in Reply : expected'[q][j] <= expected[q][j]
      BY <1>4, <2>3, ElsewhereIsFair DEF HeaderAsk
    <3> QED BY <2>1, <3>1, LessIsFree
  <2> QED BY <2>2, <2>3
<1>5. CASE HeaderIdles
  BY <1>5, CheckIsFair, LessIsFree DEF HeaderIdles, threadVars
<1> QED BY <1>1, <1>2, <1>3, <1>4, <1>5 DEF HeaderThread

\* The steps of the ping thread keep WatchInv.
LEMMA PingThreadKeeps ==
    ASSUME Fair, AskFree, PingThread
    PROVE  Fair' /\ AskFree'
<1>0. "Headers" \in Reply /\ "Pong" \in Reply
  BY PeerWatchAssumption
<1>1. CASE PingMessage
  <2>1. PICK p : forget(p) \/ received(p, 1, "Pong") \/ UNCHANGED timeoutVars
    BY <1>1, Zenon DEF PingMessage
  <2>2. Fair' /\ \A q \in Peer : \A j \in Reply : expected'[q][j] <= expected[q][j]
    <3>1. CASE UNCHANGED timeoutVars
      <4>1. Kept' /\ \A q \in Peer : \A j \in Reply : expected'[q][j] <= expected[q][j]
        BY <3>1, TimeoutAssumption DEF timeoutVars, Fair, Kept, TimeoutTypeOK, BusyIffOwing, is_busy
      <4> QED BY <1>1, <3>1, <4>1, LessIsFair DEF PingMessage, timeoutVars
    <3>2. CASE p \in Peer /\ (forget(p) \/ received(p, 1, "Pong"))
      BY <1>1, <3>2, <1>0, ForgetIsFair, ReceivedIsFair DEF PingMessage
    <3>3. CASE p \notin Peer /\ (forget(p) \/ received(p, 1, "Pong"))
      BY <1>1, <3>3, ElsewhereIsFair DEF PingMessage
    <3> QED BY <2>1, <3>1, <3>2, <3>3
  <2> QED BY <1>1, <2>2, LessIsFree DEF PingMessage
<1>2. CASE PingIdles
  <2>1. hpc' = hpc /\ ppc'.at # "ask"
    BY <1>2 DEF PingIdles, At
  <2> QED BY <1>2, <2>1, CheckIsFair, LessIsFree DEF PingIdles
<1>3. CASE PingPeers
  <2>1. hpc' = hpc /\ ppc'.at # "ask"
    BY <1>3 DEF PingPeers, At
  <2> QED BY <1>3, <2>1, SameIsFair, LessIsFree DEF PingPeers
<1>4. CASE PingLoopEnds
  <2>1. hpc' = hpc /\ ppc'.at # "ask"
    BY <1>4 DEF PingLoopEnds, Waiting, At
  <2> QED BY <1>4, <2>1, SameIsFair, LessIsFree DEF PingLoopEnds
<1>5. CASE PingCheckBusy
  <2>1. UNCHANGED <<timeouts, expected, age, hpc>>
    BY <1>5 DEF PingCheckBusy
  <2>2. ASSUME ppc'.at = "ask", ppc'.p \in Peer PROVE expected[ppc'.p]["Pong"] = 0
    <3>1. ~is_busy(ppc'.p)
      BY <1>5, <2>2 DEF PingCheckBusy, At
    <3> QED BY <2>2, <3>1, <1>0, TimeoutAssumption DEF Fair, Kept, BusyIffOwing, TimeoutTypeOK
  <2> QED BY <2>1, <2>2, SameIsFair DEF AskFree
<1>6. CASE PingAsk
  <2>1. hpc' = hpc /\ ppc'.at # "ask"
    BY <1>6 DEF PingAsk, At
  <2>2. ppc.at = "ask" /\ expect(ppc.p, 1, "Pong") /\ Ages
    BY <1>6 DEF PingAsk
  <2>3. CASE ppc.p \in Peer
    <3>1. expected[ppc.p]["Pong"] = 0
      BY <2>2, <2>3 DEF AskFree
    <3>2. /\ Fair'
          /\ \A q \in Peer : \A j \in Reply \ {"Pong"} : expected'[q][j] = expected[q][j]
      BY <2>2, <2>3, <3>1, <1>0, ExpectIsFair
    <3> QED BY <2>1, <3>2, <1>0 DEF AskFree
  <2>4. CASE ppc.p \notin Peer
    <3>1. Fair' /\ \A q \in Peer : \A j \in Reply : expected'[q][j] <= expected[q][j]
      BY <2>2, <2>4, ElsewhereIsFair
    <3> QED BY <2>1, <3>1, LessIsFree
  <2> QED BY <2>3, <2>4
<1> QED BY <1>1, <1>2, <1>3, <1>4, <1>5, <1>6 DEF PingThread

\* So does every step.
LEMMA NextKeeps ==
    ASSUME Fair, AskFree, [Next]_watchVars
    PROVE  Fair' /\ AskFree'
<1>1. CASE HeaderThread \/ PingThread
  BY <1>1, HeaderThreadKeeps, PingThreadKeeps
<1>2. CASE Tick
  <2>1. \A q \in Peer : \A j \in Reply : expected'[q][j] <= expected[q][j]
    BY <1>2, TimeoutAssumption DEF Tick, Fair, Kept, TimeoutTypeOK
  <2>2. hpc' = hpc /\ ppc' = ppc
    BY <1>2 DEF Tick, threadVars
  <2> QED BY <1>2, <2>1, <2>2, TickIsFair, LessIsFree
<1>3. ASSUME UNCHANGED <<timeouts, expected, age, hpc, ppc>>
      PROVE  Fair' /\ AskFree'
  BY <1>3, SameIsFair, LessIsFree
<1>4. CASE Dispatcher
  BY <1>4, <1>3 DEF Dispatcher, DispatchToHeaders, DispatchToPing, threadVars
<1>5. CASE EventLoop
  BY <1>5, <1>3 DEF EventLoop, EventSend, EventRemove, threadVars
<1>6. CASE ControlLoop
  BY <1>6, <1>3 DEF ControlLoop, ControlTake, ControlSend, ControlRemove, threadVars
<1>7. CASE \E p \in Peer : add_peer(p) \/ EventRead(p) \/ EventEnd(p) \/ Expire(p) \/ ExpireRemove(p)
  BY <1>7, <1>3 DEF add_peer, EventRead, EventEnd, Expire, ExpireRemove, threadVars
<1>8. CASE UNCHANGED watchVars
  BY <1>8, <1>3 DEF watchVars, threadVars
<1> QED BY <1>1, <1>2, <1>4, <1>5, <1>6, <1>7, <1>8 DEF Next

\* Whatever the threads, the peers and the clock do in whatever order: a peer is
\* never asked the same twice at a time, one that owes an answer has a timeout,
\* and this timeout is never ahead of what it owes.
THEOREM WatchInvariance == Spec => []WatchInv
<1>1. Init => Fair /\ AskFree
  BY TimeoutAssumption
     DEF Init, TimeoutInit, Fair, Kept, TimeoutTypeOK, BusyIffOwing, is_busy, OneRequestEach,
         AskFree, NoReply, NoTimeout, Waiting, At
<1>2. Fair /\ AskFree /\ [Next]_watchVars => (Fair /\ AskFree)'
  BY NextKeeps
<1>3. Fair /\ AskFree => WatchInv
  BY DEF Fair, AskFree, Kept, WatchInv
<1> QED BY <1>1, <1>2, <1>3, PTL DEF Spec

\* get_headers and the ping loop look and ask in two critical sections, and still
\* no peer is asked for the same thing twice at a time.
THEOREM AskedOnce == Spec => []OneRequestEach
<1>1. WatchInv => OneRequestEach
  BY DEF WatchInv
<1> QED BY <1>1, WatchInvariance, PTL

\* Whoever Timeout::check bans has owed the answer for more than TIMEOUT seconds,
\* although requests of two kinds share one timeout.
THEOREM BansAreLate == Spec => []NoEarlyBan
<1>1. WatchInv => NoEarlyBan
  BY TimeoutAssumption DEF WatchInv, NoEarlyBan, TimeoutTypeOK, Overdue
<1> QED BY <1>1, WatchInvariance, PTL

=============================================================================
