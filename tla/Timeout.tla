------------------------------- MODULE Timeout -------------------------------
(***************************************************************************)
(* timeout.rs: which answers are expected of which peer, and until when.   *)
(*                                                                         *)
(*   expected  how many answers of a kind a peer owes (an entry that is    *)
(*             missing in the HashMap is treated everywhere as a zero);    *)
(*   timeouts  the entry of the HashMap timeouts, as the time left: the    *)
(*             code compares an absolute time with now(), here Tick counts *)
(*             it down, to Overdue once it has passed.                     *)
(*                                                                         *)
(* Every operation runs under the mutex of SharedTimeout and is one step.  *)
(***************************************************************************)
EXTENDS Integers

CONSTANTS
    Peer,      \* peer ids
    Reply,     \* kinds of answers
    TIMEOUT,   \* seconds a peer has for an answer
    MaxOwed    \* bound: answers of a kind a peer owes

ASSUME TimeoutAssumption == TIMEOUT \in Nat \ {0} /\ MaxOwed \in Nat

VARIABLES timeouts, expected

timeoutVars == <<timeouts, expected>>

Overdue == -1
NoTimeout == -2
NoReply == [k \in Reply |-> 0]

TimeoutInit ==
    /\ timeouts = [p \in Peer |-> NoTimeout]
    /\ expected = [p \in Peer |-> NoReply]

AtMost(m, n) == IF m < n THEN m ELSE n

-----------------------------------------------------------------------------
forget(p) ==
    /\ timeouts' = [timeouts EXCEPT ![p] = NoTimeout]
    /\ expected' = [expected EXCEPT ![p] = NoReply]

\* Mutant: a timeout that runs already is not restarted.
expect_unrefreshed(p, n, what) ==
    /\ expected[p][what] + n <= MaxOwed
    /\ timeouts' = [timeouts EXCEPT ![p] = IF @ = NoTimeout THEN TIMEOUT ELSE @]
    /\ expected' = [expected EXCEPT ![p][what] = @ + n]

expect(p, n, what) ==
    /\ expected[p][what] + n <= MaxOwed
    /\ timeouts' = [timeouts EXCEPT ![p] = TIMEOUT]
    /\ expected' = [expected EXCEPT ![p][what] = @ + n]

\* Mutant: the timeout goes with the answer, whatever else is owed.
received_clears(p, n, what) ==
    /\ expected' = [expected EXCEPT ![p][what] = @ - AtMost(n, @)]
    /\ timeouts' = [timeouts EXCEPT ![p] = NoTimeout]

\* An answer that was expected restarts the timeout; it is cleared when nothing
\* is expected any more.
received(p, n, what) ==
    /\ expected' = [expected EXCEPT ![p][what] = @ - AtMost(n, @)]
    /\ timeouts' = [timeouts EXCEPT ![p] =
                       IF \A k \in Reply : expected'[p][k] = 0 THEN NoTimeout
                       ELSE IF expected[p][what] > 0 THEN TIMEOUT
                       ELSE @]

is_busy(p) == timeouts[p] # NoTimeout

is_busy_with(p, what) == is_busy(p) /\ expected[p][what] > 0

\* Those whom check(whats) bans, sending P2PControl::Ban for each.
TooSlow(whats) ==
    {p \in Peer : timeouts[p] = Overdue /\ \E k \in whats : expected[p][k] > 0}

\* Mutant: the banned stay in the maps.
check_keeps(whats) == UNCHANGED timeoutVars

check(whats) ==
    /\ timeouts' = [p \in Peer |-> IF p \in TooSlow(whats) THEN NoTimeout ELSE timeouts[p]]
    /\ expected' = [p \in Peer |-> IF p \in TooSlow(whats) THEN NoReply ELSE expected[p]]

\* A second passes.
TimePasses ==
    timeouts' = [p \in Peer |-> IF timeouts[p] >= 0 THEN timeouts[p] - 1 ELSE timeouts[p]]

-----------------------------------------------------------------------------
(***************************************************************************)
(* Any calls in any order.                                                 *)
(***************************************************************************)
TimeoutNext ==
    \/ \E p \in Peer : \E k \in Reply : \E n \in 1 .. MaxOwed :
          expect(p, n, k) \/ received(p, n, k)
    \/ \E p \in Peer : forget(p)
    \/ \E whats \in SUBSET Reply : check(whats)
    \/ TimePasses /\ UNCHANGED expected

TimeoutSpec == TimeoutInit /\ [][TimeoutNext]_timeoutVars

\* The maps hold times and counts.
TimeoutTypeOK ==
    /\ timeouts \in [Peer -> NoTimeout .. TIMEOUT]
    /\ expected \in [Peer -> [Reply -> 0 .. MaxOwed]]

\* A peer has a timeout if and only if it owes an answer: is_busy, which looks at
\* one map, tells the truth about the other, and no peer that owes an answer can
\* escape check.
BusyIffOwing == \A p \in Peer : is_busy(p) <=> \E k \in Reply : expected[p][k] > 0

=============================================================================
