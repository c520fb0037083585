---------------------------- MODULE MCDifficulty ----------------------------
(***************************************************************************)
(* The algorithms of Difficulty against reference definitions, for every   *)
(* number n of a word.                                                     *)
(***************************************************************************)
EXTENDS Difficulty

VARIABLE n

\* Rounding is not looked at here.
ExactWork == [w \in 0 .. MAX_WORK - 1 |-> w]

Init == n = 0

Next == n < Word - 1 /\ n' = n + 1

Spec == Init /\ [][Next]_n

\* All targets that nBits can express.
Encodable == {Target(bits) : bits \in [expt : 0 .. WORD_BYTES + 1, mant : 0 .. Power[3] - 1]}

CompactFloor == Max({t \in Encodable : t <= n})

\* satoshi_the_precision returns the largest encodable target not above n, for
\* targets of at least three digits: consensus on the exact target depends on it.
PrecisionIsFloor == NumBytes(n) >= 3 => satoshi_the_precision(n) = CompactFloor

\* The work of a target is 2^256 / (target + 1), as the comment in work() says.
WorkIsQuotient == n > 0 => Work(n) = Word \div (n + 1)

\* A retarget never passes MAX_TARGET nor four times the old target, keeps the
\* target if the period took the time it should, and never answers a slower
\* period with a lower target.
RetargetFair ==
    n \in Encodable /\ n <= MAX_TARGET =>
        LET new(time) == Retarget(n, ClampedTimespan(0, time))
        IN  /\ \A t \in 0 .. TIME - 1 : new(t) <= MAX_TARGET /\ new(t) <= 4 * n
            /\ NumBytes(n) >= 3 => new(DIFFCHANGE_TIMESPAN) = n
            /\ \A t \in 1 .. TIME - 1 : new(t - 1) <= new(t)

=============================================================================
