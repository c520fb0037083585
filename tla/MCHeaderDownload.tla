--------------------------- MODULE MCHeaderDownload ---------------------------
(***************************************************************************)
(* Peers and headers for HeaderDownload.  All headers have the same work,  *)
(* so that a longer chain has more; a difficulty period is never reached.  *)
(***************************************************************************)
EXTENDS HeaderDownload

LOCAL H(p, m, v) == [prev |-> p, time |-> 4, bits |-> [expt |-> 3, mant |-> m], value |-> v]

AllWork == [w \in 0 .. MAX_WORK - 1 |-> w]

\* Branches a and b; x has a hash above its target, w more work than log2 takes.
TreeHeader ==
    [g  |-> H("0", 28, 5), a1 |-> H("g", 28, 5), a2 |-> H("a1", 28, 5), a3 |-> H("a2", 28, 5),
     b2 |-> H("a1", 28, 5), b3 |-> H("b2", 28, 5),
     x |-> H("a1", 28, 29), w |-> H("a1", 1, 1)]
TreeHash == DOMAIN TreeHeader

\* One peer changes to the other branch, one follows the first.
TwoTips == [p1 |-> <<"a2", "b3">>, p2 |-> <<"a1", "a3">>]
TwoPeers == DOMAIN TwoTips

\* A wrong proof of work, a missing parent and a panic after a good header.
OddMessages == {<<"a1", "x">>, <<"a1", "b3">>, <<"a1", "w">>}

(***************************************************************************)
(* A peer that leaves a branch and comes back to it, and one that leaves a *)
(* branch for another, of two headers or more beyond the fork.             *)
(***************************************************************************)
ForkHeader ==
    [g  |-> H("0", 28, 5), a1 |-> H("g", 28, 5), a2 |-> H("a1", 28, 5), a3 |-> H("a2", 28, 5),
     b1 |-> H("g", 28, 5), b2 |-> H("b1", 28, 5), b3 |-> H("b2", 28, 5)]
ForkHash == DOMAIN ForkHeader
OnePeer == {"p1"}
BackTips == [p1 |-> <<"a1", "b2", "a3">>]
AwayTips == [p1 |-> <<"a1", "b2", "b3">>]

=============================================================================
