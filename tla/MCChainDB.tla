------------------------------ MODULE MCChainDB ------------------------------
(***************************************************************************)
(* Header trees on which TLC checks ChainDB.  Digits have base 4, a word   *)
(* six digits; a period has three blocks and should take 12 seconds.       *)
(***************************************************************************)
EXTENDS ChainDBInvariant, ChainDBMostWork

\* A header: parent, time, nBits, hash value.
H(p, t, e, m, v) ==
    [prev |-> p, time |-> t, bits |-> [expt |-> e, mant |-> m], value |-> v]

\* Of a work total, the leading bits survive: eight of them, or one.
LeadingBits(bits) ==
    [w \in 0 .. MAX_WORK - 1 |->
        LET grain == Max({1} \cup {2 ^ k : k \in {k \in 1 .. 20 : 2 ^ (k + bits - 1) <= w}})
        IN  (w \div grain) * grain]
FineWork == LeadingBits(8)
CoarseWork == LeadingBits(1)

(***************************************************************************)
(* Mainnet rules.  Branches a, b and c outgrow each other in turn (a3 and  *)
(* c3 retarget to a lower target, b3 to MAX_TARGET), x has the wrong       *)
(* target, y a hash above its target.                                      *)
(***************************************************************************)
MainHeader ==
    [g  |-> H("0", 0, 3, 28, 5),
     a1 |-> H("g", 4, 3, 28, 5), a2 |-> H("a1", 8, 3, 28, 5), a3 |-> H("a2", 11, 3, 18, 5),
     b1 |-> H("g", 10, 3, 28, 5), b2 |-> H("b1", 30, 3, 28, 5), b3 |-> H("b2", 31, 4, 15, 5),
     c2 |-> H("a1", 9, 3, 28, 5), c3 |-> H("c2", 10, 3, 21, 5),
     x  |-> H("b1", 11, 4, 15, 5), y |-> H("a1", 9, 3, 28, 29)]
MainHash == DOMAIN MainHeader

\* Two of its branches, for the runs in which puts fail.
TwoHash == {"g", "a1", "a2", "a3", "b1", "b2", "b3"}
TwoHeader == [h \in TwoHash |-> MainHeader[h]]

(***************************************************************************)
(* Testnet rules.  s1 comes late and has MAX_TARGET; its sibling r1 has    *)
(* more work; s2 scans back over s1 for the real target; q ignores the     *)
(* rule for late blocks.  Where totals keep one bit of precision, the work *)
(* of s1 or r2 is lost in them: the tip gets children, and r3 takes the    *)
(* short cut of the retarget code.                                         *)
(***************************************************************************)
TestHeader ==
    [g  |-> H("0", 0, 3, 28, 5),
     s1 |-> H("g", 20, 4, 15, 5), s2 |-> H("s1", 24, 3, 28, 5), s3 |-> H("s2", 25, 4, 14, 5),
     r1 |-> H("g", 5, 3, 28, 5), r2 |-> H("r1", 9, 3, 28, 5), r3 |-> H("r2", 30, 3, 21, 5),
     q  |-> H("g", 21, 3, 28, 5)]
TestHash == DOMAIN TestHeader

(***************************************************************************)
(* What should not happen: z has no parent and a child z1, and a           *)
(* reorganisation to b2 may cut z off the trunk; zz, and w as a child of   *)
(* genesis, claim work beyond MAX_WORK.                                    *)
(***************************************************************************)
OddHeader ==
    [g  |-> H("0", 0, 3, 28, 5), a1 |-> H("g", 4, 3, 28, 5),
     b1 |-> H("g", 5, 3, 28, 5), b2 |-> H("b1", 9, 3, 28, 5),
     z  |-> H("0", 3, 3, 14, 5), z1 |-> H("z", 5, 3, 14, 5),
     zz |-> H("0", 3, 3, 1, 1), w |-> H("g", 3, 3, 1, 1)]
OddHash == DOMAIN OddHeader

=============================================================================
