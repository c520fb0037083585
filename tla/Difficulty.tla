----------------------------- MODULE Difficulty -----------------------------
(***************************************************************************)
(* The arithmetic of proof of work in headercache.rs: the compact encoding *)
(* of targets, the work of a header, the total work kept as an f64 log2,   *)
(* and the retarget rule.                                                  *)
(*                                                                         *)
(* The numbers are scaled: a "byte" is a digit of base BYTE (256 in the    *)
(* code), a Uint256 is a number below BYTE^WORD_BYTES (256^32), a u32      *)
(* timestamp a number below TIME (2^32).  Every shift, division, carry and *)
(* wrap is that of the code at this scale.  Arithmetic overflow wraps, as  *)
(* it does in a release build.                                             *)
(***************************************************************************)
EXTENDS Integers, FiniteSetsExt

CONSTANTS
    BYTE,                \* values of one digit of a target
    WORD_BYTES,          \* digits of a Uint256
    TIME,                \* values of a header's u32 timestamp
    MAX_TARGET,          \* the largest target (difficulty 1)
    MAX_WORK,            \* log2 and exp2 assert that work is below this
    KeptWork,            \* KeptWork[w]: what an f64 log2 keeps of the work w
    DIFFCHANGE_TIMESPAN  \* the time one difficulty period should take

\* The weight of digit k of a number: a shift by k digits multiplies with it.
Power[k \in Nat] == IF k = 0 THEN 1 ELSE BYTE * Power[k - 1]

Word == Power[WORD_BYTES]

ASSUME DifficultyAssumption ==
    /\ BYTE \in Nat \ {0, 1}
    /\ WORD_BYTES \in Nat /\ WORD_BYTES > 3
    /\ TIME \in Nat \ {0}
    /\ MAX_TARGET \in 1 .. Word - 1
    /\ MAX_WORK \in 1 .. Word \div 2
    /\ DIFFCHANGE_TIMESPAN \in Nat \ {0}

\* Conversion to f64, logarithm and back are monotone; they may lose low bits.
ASSUME KeptWorkAssumption ==
    /\ KeptWork \in [0 .. MAX_WORK - 1 -> 0 .. MAX_WORK - 1]
    /\ \A w \in 1 .. MAX_WORK - 1 : KeptWork[w - 1] <= KeptWork[w]

\* The lowest mantissa whose sign bit is set (0x800000 in the code).
SignBit == Power[3] \div 2

Bits == [expt : Nat, mant : 0 .. Power[3] - 1]

(***************************************************************************)
(* CachedHeader::target: decodes nBits.  A mantissa with its sign bit set  *)
(* decodes to 0; bits shifted out of the word are lost.                    *)
(***************************************************************************)
Target(bits) ==
    LET small == bits.expt <= 3
        mant  == IF small THEN bits.mant \div Power[3 - bits.expt]
                          ELSE bits.mant
        shift == IF small THEN 0 ELSE bits.expt - 3
    IN  IF mant >= SignBit THEN 0 ELSE (mant * Power[shift]) % Word

\* Mutant: without the increment.
WorkRoundedDown(target) == ((Word - 1 - target) \div (target + 1)) % Word

(***************************************************************************)
(* CachedHeader::work: ~target / (target + 1) + 1, in word arithmetic: the *)
(* last increment wraps for target 0.                                      *)
(***************************************************************************)
Work(target) == ((Word - 1 - target) \div (target + 1) + 1) % Word

(***************************************************************************)
(* log2, undone by exp2 when a child is added: what is left of a work      *)
(* total below MAX_WORK.  This number stands for the f64 itself: it orders *)
(* as the f64 does.                                                        *)
(***************************************************************************)
RoundWork(work) == KeptWork[work]

\* Digits of n: (n.bits() + 7) / 8.
NumBytes(n) == Min({k \in 0 .. WORD_BYTES : n < Power[k]})

\* Mutant: the sign bit is not looked at.
unsigned_precision(n) ==
    IF NumBytes(n) < 3 THEN 0 ELSE LET unit == Power[NumBytes(n) - 3] IN (n \div unit) * unit

(***************************************************************************)
(* satoshi_the_precision: keep the three leading digits, only two of them  *)
(* if the third would set the sign bit.  Below three digits the shift      *)
(* count underflows, everything is shifted out and 0 is left.              *)
(***************************************************************************)
satoshi_the_precision(n) ==
    LET size == NumBytes(n)
        unit == Power[size - 3]
        ret  == n \div unit
    IN  IF size < 3 THEN 0
        ELSE IF ret >= SignBit THEN (ret \div BYTE) * BYTE * unit
        ELSE ret * unit

(***************************************************************************)
(* The timespan of a period, clamped to a factor of four.  The u32         *)
(* subtraction wraps when the last block is older than the first.          *)
(***************************************************************************)
ClampedTimespan(first, last) ==
    LET n == (last - first) % TIME
    IN  IF n < DIFFCHANGE_TIMESPAN \div 4 THEN DIFFCHANGE_TIMESPAN \div 4
        ELSE IF n > DIFFCHANGE_TIMESPAN * 4 THEN DIFFCHANGE_TIMESPAN * 4
        ELSE n

\* Mutant: the target is not clamped.
RetargetUnclamped(target, timespan) ==
    satoshi_the_precision(((target * timespan) % Word) \div DIFFCHANGE_TIMESPAN)

\* The target after a difficulty change.
Retarget(target, timespan) ==
    LET scaled == ((target * timespan) % Word) \div DIFFCHANGE_TIMESPAN
    IN  satoshi_the_precision(IF scaled > MAX_TARGET THEN MAX_TARGET ELSE scaled)

=============================================================================
