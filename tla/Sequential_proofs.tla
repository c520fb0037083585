-------------------------- MODULE Sequential_proofs --------------------------
(***************************************************************************)
(* Theorems about the code that only one thread at a time runs.  The       *)
(* algorithms of Difficulty agree with their reference definitions, for    *)
(* every base, every length of a word and every number below it.  No index *)
(* of a Buffer is out of range, and its chunks are invisible to the        *)
(* callers, which see a queue of bytes, for any bytes, chunk size and      *)
(* calls.                                                                  *)
(***************************************************************************)
EXTENDS MCDifficulty, Buffer, SequenceTheorems, WellFoundedInduction, TLAPS

(***************************************************************************)
(* Powers of BYTE.                                                         *)
(***************************************************************************)

\* A set of natural numbers has a least element.
LEMMA LeastNumber ==
    ASSUME NEW S \in SUBSET Nat, S # {}
    PROVE  \E m \in S : \A k \in S : m <= k
<1> DEFINE R == OpToRel(<, Nat)
<1>1. IsWellFoundedOn(R, Nat)
  BY NatLessThanWellFounded, Zenon
<1>2. \A x, y \in Nat : y < x => <<y, x>> \in R
  BY DEF R, OpToRel
<1> HIDE DEF R
<1>3. PICK x \in S : \A y \in S : ~ (<<y, x>> \in R)
  BY <1>1, WFMin, Zenon
<1>4. \A k \in S : ~(k < x)
  BY <1>2, <1>3, Zenon
<1>5. \A k \in S : x <= k
  BY <1>4
<1> QED BY <1>5

\* The first l + 1 values of Power.
Powers(l, g) == g \in [0 .. l -> Nat] /\ g[0] = 1 /\ \A k \in 1 .. l : g[k] = BYTE * g[k - 1]

\* They exist for every l.
LEMMA PowersExist ==
    ASSUME NEW l \in Nat
    PROVE  \E g : Powers(l, g)
<1> DEFINE B == {m \in Nat : ~\E g : Powers(m, g)}
<1>1. BYTE \in Nat
  BY DifficultyAssumption
<1>2. B = {}
  <2> SUFFICES ASSUME B # {} PROVE FALSE
    OBVIOUS
  <2>1. PICK m \in B : \A k \in B : m <= k
    <3>1. B \in SUBSET Nat
      OBVIOUS
    <3> HIDE DEF B
    <3> QED BY <3>1, LeastNumber
  <2>2. m \in Nat /\ ~\E g : Powers(m, g)
    BY <2>1
  <2>3. m # 0
    <3> SUFFICES ASSUME m = 0 PROVE FALSE
      OBVIOUS
    <3> DEFINE g == [k \in 0 .. 0 |-> 1]
    <3>1. g \in [0 .. 0 -> Nat] /\ g[0] = 1 /\ 1 .. 0 = {}
      OBVIOUS
    <3> HIDE DEF g
    <3>2. Powers(0, g)
      BY <3>1 DEF Powers
    <3> QED BY <2>2, <3>2
  <2>4. m - 1 \in Nat /\ m - 1 \notin B
    BY <2>1, <2>2, <2>3
  <2>5. PICK f : Powers(m - 1, f)
    BY <2>4
  <2> DEFINE g == [k \in 0 .. m |-> IF k = m THEN BYTE * f[m - 1] ELSE f[k]]
  <2>6. f \in [0 .. m - 1 -> Nat] /\ f[0] = 1 /\ \A k \in 1 .. m - 1 : f[k] = BYTE * f[k - 1]
    BY <2>5 DEF Powers
  <2>7. f[m - 1] \in Nat
    BY <2>4, <2>6
  <2>8. BYTE * f[m - 1] \in Nat
    BY <1>1, <2>7
  <2>9. \A k \in 0 .. m : k # m => k \in 0 .. m - 1
    BY <2>2
  <2>10. g \in [0 .. m -> Nat]
    BY <2>6, <2>8, <2>9
  <2>11. g[0] = 1
    BY <2>2, <2>3, <2>6
  <2>12. ASSUME NEW k \in 1 .. m PROVE g[k] = BYTE * g[k - 1]
    <3>1. k - 1 \in 0 .. m /\ k - 1 # m /\ k \in 0 .. m /\ (k # m => k \in 1 .. m - 1)
      BY <2>2
    <3>2. g[k - 1] = f[k - 1]
      BY <3>1
    <3>3. CASE k = m
      BY <3>1, <3>2, <3>3
    <3>4. CASE k # m
      BY <2>6, <3>1, <3>2, <3>4
    <3> QED BY <3>3, <3>4
  <2> HIDE DEF g
  <2>13. Powers(m, g)
    BY <2>10, <2>11, <2>12 DEF Powers
  <2> QED BY <2>2, <2>13
<1> QED BY <1>2

\* They do not depend on how many are taken.
LEMMA PowersAgree ==
    ASSUME NEW m \in Nat, NEW l \in Nat, NEW f, NEW g, Powers(m, f), Powers(l, g),
           NEW i \in Nat, i <= m, i <= l
    PROVE  f[i] = g[i]
<1> DEFINE B == {j \in Nat : j <= m /\ j <= l /\ f[j] # g[j]}
<1>1. B = {}
  <2> SUFFICES ASSUME B # {} PROVE FALSE
    OBVIOUS
  <2>1. PICK j \in B : \A k \in B : j <= k
    <3>1. B \in SUBSET Nat
      OBVIOUS
    <3> HIDE DEF B
    <3> QED BY <3>1, LeastNumber
  <2>2. j \in Nat /\ j <= m /\ j <= l /\ f[j] # g[j] /\ j # 0
    BY <2>1 DEF Powers
  <2>3. j - 1 \in Nat /\ j - 1 <= m /\ j - 1 <= l /\ j - 1 \notin B /\ j \in 1 .. m /\ j \in 1 .. l
    BY <2>1, <2>2
  <2>4. f[j - 1] = g[j - 1]
    BY <2>3
  <2>5. f[j] = BYTE * f[j - 1] /\ g[j] = BYTE * g[j - 1]
    BY <2>3 DEF Powers
  <2> QED BY <2>2, <2>4, <2>5
<1> QED BY <1>1

\* So the recursive definition of Power defines it.
LEMMA PowerDefined ==
    Power = [k \in Nat |-> IF k = 0 THEN 1 ELSE BYTE * Power[k - 1]]
<1> SUFFICES \E f : f = [k \in Nat |-> IF k = 0 THEN 1 ELSE BYTE * f[k - 1]]
  BY DEF Power
<1> DEFINE G(k) == CHOOSE g : Powers(k, g)
           f == [k \in Nat |-> G(k)[k]]
<1>1. \A k \in Nat : Powers(k, G(k))
  BY PowersExist
<1> HIDE DEF G
<1>2. f[0] = 1
  <2>1. Powers(0, G(0)) /\ f[0] = G(0)[0]
    BY <1>1
  <2> QED BY <2>1 DEF Powers
<1>3. ASSUME NEW k \in Nat, k # 0 PROVE f[k] = BYTE * f[k - 1]
  <2>1. k - 1 \in Nat /\ k \in 1 .. k /\ k - 1 <= k /\ k - 1 <= k - 1
    BY <1>3
  <2>2. Powers(k, G(k)) /\ Powers(k - 1, G(k - 1))
    BY <1>1, <2>1
  <2>3. G(k)[k] = BYTE * G(k)[k - 1]
    BY <2>1, <2>2 DEF Powers
  <2>4. G(k)[k - 1] = G(k - 1)[k - 1]
    BY <2>1, <2>2, PowersAgree
  <2> QED BY <2>1, <2>3, <2>4
<1>4. f = [k \in Nat |-> IF k = 0 THEN 1 ELSE BYTE * f[k - 1]]
  <2>1. \A k \in Nat : f[k] = IF k = 0 THEN 1 ELSE BYTE * f[k - 1]
    BY <1>2, <1>3
  <2>2. f = [k \in Nat |-> f[k]]
    OBVIOUS
  <2> HIDE DEF f
  <2> QED BY <2>1, <2>2, Zenon
<1> QED BY <1>4, Zenon

\* One more digit.
LEMMA PowerStep ==
    /\ Power[0] = 1
    /\ \A k \in Nat : Power[k + 1] = BYTE * Power[k]
<1>1. \A k \in Nat : Power[k] = IF k = 0 THEN 1 ELSE BYTE * Power[k - 1]
  BY PowerDefined
<1>2. ASSUME NEW k \in Nat PROVE Power[k + 1] = BYTE * Power[k]
  <2>1. k + 1 \in Nat /\ k + 1 # 0 /\ (k + 1) - 1 = k
    OBVIOUS
  <2> QED BY <1>1, <2>1
<1> QED BY <1>1, <1>2

\* Powers are natural numbers, not 0.
LEMMA PowerNat ==
    ASSUME NEW i \in Nat
    PROVE  Power[i] \in Nat /\ Power[i] >= 1
<1> DEFINE B == {m \in Nat : ~(Power[m] \in Nat /\ Power[m] >= 1)}
<1>1. B = {}
  <2> SUFFICES ASSUME B # {} PROVE FALSE
    OBVIOUS
  <2>1. PICK m \in B : \A k \in B : m <= k
    <3>1. B \in SUBSET Nat
      OBVIOUS
    <3> HIDE DEF B
    <3> QED BY <3>1, LeastNumber
  <2>2. m \in Nat /\ ~(Power[m] \in Nat /\ Power[m] >= 1)
    BY <2>1
  <2>3. m # 0
    BY <2>2, PowerStep
  <2>4. m - 1 \in Nat /\ m - 1 \notin B /\ (m - 1) + 1 = m
    BY <2>1, <2>2, <2>3
  <2>5. Power[m - 1] \in Nat /\ Power[m - 1] >= 1
    BY <2>4
  <2>6. Power[m] = BYTE * Power[m - 1]
    BY <2>4, PowerStep
  <2> DEFINE p == Power[m - 1]
  <2>7. p \in Nat /\ p >= 1 /\ BYTE \in Nat /\ BYTE >= 1
    BY <2>5, DifficultyAssumption
  <2> HIDE DEF p
  <2>8. BYTE * p \in Nat /\ BYTE * p >= 1
    BY <2>7
  <2> QED BY <2>2, <2>6, <2>8 DEF p
<1> QED BY <1>1

\* A shift by a + b digits is a shift by a and one by b.
LEMMA PowerAdd ==
    ASSUME NEW a \in Nat, NEW b \in Nat
    PROVE  Power[a + b] = Power[a] * Power[b]
<1> DEFINE B == {m \in Nat : Power[a + m] # Power[a] * Power[m]}
<1>1. B = {}
  <2> SUFFICES ASSUME B # {} PROVE FALSE
    OBVIOUS
  <2>1. PICK m \in B : \A k \in B : m <= k
    <3>1. B \in SUBSET Nat
      OBVIOUS
    <3> HIDE DEF B
    <3> QED BY <3>1, LeastNumber
  <2>2. m \in Nat /\ Power[a + m] # Power[a] * Power[m]
    BY <2>1
  <2>3. m # 0
    <3>1. a + 0 = a /\ Power[a] * 1 = Power[a]
      BY PowerNat
    <3> QED BY <2>2, <3>1, PowerStep
  <2>4. m - 1 \in Nat /\ m - 1 \notin B /\ (m - 1) + 1 = m /\ a + (m - 1) \in Nat
    BY <2>1, <2>2, <2>3
  <2>5. Power[a + (m - 1)] = Power[a] * Power[m - 1]
    BY <2>4
  <2>6. Power[m] = BYTE * Power[m - 1] /\ Power[a + m] = BYTE * Power[a + (m - 1)]
    <3>1. (a + (m - 1)) + 1 = a + m
      BY <2>2
    <3> QED BY <2>4, <3>1, PowerStep
  <2> DEFINE p == Power[m - 1]
             q == Power[a]
  <2>7. p \in Nat /\ q \in Nat /\ BYTE \in Nat
    BY <2>4, PowerNat, DifficultyAssumption
  <2>8. Power[m] = BYTE * p /\ Power[a + m] = BYTE * (q * p)
    BY <2>5, <2>6
  <2> HIDE DEF p, q
  <2>9. BYTE * (q * p) = q * (BYTE * p)
    BY <2>7
  <2> QED BY <2>2, <2>8, <2>9 DEF q
<1> QED BY <1>1

\* Products of natural numbers are monotone.
LEMMA TimesMonotone ==
    ASSUME NEW a \in Nat, NEW b \in Nat, NEW c \in Nat
    PROVE  /\ a <= b => a * c <= b * c
           /\ a < b => a * c + c <= b * c
           /\ a * c < b * c => a < b
OBVIOUS

\* Powers are monotone.
LEMMA PowerMonotone ==
    ASSUME NEW a \in Nat, NEW b \in Nat, a <= b
    PROVE  Power[a] <= Power[b]
<1>1. b - a \in Nat /\ a + (b - a) = b
  OBVIOUS
<1>2. Power[b] = Power[a] * Power[b - a]
  BY <1>1, PowerAdd
<1> DEFINE p == Power[a]
           q == Power[b - a]
<1>3. p \in Nat /\ q \in Nat /\ q >= 1
  BY <1>1, PowerNat
<1> HIDE DEF p, q
<1>4. p <= p * q
  BY <1>3
<1> QED BY <1>2, <1>4 DEF p, q

\* Quotient and remainder.
LEMMA Division ==
    ASSUME NEW a \in Nat, NEW b \in Nat, b >= 1
    PROVE  /\ a \div b \in Nat /\ a % b \in 0 .. b - 1
           /\ a = ((a \div b) * b) + (a % b)
OBVIOUS

\* They are unique.
LEMMA DivisionUnique ==
    ASSUME NEW b \in Nat, b >= 1, NEW q \in Nat, NEW r \in 0 .. b - 1
    PROVE  ((q * b) + r) \div b = q /\ ((q * b) + r) % b = r
OBVIOUS


-----------------------------------------------------------------------------
(***************************************************************************)
(* The work of a target.                                                   *)
(***************************************************************************)
LEMMA WordNat == Word \in Nat /\ Word >= 2
<1>1. Word \in Nat
  BY PowerNat, DifficultyAssumption DEF Word
<1> QED BY <1>1, DifficultyAssumption

\* The run looks at numbers of a word only.
LEMMA NumbersOfWord == Spec => [](n \in 0 .. Word - 1)
<1>1. Init => n \in 0 .. Word - 1
  BY WordNat DEF Init
<1>2. n \in 0 .. Word - 1 /\ [Next]_n => (n \in 0 .. Word - 1)'
  BY WordNat DEF Next
<1> QED BY <1>1, <1>2, PTL DEF Spec

\* Where nothing wraps, the sum of work() is the quotient of its comment.
LEMMA QuotientOfWork ==
    ASSUME NEW w \in Nat, w >= 2, NEW x \in 1 .. w - 1
    PROVE  (((w - 1 - x) \div (x + 1)) + 1) % w = w \div (x + 1)
<1> DEFINE d == x + 1
           q == w \div d
           r == w % d
<1>1. d \in Nat /\ d >= 2 /\ d <= w /\ w - 1 - x = w - d
  OBVIOUS
<1>2. q \in Nat /\ r \in 0 .. d - 1 /\ w = (q * d) + r
  <2>1. d \in Nat /\ d >= 1
    BY <1>1
  <2> HIDE DEF d
  <2> QED BY <2>1, Division, Zenon
<1> HIDE DEF d, q, r
<1>3. q >= 1
  <2> SUFFICES ASSUME q = 0 PROVE FALSE
    BY <1>2
  <2>1. q * d = 0
    BY <1>1
  <2> QED BY <1>1, <1>2, <2>1
<1>4. w - d = ((q - 1) * d) + r /\ q - 1 \in Nat
  <2>1. (q - 1) * d = (q * d) - d
    BY <1>1, <1>2
  <2> QED BY <1>1, <1>2, <1>3, <2>1
<1>5. (w - d) \div d = q - 1
  BY <1>1, <1>2, <1>4, DivisionUnique
<1>6. q < w
  <2>1. q * 2 <= q * d
    BY <1>1, <1>2
  <2> QED BY <1>1, <1>2, <1>3, <2>1
<1>7. q % w = q
  BY <1>2, <1>6
<1>8. (q - 1) + 1 = q
  BY <1>2
<1> QED BY <1>1, <1>5, <1>7, <1>8 DEF d, q

\* CachedHeader::work computes 2^256 / (target + 1) for every target but 0, as its
\* comment says, for words of any size.
THEOREM WorkIsTheQuotient == Spec => []WorkIsQuotient
<1>1. n \in 0 .. Word - 1 => WorkIsQuotient
  <2> SUFFICES ASSUME n \in 0 .. Word - 1, n > 0 PROVE Work(n) = Word \div (n + 1)
    BY DEF WorkIsQuotient
  <2> DEFINE w == Word
             x == n
  <2>1. w \in Nat /\ w >= 2 /\ x \in 1 .. w - 1
    BY WordNat
  <2> HIDE DEF w, x
  <2>2. (((w - 1 - x) \div (x + 1)) + 1) % w = w \div (x + 1)
    BY <2>1, QuotientOfWork, Zenon
  <2> QED BY <2>2 DEF Work, w, x
<1> QED BY <1>1, NumbersOfWord, PTL


\* Target and work are numbers, whatever the header: this is what WorkAssumption
\* of HeaderCache says of the headers that exist.
THEOREM WorkIsNumber == \A bits \in Bits : Work(Target(bits)) \in Nat
<1> SUFFICES ASSUME NEW bits \in Bits PROVE Work(Target(bits)) \in Nat
  OBVIOUS
<1> DEFINE w == Word
           t == Target(bits)
<1>1. w \in Nat /\ w >= 2
  BY WordNat
<1>2. \A a \in Nat : a % w \in 0 .. w - 1
  <2> HIDE DEF w
  <2> QED BY <1>1, Division
<1>3. bits.expt \in Nat /\ bits.mant \in Nat
  <2>1. Power[3] \in Nat
    BY PowerNat
  <2> QED BY <2>1 DEF Bits
<1>4. t \in 0 .. w - 1
  <2> DEFINE mant == IF bits.expt <= 3 THEN bits.mant \div Power[3 - bits.expt] ELSE bits.mant
             p == Power[IF bits.expt <= 3 THEN 0 ELSE bits.expt - 3]
  <2>1. t = IF mant >= SignBit THEN 0 ELSE (mant * p) % w
    BY DEF Target
  <2>2. mant \in Nat
    <3>1. CASE bits.expt <= 3
      <4> DEFINE d == Power[3 - bits.expt]
                 m == bits.mant
      <4>1. d \in Nat /\ d >= 1 /\ m \in Nat
        BY <1>3, <3>1, PowerNat
      <4> HIDE DEF d, m
      <4>2. m \div d \in Nat
        BY <4>1, Division
      <4> QED BY <3>1, <4>2 DEF d, m
    <3>2. CASE ~(bits.expt <= 3)
      BY <1>3, <3>2
    <3> QED BY <3>1, <3>2
  <2>3. p \in Nat
    <3>1. (IF bits.expt <= 3 THEN 0 ELSE bits.expt - 3) \in Nat
      BY <1>3
    <3> QED BY <3>1, PowerNat
  <2> HIDE DEF mant, p, w, t
  <2>4. mant * p \in Nat
    BY <2>2, <2>3
  <2> QED BY <1>1, <1>2, <2>1, <2>4
<1> HIDE DEF t, w
<1>5. w - 1 - t \in Nat /\ t + 1 \in Nat /\ t + 1 >= 1
  BY <1>1, <1>4
<1> DEFINE a == w - 1 - t
           d == t + 1
<1>6. a \div d \in Nat
  <2>1. a \in Nat /\ d \in Nat /\ d >= 1
    BY <1>5
  <2> HIDE DEF a, d
  <2> QED BY <2>1, Division
<1>7. ((a \div d) + 1) % w \in 0 .. w - 1
  <2>1. (a \div d) + 1 \in Nat
    BY <1>6
  <2> HIDE DEF a, d
  <2> QED BY <1>2, <2>1
<1>8. Work(t) = ((a \div d) + 1) % w
  BY DEF Work, w
<1> QED BY <1>1, <1>7, <1>8 DEF t

-----------------------------------------------------------------------------
(***************************************************************************)
(* The compact encoding of targets.                                        *)
(***************************************************************************)

\* The sign bit, in a base that is even (256 is): it is the top half of the
\* highest of three digits.
LEMMA SignBitFacts ==
    ASSUME BYTE % 2 = 0
    PROVE  /\ SignBit \in Nat /\ Power[2] \in Nat /\ Power[3] \in Nat
           /\ Power[1] = BYTE /\ Power[3] = Power[2] * BYTE
           /\ 1 <= Power[2] /\ Power[2] <= SignBit /\ SignBit <= Power[3]
           /\ \E m \in Nat : SignBit = m * BYTE
<1> DEFINE b == BYTE
           m == b \div 2
<1>1. b \in Nat /\ b >= 2 /\ m \in Nat /\ m >= 1 /\ b = m * 2
  BY DifficultyAssumption
<1>2. Power[1] = b /\ Power[2] = b * b /\ Power[3] = b * (b * b)
  <2>1. 0 + 1 = 1 /\ 1 + 1 = 2 /\ 2 + 1 = 3 /\ b * 1 = b
    BY <1>1
  <2>2. Power[1] = b
    BY <2>1, PowerStep
  <2>3. Power[2] = b * b
    BY <2>1, <2>2, PowerStep
  <2> QED BY <2>1, <2>2, <2>3, PowerStep
<1> HIDE DEF b, m
<1>3. b * b \in Nat /\ b * b >= 1
  BY <1>1
<1>4. b * (b * b) = ((m * b) * b) * 2
  BY <1>1
<1> DEFINE h == (m * b) * b
<1>5. h \in Nat /\ b * b <= h
  <2>1. m * b \in Nat /\ b <= m * b
    BY <1>1
  <2> DEFINE x == m * b
  <2>2. x \in Nat /\ b <= x
    BY <2>1
  <2> HIDE DEF x
  <2>3. x * b \in Nat /\ b * b <= x * b
    BY <1>1, <2>2
  <2> QED BY <2>3 DEF x
<1>6. SignBit = h
  <2> HIDE DEF h
  <2>1. (h * 2) \div 2 = h
    BY <1>5
  <2>2. Power[3] = h * 2
    BY <1>2, <1>4 DEF h
  <2> QED BY <2>1, <2>2 DEF SignBit
<1>7. h <= b * (b * b)
  <2> HIDE DEF h
  <2>1. b * (b * b) = h * 2
    BY <1>4 DEF h
  <2> QED BY <1>5, <2>1
<1>8. b * (b * b) \in Nat /\ b * (b * b) = (b * b) * b
  BY <1>1
<1>9. m * b \in Nat
  BY <1>1
<1> QED BY <1>2, <1>3, <1>5, <1>6, <1>7, <1>8, <1>9 DEF b

\* The digits of a number of a word.
LEMMA Digits ==
    ASSUME NEW x \in 0 .. Word - 1
    PROVE  /\ NumBytes(x) \in 0 .. WORD_BYTES
           /\ x < Power[NumBytes(x)]
           /\ \A k \in 0 .. WORD_BYTES : x < Power[k] => NumBytes(x) <= k
<1> DEFINE S == {k \in 0 .. WORD_BYTES : x < Power[k]}
<1>1. WORD_BYTES \in Nat /\ Word \in Nat
  BY WordNat, DifficultyAssumption
<1>2. WORD_BYTES \in S
  BY <1>1 DEF Word
<1>3. PICK m \in S : \A k \in S : m <= k
  <2>1. S \in SUBSET Nat /\ S # {}
    BY <1>1, <1>2
  <2> HIDE DEF S
  <2> QED BY <2>1, LeastNumber
<1>4. Min(S) \in S /\ \A k \in S : Min(S) <= k
  <2> HIDE DEF S
  <2> QED BY <1>3 DEF Min
<1>5. NumBytes(x) = Min(S)
  BY DEF NumBytes
<1> QED BY <1>4, <1>5

\* A number has at least the value of its highest digit.
LEMMA HighestDigit ==
    ASSUME NEW x \in 0 .. Word - 1, NEW k \in 0 .. WORD_BYTES, k < NumBytes(x)
    PROVE  Power[k] <= x
<1>1. x \in Nat /\ Power[k] \in Nat /\ WORD_BYTES \in Nat
  BY PowerNat, WordNat, DifficultyAssumption
<1>2. ~(x < Power[k])
  BY <1>1, Digits
<1> QED BY <1>1, <1>2

\* What nBits can express are three digits, without sign, followed by zeros.
LEMMA Decoded ==
    ASSUME BYTE % 2 = 0, NEW t \in Encodable
    PROVE  t \in 0 .. Word - 1 /\ \E y, k \in Nat : y < SignBit /\ t = y * Power[k]
<1>0. PICK bits \in [expt : 0 .. WORD_BYTES + 1, mant : 0 .. Power[3] - 1] : t = Target(bits)
  BY DEF Encodable
<1> DEFINE e == bits.expt
           m == bits.mant
<1>1. e \in 0 .. WORD_BYTES + 1 /\ m \in 0 .. Power[3] - 1
  OBVIOUS
<1>2. /\ SignBit \in Nat /\ SignBit >= 1 /\ Power[3] \in Nat /\ Power[0] = 1
      /\ Word \in Nat /\ Word >= 2 /\ WORD_BYTES \in Nat /\ WORD_BYTES > 3
  BY SignBitFacts, WordNat, PowerStep, DifficultyAssumption
<1>3. CASE t = 0
  <2>1. 0 = 0 * Power[0] /\ 0 < SignBit /\ 0 \in 0 .. Word - 1
    BY <1>2
  <2> QED BY <1>3, <2>1
<1>4. ASSUME t # 0, e <= 3
      PROVE  t \in 0 .. Word - 1 /\ \E y, k \in Nat : y < SignBit /\ t = y * Power[k]
  <2> DEFINE y == m \div Power[3 - e]
  <2>1. t = (y * Power[0]) % Word /\ y < SignBit /\ y \in Nat
    <3>1. t = IF y >= SignBit THEN 0 ELSE (y * Power[0]) % Word
      BY <1>0, <1>4 DEF Target
    <3>2. 3 - e \in Nat
      BY <1>1, <1>2, <1>4
    <3>3. Power[3 - e] \in Nat /\ Power[3 - e] >= 1
      BY <3>2, PowerNat
    <3>4. m \in Nat
      BY <1>1, <1>2
    <3> DEFINE d == Power[3 - e]
    <3>5. m \div d \in Nat
      <4> HIDE DEF d
      <4>1. d \in Nat /\ d >= 1
        BY <3>3 DEF d
      <4> QED BY <3>4, <4>1, Division
    <3> HIDE DEF y
    <3> QED BY <1>2, <1>4, <3>1, <3>5 DEF y
  <2> HIDE DEF y
  <2>2. SignBit <= Power[3] /\ Power[3] <= Word
    BY <1>2, SignBitFacts, PowerMonotone DEF Word
  <2>3. y * Power[0] = y /\ y \in 0 .. Word - 1
    BY <1>2, <2>1, <2>2
  <2>4. y % Word = y
    BY <1>2, <2>3
  <2> QED BY <2>1, <2>3, <2>4
<1>5. ASSUME t # 0, ~(e <= 3)
      PROVE  t \in 0 .. Word - 1 /\ \E y, k \in Nat : y < SignBit /\ t = y * Power[k]
  <2> DEFINE k == e - 3
             j == WORD_BYTES - k
  <2>1. k \in Nat /\ j \in Nat /\ k + j = WORD_BYTES /\ m \in Nat
    BY <1>1, <1>2, <1>5
  <2>2. t = (m * Power[k]) % Word /\ m < SignBit
    <3>1. t = IF m >= SignBit THEN 0 ELSE (m * Power[k]) % Word
      BY <1>0, <1>5 DEF Target
    <3> QED BY <1>2, <1>5, <2>1, <3>1
  <2> HIDE DEF k, j
  <2> DEFINE a == Power[j]
             p == Power[k]
             q == m \div a
             r == m % a
  <2>3. a \in Nat /\ a >= 1 /\ p \in Nat /\ p >= 1 /\ Word = p * a
    BY <2>1, PowerNat, PowerAdd, Zenon DEF Word
  <2> HIDE DEF a, p
  <2>4. q \in Nat /\ r \in 0 .. a - 1 /\ m = (q * a) + r
    BY <2>1, <2>3, Division, Zenon
  <2> HIDE DEF q, r
  <2>5. m * p = (q * (p * a)) + (r * p)
    BY <2>3, <2>4
  <2>6. r * p \in 0 .. (p * a) - 1
    <3>1. r \in Nat /\ r < a
      BY <2>3, <2>4
    <3>2. (r * p) + p <= a * p /\ r * p \in Nat /\ a * p = p * a
      BY <2>3, <3>1, TimesMonotone
    <3> QED BY <2>3, <3>2
  <2>7. (m * p) % Word = r * p
    <3> DEFINE w == p * a
               s == r * p
    <3>1. w \in Nat /\ w >= 1 /\ s \in 0 .. w - 1 /\ w = Word
      BY <1>2, <2>3, <2>6
    <3> HIDE DEF w, s
    <3>2. ((q * w) + s) % w = s
      BY <2>4, <3>1, DivisionUnique, Zenon
    <3> QED BY <2>5, <3>1, <3>2 DEF w, s
  <2>8. r \in Nat /\ r <= m
    <3>1. q * a \in Nat
      BY <2>3, <2>4
    <3> QED BY <2>4, <3>1
  <2>9. r < SignBit
    BY <1>2, <2>1, <2>2, <2>8
  <2> QED BY <2>1, <2>2, <2>3, <2>6, <2>7, <2>8, <2>9 DEF p
<1> QED BY <1>3, <1>4, <1>5


\* And three digits without sign, followed by zeros, are expressed by nBits.
LEMMA Encoded ==
    ASSUME BYTE % 2 = 0, NEW m \in Nat, m < SignBit, NEW j \in Nat, j + 2 <= WORD_BYTES,
           m * Power[j] < Word
    PROVE  m * Power[j] \in Encodable
<1> DEFINE bits == [expt |-> j + 3, mant |-> m]
<1>1. /\ SignBit \in Nat /\ SignBit <= Power[3] /\ Power[3] \in Nat /\ Power[0] = 1
      /\ Word \in Nat /\ WORD_BYTES \in Nat /\ Power[j] \in Nat
  BY SignBitFacts, WordNat, PowerStep, PowerNat, DifficultyAssumption
<1>2. j + 3 \in 0 .. WORD_BYTES + 1 /\ m \in 0 .. Power[3] - 1 /\ ~(m >= SignBit)
  BY <1>1
<1>3. m * Power[j] \in Nat
  <2> DEFINE p == Power[j]
  <2>1. p \in Nat
    BY <1>1
  <2> HIDE DEF p
  <2>2. m * p \in Nat
    BY <2>1
  <2> QED BY <2>2 DEF p
<1>4. (m * Power[j]) % Word = m * Power[j]
  <2> DEFINE p == m * Power[j]
  <2>1. p \in Nat /\ p < Word
    BY <1>3
  <2> HIDE DEF p
  <2>2. p % Word = p
    BY <1>1, <2>1
  <2> QED BY <2>2 DEF p
<1>5. Target(bits) = m * Power[j]
  <2>1. CASE j = 0
    <3>1. j + 3 <= 3 /\ 3 - (j + 3) = 0 /\ m \div 1 = m
      BY <2>1
    <3> QED BY <1>1, <1>2, <1>4, <2>1, <3>1 DEF Target
  <2>2. CASE j # 0
    <3>1. ~(j + 3 <= 3) /\ (j + 3) - 3 = j
      BY <2>2
    <3> QED BY <1>2, <1>4, <3>1 DEF Target
  <2> QED BY <2>1, <2>2
<1>6. bits \in [expt : 0 .. WORD_BYTES + 1, mant : 0 .. Power[3] - 1]
  BY <1>2
<1> HIDE DEF bits
<1> QED BY <1>5, <1>6 DEF Encodable

\* What satoshi_the_precision keeps of a number of at least three digits: m times
\* a power of BYTE, the rest being below that power, and the three digits of
\* everything that is shifted less being too low to come near.
LEMMA Kept ==
    ASSUME BYTE % 2 = 0, NEW x \in 0 .. Word - 1, NumBytes(x) >= 3
    PROVE  \E m, j \in Nat :
              /\ satoshi_the_precision(x) = m * Power[j]
              /\ m < SignBit /\ j + 2 <= WORD_BYTES
              /\ m * Power[j] <= x /\ x < (m * Power[j]) + Power[j]
              /\ \A y, k \in Nat : y < SignBit /\ k < j => y * Power[k] <= m * Power[j]
<1> DEFINE size == NumBytes(x)
           b == BYTE
           S == SignBit
           u == Power[size - 3]
           ret == x \div u
<1>1. size \in Nat /\ size >= 3 /\ size <= WORD_BYTES /\ WORD_BYTES \in Nat /\ size - 3 \in Nat
  BY Digits, DifficultyAssumption
<1>2. x \in Nat /\ b \in Nat /\ b >= 2
  BY WordNat, DifficultyAssumption
<1>3. u \in Nat /\ u >= 1
  BY <1>1, PowerNat
<1>4. /\ Power[size - 2] = u * b /\ Power[size - 1] = u * Power[2] /\ Power[size] = u * Power[3]
  <2> DEFINE i == size - 3
  <2>1. i + 1 = size - 2 /\ i + 2 = size - 1 /\ i + 3 = size /\ i \in Nat
    BY <1>1
  <2>2. Power[1] = b
    BY SignBitFacts
  <2> HIDE DEF i
  <2>3. \A k \in Nat : Power[i + k] = Power[i] * Power[k]
    BY <2>1, PowerAdd
  <2>4. Power[i + 1] = Power[i] * b /\ Power[i + 2] = Power[i] * Power[2]
        /\ Power[i + 3] = Power[i] * Power[3]
    BY <2>2, <2>3
  <2> QED BY <2>1, <2>4 DEF i
<1>5. x < u * Power[3] /\ u * Power[2] <= x
  <2>1. size - 1 \in 0 .. WORD_BYTES /\ size - 1 < size
    BY <1>1
  <2>2. x < Power[size] /\ Power[size - 1] <= x
    BY <2>1, Digits, HighestDigit
  <2> QED BY <1>4, <2>2
<1>6. /\ S \in Nat /\ Power[2] \in Nat /\ Power[3] \in Nat /\ Power[3] = Power[2] * b
      /\ 1 <= Power[2] /\ Power[2] <= S /\ S <= Power[3]
  BY SignBitFacts
<1>7. PICK h \in Nat : S = h * b
  BY SignBitFacts
<1>8. satoshi_the_precision(x) = IF ret >= S THEN ((ret \div b) * b) * u ELSE ret * u
  BY <1>1 DEF satoshi_the_precision
<1> HIDE DEF size, b, S, u
<1>9. /\ ret \in Nat /\ x % u \in 0 .. u - 1 /\ x = (ret * u) + (x % u)
  BY <1>2, <1>3, Division, Zenon
<1> HIDE DEF ret
<1>10. ret * u \in Nat /\ ret * u <= x /\ x < (ret * u) + u
  BY <1>3, <1>9
<1>11. Power[2] <= ret
  <2> SUFFICES ASSUME ret < Power[2] PROVE FALSE
    BY <1>6, <1>9
  <2>1. (ret * u) + u <= Power[2] * u /\ Power[2] * u = u * Power[2]
    BY <1>3, <1>6, <1>9, TimesMonotone
  <2> QED BY <1>2, <1>3, <1>5, <1>6, <1>10, <2>1
<1>12. CASE ~(ret >= S)
  <2> DEFINE j == size - 3
  <2>1. /\ j \in Nat /\ j + 2 <= WORD_BYTES /\ u = Power[j] /\ ret < S
        /\ satoshi_the_precision(x) = ret * u
    BY <1>1, <1>6, <1>8, <1>9, <1>12 DEF u
  <2>2. ASSUME NEW y \in Nat, NEW k \in Nat, y < S, k < j PROVE y * Power[k] <= ret * u
    <3> DEFINE v == Power[size - 4]
               p == Power[k]
    <3>1. /\ size - 4 \in Nat /\ k <= size - 4 /\ (size - 4) + 3 = size - 1
      BY <1>1, <2>2
    <3>2. p \in Nat /\ v \in Nat /\ p <= v
      BY <3>1, PowerNat, PowerMonotone
    <3>3. v * Power[3] = u * Power[2]
      <4> DEFINE i == size - 4
      <4>1. i \in Nat /\ i + 3 = size - 1
        BY <3>1
      <4> HIDE DEF i
      <4>2. Power[i + 3] = Power[i] * Power[3]
        BY <4>1, PowerAdd
      <4> QED BY <1>4, <4>1, <4>2 DEF i
    <3>4. y <= Power[3] /\ Power[2] \in Nat /\ Power[3] \in Nat
      BY <1>6, <2>2
    <3> DEFINE c == Power[3]
               d == Power[2]
    <3>5. /\ v * c = u * d /\ y <= c /\ c \in Nat /\ d \in Nat /\ d <= ret
      BY <1>11, <3>3, <3>4
    <3> HIDE DEF v, p, c, d, j
    <3>6. y * p <= c * p /\ p * c <= v * c
      BY <3>2, <3>5, TimesMonotone
    <3>7. d * u <= ret * u
      BY <1>3, <1>9, <3>5, TimesMonotone
    <3>8. c * p = p * c /\ d * u = u * d /\ y * p \in Nat /\ p * c \in Nat /\ u * d \in Nat
      BY <1>3, <3>2, <3>5
    <3>9. y * p <= ret * u
      BY <1>10, <3>5, <3>6, <3>7, <3>8
    <3> QED BY <3>9 DEF p
  <2> HIDE DEF j
  <2> QED BY <1>9, <1>10, <2>1, <2>2 DEF S
<1>13. CASE ret >= S
  <2> DEFINE j == size - 2
             m == ret \div b
             U == u * b
  <2>1. j \in Nat /\ j + 2 <= WORD_BYTES /\ U = Power[j]
    BY <1>1, <1>4
  <2>2. m \in Nat /\ ret % b \in 0 .. b - 1 /\ ret = (m * b) + (ret % b)
    <3>1. b >= 1
      BY <1>2
    <3> QED BY <1>2, <1>9, <3>1, Division, Zenon
  <2>3. satoshi_the_precision(x) = (m * b) * u
    BY <1>8, <1>13
  <2> HIDE DEF m
  <2>4. (m * b) * u = m * U /\ U \in Nat /\ m * b \in Nat /\ m * U \in Nat
    BY <1>2, <1>3, <2>2
  <2>5. m * b <= ret /\ ret < (m * b) + b
    BY <1>2, <1>9, <2>2, <2>4
  <2>6. m * U <= x /\ x < (m * U) + U
    <3>1. (m * b) * u <= ret * u
      BY <1>3, <1>9, <2>4, <2>5, TimesMonotone
    <3>2. (m * b) + b \in Nat
      BY <1>2, <2>4
    <3>3. (ret * u) + u <= ((m * b) + b) * u
      BY <1>3, <1>9, <2>5, <3>2, TimesMonotone
    <3>4. ((m * b) + b) * u = ((m * b) * u) + (b * u) /\ b * u = U
      BY <1>2, <1>3, <2>2
    <3> HIDE DEF U
    <3> QED BY <1>2, <1>3, <1>10, <2>4, <3>1, <3>3, <3>4
  <2>7. m < S
    <3>1. ret < Power[3]
      <4> SUFFICES ASSUME Power[3] <= ret PROVE FALSE
        BY <1>6, <1>9
      <4>1. Power[3] * u <= ret * u /\ Power[3] * u = u * Power[3]
        BY <1>3, <1>6, <1>9, TimesMonotone
      <4>2. u * Power[3] \in Nat
        BY <1>3, <1>6
      <4> QED BY <1>2, <1>5, <1>10, <4>1, <4>2
    <3>2. m * b < Power[2] * b
      BY <1>6, <1>9, <2>4, <2>5, <3>1
    <3>3. m < Power[2]
      BY <1>2, <1>6, <2>2, <3>2, TimesMonotone
    <3> QED BY <1>6, <2>2, <3>3
  <2>8. h <= m
    <3>1. h * b < (m + 1) * b
      <4>1. (m + 1) * b = (m * b) + b
        BY <1>2, <2>2
      <4>2. h * b <= ret /\ h * b \in Nat
        BY <1>6, <1>7, <1>9, <1>13
      <4> QED BY <1>2, <1>9, <2>4, <2>5, <4>1, <4>2
    <3>2. m + 1 \in Nat
      BY <2>2
    <3>3. h < m + 1
      BY <1>2, <3>1, <3>2, TimesMonotone
    <3> QED BY <2>2, <3>3
  <2>9. ASSUME NEW y \in Nat, NEW k \in Nat, y < S, k < j PROVE y * Power[k] <= m * U
    <3> DEFINE p == Power[k]
    <3>1. k <= size - 3
      BY <1>1, <2>9
    <3>2. p \in Nat /\ p <= u
      BY <1>1, <3>1, PowerNat, PowerMonotone DEF u
    <3> HIDE DEF p
    <3>3. y * p <= S * p /\ p * S <= u * S /\ S * p = p * S
      BY <1>3, <1>6, <2>9, <3>2, TimesMonotone
    <3>4. h * b <= m * b /\ h * b \in Nat
      BY <1>2, <2>2, <2>8, TimesMonotone
    <3>5. S * u <= (m * b) * u /\ S * u = u * S
      BY <1>3, <1>6, <1>7, <2>4, <3>4, TimesMonotone
    <3>6. y * p \in Nat /\ p * S \in Nat /\ u * S \in Nat
      BY <1>3, <1>6, <3>2
    <3> HIDE DEF U
    <3>7. y * p <= m * U
      BY <2>4, <3>3, <3>5, <3>6
    <3> QED BY <3>7 DEF p
  <2> HIDE DEF j, U
  <2> QED BY <2>1, <2>2, <2>3, <2>4, <2>6, <2>7, <2>9 DEF S
<1> QED BY <1>12, <1>13


\* So it returns the largest number not above x that nBits can express.
LEMMA FloorOfPrecision ==
    ASSUME BYTE % 2 = 0, NEW x \in 0 .. Word - 1, NumBytes(x) >= 3
    PROVE  /\ satoshi_the_precision(x) \in Encodable
           /\ satoshi_the_precision(x) \in Nat
           /\ satoshi_the_precision(x) <= x
           /\ \A t \in Encodable : t <= x => t <= satoshi_the_precision(x)
<1>1. PICK m \in Nat, j \in Nat :
         /\ satoshi_the_precision(x) = m * Power[j]
         /\ m < SignBit /\ j + 2 <= WORD_BYTES
         /\ m * Power[j] <= x /\ x < (m * Power[j]) + Power[j]
         /\ \A y, k \in Nat : y < SignBit /\ k < j => y * Power[k] <= m * Power[j]
  BY Kept
<1> DEFINE p == Power[j]
<1>2. p \in Nat /\ x \in Nat /\ Word \in Nat
  BY PowerNat, WordNat
<1>3. m * p \in Nat /\ m * p < Word
  <2> HIDE DEF p
  <2>1. m * p \in Nat /\ m * p <= x
    BY <1>1, <1>2 DEF p
  <2> QED BY <1>2, <2>1
<1>4. m * p \in Encodable
  BY <1>1, <1>3, Encoded
<1>5. ASSUME NEW t \in Encodable, t <= x PROVE t <= m * p
  <2>1. PICK y \in Nat, k \in Nat : y < SignBit /\ t = y * Power[k]
    BY Decoded
  <2>2. CASE k < j
    BY <1>1, <2>1, <2>2
  <2>3. CASE ~(k < j)
    <3> DEFINE i == k - j
               c == Power[i]
               z == y * c
    <3>1. i \in Nat /\ j + i = k
      BY <2>3
    <3> HIDE DEF i
    <3>2. c \in Nat /\ Power[k] = p * c
      <4>1. c \in Nat
        BY <3>1, PowerNat
      <4>2. Power[j + i] = Power[j] * Power[i]
        BY <3>1, PowerAdd
      <4> QED BY <3>1, <4>1, <4>2
    <3> HIDE DEF c, p
    <3>3. z \in Nat /\ t = z * p
      <4>1. y * (p * c) = (y * c) * p /\ y * c \in Nat
        BY <1>2, <3>2
      <4> QED BY <2>1, <3>2, <4>1
    <3> HIDE DEF z
    <3>4. x < (m * p) + p /\ (m * p) + p = (m + 1) * p /\ m + 1 \in Nat
      BY <1>1, <1>2 DEF p
    <3>5. z * p < (m + 1) * p
      <4>1. z * p \in Nat /\ (m + 1) * p \in Nat
        BY <1>2, <3>3, <3>4
      <4> QED BY <1>2, <1>5, <3>3, <3>4, <4>1
    <3>6. z < m + 1
      BY <1>2, <3>3, <3>4, <3>5, TimesMonotone
    <3>7. z * p <= m * p
      <4>1. z <= m
        BY <3>3, <3>6
      <4> QED BY <1>2, <3>3, <4>1, TimesMonotone
    <3> QED BY <3>3, <3>7
  <2> QED BY <2>2, <2>3
<1> QED BY <1>1, <1>3, <1>4, <1>5

\* satoshi_the_precision returns the largest target not above its argument that
\* nBits can express, for words of any size and digits of any even base: with
\* 32 bytes, for every target of at least three bytes.
THEOREM PrecisionIsTheFloor ==
    ASSUME BYTE % 2 = 0
    PROVE  Spec => []PrecisionIsFloor
<1>1. n \in 0 .. Word - 1 => PrecisionIsFloor
  <2> SUFFICES ASSUME n \in 0 .. Word - 1, NumBytes(n) >= 3
               PROVE  satoshi_the_precision(n) = CompactFloor
    BY DEF PrecisionIsFloor
  <2> DEFINE r == satoshi_the_precision(n)
             S == {t \in Encodable : t <= n}
  <2>1. r \in S /\ r \in Nat /\ \A t \in S : t <= r
    <3> DEFINE x == n
    <3>1. x \in 0 .. Word - 1 /\ NumBytes(x) >= 3
      OBVIOUS
    <3> HIDE DEF x
    <3>2. /\ satoshi_the_precision(x) \in Encodable
          /\ satoshi_the_precision(x) \in Nat
          /\ satoshi_the_precision(x) <= x
          /\ \A t \in Encodable : t <= x => t <= satoshi_the_precision(x)
      BY <3>1, FloorOfPrecision
    <3> QED BY <3>2 DEF x
  <2>2. \A t \in S : t \in Nat
    BY Decoded, WordNat
  <2> HIDE DEF r, S
  <2>3. Max(S) = r
    <3>1. Max(S) \in S /\ \A t \in S : Max(S) >= t
      BY <2>1, <2>2, Zenon DEF Max
    <3> DEFINE M == Max(S)
    <3>2. M \in Nat /\ M <= r /\ r <= M
      BY <2>1, <2>2, <3>1, Zenon
    <3> HIDE DEF M
    <3>3. M = r
      BY <2>1, <3>2
    <3> QED BY <3>3 DEF M
  <2> QED BY <2>3 DEF r, S, CompactFloor
<1> QED BY <1>1, NumbersOfWord, PTL

-----------------------------------------------------------------------------
(***************************************************************************)
(* The retarget rule.                                                      *)
(***************************************************************************)

\* Whatever its size, a number is not increased ...
LEMMA PrecisionLowers ==
    ASSUME BYTE % 2 = 0, NEW x \in 0 .. Word - 1
    PROVE  satoshi_the_precision(x) \in Nat /\ satoshi_the_precision(x) <= x
<1>1. x \in Nat /\ NumBytes(x) \in Nat
  BY WordNat, Digits, DifficultyAssumption
<1>2. CASE NumBytes(x) < 3
  BY <1>1, <1>2 DEF satoshi_the_precision
<1>3. CASE NumBytes(x) >= 3
  BY <1>3, FloorOfPrecision
<1> QED BY <1>1, <1>2, <1>3

\* ... and the order of numbers is kept.
LEMMA PrecisionMonotone ==
    ASSUME BYTE % 2 = 0, NEW x \in 0 .. Word - 1, NEW y \in 0 .. Word - 1, x <= y
    PROVE  satoshi_the_precision(x) <= satoshi_the_precision(y)
<1>1. x \in Nat /\ y \in Nat /\ WORD_BYTES \in Nat
  BY WordNat, DifficultyAssumption
<1>2. NumBytes(x) <= NumBytes(y) /\ NumBytes(x) \in Nat /\ NumBytes(y) \in Nat
  <2>1. NumBytes(y) \in 0 .. WORD_BYTES /\ y < Power[NumBytes(y)]
    BY Digits
  <2>2. Power[NumBytes(y)] \in Nat
    BY <1>1, <2>1, PowerNat
  <2>3. x < Power[NumBytes(y)]
    BY <1>1, <2>1, <2>2
  <2> QED BY <1>1, <2>1, <2>3, Digits
<1>3. CASE NumBytes(x) < 3
  <2>1. satoshi_the_precision(x) = 0
    BY <1>3 DEF satoshi_the_precision
  <2> QED BY <2>1, PrecisionLowers
<1>4. CASE NumBytes(x) >= 3
  <2>1. NumBytes(y) >= 3
    BY <1>2, <1>4
  <2> DEFINE r == satoshi_the_precision(x)
  <2>2. r \in Encodable /\ r \in Nat /\ r <= x
    BY <1>4, FloorOfPrecision
  <2> HIDE DEF r
  <2>3. r <= y
    BY <1>1, <2>2
  <2>4. r <= satoshi_the_precision(y)
    BY <2>1, <2>2, <2>3, FloorOfPrecision
  <2> QED BY <2>4 DEF r
<1> QED BY <1>2, <1>3, <1>4


\* Quotients are monotone.
LEMMA QuotientMonotone ==
    ASSUME NEW a \in Nat, NEW b \in Nat, a <= b, NEW d \in Nat, d >= 1
    PROVE  a \div d <= b \div d
<1> DEFINE p == a \div d
           q == b \div d
<1>1. p \in Nat /\ a % d \in 0 .. d - 1 /\ a = (p * d) + (a % d)
  BY Division, Zenon
<1>2. q \in Nat /\ b % d \in 0 .. d - 1 /\ b = (q * d) + (b % d)
  BY Division, Zenon
<1> HIDE DEF p, q
<1>3. p <= q
  <2> SUFFICES ASSUME q < p PROVE FALSE
    BY <1>1, <1>2
  <2>1. (q * d) + d <= p * d /\ q * d \in Nat /\ p * d \in Nat
    BY <1>1, <1>2, TimesMonotone
  <2> QED BY <1>1, <1>2, <2>1
<1> QED BY <1>3 DEF p, q

\* A timespan is clamped to four times the time a period should take; where the
\* period's first block has time 0 nothing wraps.
LEMMA Clamped ==
    ASSUME NEW t \in 0 .. TIME - 1
    PROVE  /\ ClampedTimespan(0, t) \in Nat
           /\ ClampedTimespan(0, t) <= DIFFCHANGE_TIMESPAN * 4
           /\ t > 0 => ClampedTimespan(0, t - 1) <= ClampedTimespan(0, t)
           /\ t = DIFFCHANGE_TIMESPAN => ClampedTimespan(0, t) = t
<1> DEFINE d == DIFFCHANGE_TIMESPAN
<1>1. TIME \in Nat /\ TIME >= 1 /\ d \in Nat /\ d >= 1
  BY DifficultyAssumption
<1>2. d \div 4 \in Nat /\ d \div 4 <= d /\ d <= d * 4
  BY <1>1
<1>3. \A x \in 0 .. TIME - 1 : (x - 0) % TIME = x
  BY <1>1
<1>4. \A x \in 0 .. TIME - 1 :
         ClampedTimespan(0, x) = IF x < d \div 4 THEN d \div 4
                                 ELSE IF x > d * 4 THEN d * 4 ELSE x
  BY <1>3 DEF ClampedTimespan
<1>5. t > 0 => t - 1 \in 0 .. TIME - 1
  BY <1>1
<1> HIDE DEF d
<1>6. ClampedTimespan(0, t) \in Nat /\ ClampedTimespan(0, t) <= d * 4
  BY <1>1, <1>2, <1>4
<1>7. t > 0 => ClampedTimespan(0, t - 1) <= ClampedTimespan(0, t)
  BY <1>1, <1>2, <1>4, <1>5
<1>8. t = d => ClampedTimespan(0, t) = t
  BY <1>1, <1>2, <1>4
<1> QED BY <1>6, <1>7, <1>8 DEF d

\* The target before its precision is cut.
Scaled(target, timespan) ==
    LET scaled == ((target * timespan) % Word) \div DIFFCHANGE_TIMESPAN
    IN  IF scaled > MAX_TARGET THEN MAX_TARGET ELSE scaled

\* Where a word has room for the largest target of the longest timespan, as 256
\* bits have, it is at most four times the old target, and monotone in the timespan.
LEMMA ScaledFacts ==
    ASSUME MAX_TARGET * (DIFFCHANGE_TIMESPAN * 4) < Word,
           NEW x \in 0 .. MAX_TARGET, NEW s \in Nat, s <= DIFFCHANGE_TIMESPAN * 4
    PROVE  /\ Scaled(x, s) \in 0 .. Word - 1
           /\ Scaled(x, s) <= MAX_TARGET
           /\ Scaled(x, s) <= 4 * x
           /\ \A r \in Nat : r <= s => Scaled(x, r) <= Scaled(x, s)
           /\ s = DIFFCHANGE_TIMESPAN => Scaled(x, s) = x
<1> DEFINE d == DIFFCHANGE_TIMESPAN
           M == MAX_TARGET
           w == Word
<1>1. /\ M \in Nat /\ M < w /\ w \in Nat /\ x \in Nat /\ x <= M
      /\ d \in Nat /\ d >= 1 /\ s <= d * 4 /\ M * (d * 4) < w
  BY WordNat, DifficultyAssumption
<1> DEFINE L == d * 4
<1>2. L \in Nat /\ s <= L /\ M * L < w
  BY <1>1
<1>3. \A r \in Nat : Scaled(x, r) = IF ((x * r) % w) \div d > M THEN M ELSE ((x * r) % w) \div d
  BY DEF Scaled
<1> HIDE DEF d, M, w, L
<1>4. ASSUME NEW r \in Nat, r <= L
      PROVE  x * r \in Nat /\ (x * r) % w = x * r /\ (x * r) \div d \in Nat
  <2>1. x * r <= M * r /\ r * M <= L * M /\ M * r = r * M /\ L * M = M * L
    BY <1>1, <1>2, <1>4, TimesMonotone
  <2>2. x * r \in Nat /\ M * r \in Nat /\ M * L \in Nat
    BY <1>1, <1>2
  <2> DEFINE a == x * r
  <2>3. a \in Nat /\ a < w
    BY <1>1, <1>2, <2>1, <2>2
  <2> HIDE DEF a
  <2>4. a % w = a
    BY <1>1, <2>3
  <2>5. a \div d \in Nat
    BY <1>1, <2>3, Division, Zenon
  <2> QED BY <2>3, <2>4, <2>5 DEF a
<1>5. \A r \in Nat : r <= L => Scaled(x, r) = IF (x * r) \div d > M THEN M ELSE (x * r) \div d
  BY <1>3, <1>4
<1> DEFINE q == (x * s) \div d
<1>6. q \in Nat /\ Scaled(x, s) = IF q > M THEN M ELSE q
  BY <1>2, <1>4, <1>5, Zenon
<1>7. q <= 4 * x
  <2>1. s * x <= L * x /\ s * x = x * s /\ L * x = ((4 * x) * d) + 0
    BY <1>1, <1>2, TimesMonotone DEF L
  <2>2. L * x \in Nat /\ 4 * x \in Nat /\ x * s \in Nat
    BY <1>1, <1>2
  <2>3. q <= (L * x) \div d
    BY <1>1, <2>1, <2>2, QuotientMonotone
  <2>4. 0 \in 0 .. d - 1
    BY <1>1
  <2>5. (((4 * x) * d) + 0) \div d = 4 * x
    BY <1>1, <2>2, <2>4, DivisionUnique
  <2> QED BY <2>1, <2>3, <2>5
<1>8. ASSUME NEW r \in Nat, r <= s PROVE Scaled(x, r) <= Scaled(x, s)
  <2> DEFINE p == (x * r) \div d
  <2>1. r <= L /\ r * x <= s * x /\ r * x = x * r /\ s * x = x * s
    BY <1>1, <1>2, <1>8, TimesMonotone
  <2>2. p \in Nat /\ Scaled(x, r) = IF p > M THEN M ELSE p
    BY <1>4, <1>5, <2>1
  <2>3. p <= q
    <3>1. x * r \in Nat /\ x * s \in Nat /\ x * r <= x * s
      BY <1>1, <2>1
    <3> DEFINE a == x * r
               b == x * s
    <3>2. a \in Nat /\ b \in Nat /\ a <= b
      BY <3>1
    <3> HIDE DEF a, b
    <3>3. a \div d <= b \div d
      BY <1>1, <3>2, QuotientMonotone
    <3> QED BY <3>3 DEF a, b
  <2> HIDE DEF p, q
  <2> QED BY <1>1, <1>6, <2>2, <2>3
<1>9. s = d => Scaled(x, s) = x
  <2>1. 0 \in 0 .. d - 1 /\ x * d = (x * d) + 0
    BY <1>1
  <2>2. ((x * d) + 0) \div d = x
    BY <1>1, <2>1, DivisionUnique
  <2> QED BY <1>1, <1>6, <2>1, <2>2
<1> HIDE DEF q
<1>10. Scaled(x, s) \in 0 .. w - 1 /\ Scaled(x, s) <= M /\ Scaled(x, s) <= 4 * x
  BY <1>1, <1>6, <1>7
<1> QED BY <1>8, <1>9, <1>10 DEF w, M, d

\* The retarget of add_header_to_tree keeps to MAX_TARGET and to four times the old
\* target, keeps the target if the period took the time it should, and is monotone
\* in the time it took, for all words with room for its product.
THEOREM RetargetIsFair ==
    ASSUME BYTE % 2 = 0, DIFFCHANGE_TIMESPAN < TIME,
           MAX_TARGET * (DIFFCHANGE_TIMESPAN * 4) < Word
    PROVE  Spec => []RetargetFair
<1>1. n \in 0 .. Word - 1 => RetargetFair
  <2> DEFINE x == n
             new(t) == Retarget(x, ClampedTimespan(0, t))
  <2> SUFFICES ASSUME x \in 0 .. Word - 1, x \in Encodable, x <= MAX_TARGET
               PROVE  /\ \A t \in 0 .. TIME - 1 : new(t) <= MAX_TARGET /\ new(t) <= 4 * x
                      /\ NumBytes(x) >= 3 => new(DIFFCHANGE_TIMESPAN) = x
                      /\ \A t \in 1 .. TIME - 1 : new(t - 1) <= new(t)
    BY DEF RetargetFair
  <2> DEFINE S(t) == Scaled(x, ClampedTimespan(0, t))
  <2>1. \A t : new(t) = satoshi_the_precision(S(t))
    BY DEF Retarget, Scaled
  <2> HIDE DEF new, x
  <2>2. /\ x \in 0 .. MAX_TARGET /\ x \in Nat /\ MAX_TARGET \in Nat
        /\ TIME \in Nat /\ DIFFCHANGE_TIMESPAN \in 0 .. TIME - 1
    BY WordNat, DifficultyAssumption
  <2>3. ASSUME NEW t \in 0 .. TIME - 1
        PROVE  /\ S(t) \in 0 .. Word - 1 /\ S(t) <= MAX_TARGET /\ S(t) <= 4 * x
               /\ S(t) \in Nat /\ new(t) \in Nat /\ new(t) <= S(t)
    <3>1. ClampedTimespan(0, t) \in Nat /\ ClampedTimespan(0, t) <= DIFFCHANGE_TIMESPAN * 4
      BY Clamped
    <3>2. S(t) \in 0 .. Word - 1 /\ S(t) <= MAX_TARGET /\ S(t) <= 4 * x
      BY <2>2, <3>1, ScaledFacts
    <3>3. S(t) \in Nat
      BY <3>2, WordNat
    <3> HIDE DEF S
    <3> QED BY <2>1, <3>2, <3>3, PrecisionLowers
  <2>4. ASSUME NEW t \in 0 .. TIME - 1 PROVE new(t) <= MAX_TARGET /\ new(t) <= 4 * x
    <3> HIDE DEF S
    <3>1. 4 * x \in Nat
      BY <2>2
    <3> QED BY <2>2, <2>3, <3>1
  <2>5. ASSUME NumBytes(x) >= 3 PROVE new(DIFFCHANGE_TIMESPAN) = x
    <3> DEFINE d == DIFFCHANGE_TIMESPAN
    <3>1. ClampedTimespan(0, d) = d
      BY <2>2, Clamped
    <3>2. d \in Nat /\ d <= d * 4
      BY DifficultyAssumption
    <3>3. S(d) = x
      BY <2>2, <3>1, <3>2, ScaledFacts
    <3>4. /\ satoshi_the_precision(x) \in Nat /\ satoshi_the_precision(x) <= x
          /\ x <= satoshi_the_precision(x)
      BY <2>2, <2>5, FloorOfPrecision
    <3>5. satoshi_the_precision(x) = x
      BY <2>2, <3>4
    <3> QED BY <2>1, <3>3, <3>5
  <2>6. ASSUME NEW t \in 1 .. TIME - 1 PROVE new(t - 1) <= new(t)
    <3>1. t \in 0 .. TIME - 1 /\ t - 1 \in 0 .. TIME - 1 /\ t > 0
      BY <2>2
    <3>2. /\ ClampedTimespan(0, t - 1) \in Nat /\ ClampedTimespan(0, t) \in Nat
          /\ ClampedTimespan(0, t) <= DIFFCHANGE_TIMESPAN * 4
          /\ ClampedTimespan(0, t - 1) <= ClampedTimespan(0, t)
      BY <3>1, Clamped
    <3>3. S(t - 1) <= S(t)
      BY <2>2, <3>2, ScaledFacts
    <3>4. S(t - 1) \in 0 .. Word - 1 /\ S(t) \in 0 .. Word - 1
      BY <2>3, <3>1
    <3> HIDE DEF S
    <3> QED BY <2>1, <3>3, <3>4, PrecisionMonotone
  <2> QED BY <2>4, <2>5, <2>6
<1> QED BY <1>1, NumbersOfWord, PTL

-----------------------------------------------------------------------------
(***************************************************************************)
(* Buffer: its inductive invariant.                                        *)
(***************************************************************************)

\* The chunks lie one behind the other in the stream, up to its end.
Layout ==
  /\ Len(starts) = Len(chunks)
  /\ chunks = << >> => stream = << >>
  /\ \A k \in 1 .. Len(chunks) : starts[k] + Len(chunks[k]) <= Len(stream)
  /\ \A k \in 1 .. Len(chunks) - 1 : starts[k + 1] = starts[k] + Len(chunks[k])
  /\ chunks # << >> => starts[Len(chunks)] + Len(chunks[Len(chunks)]) = Len(stream)
  /\ \A k \in 1 .. Len(chunks) :
        \A j \in 1 .. Len(chunks[k]) : chunks[k][j] = stream[starts[k] + j]

\* The loop in progress has read have bytes from where it began, and copied them.
Loop ==
  /\ phase = "idle" => op = "none"
  /\ phase # "idle" =>
       /\ op \in Loops
       /\ want \in Count
       /\ have <= want
       /\ Valid(at)
       /\ op # "read_ahead" => pos = at
       /\ Seen >= 0
       /\ Abs(at) = Seen + have
       /\ op = "advance" => want <= ahead
       /\ op # "advance" => /\ Len(out) = have
                            /\ \A j \in 1 .. have : out[j] = stream[Seen + j]
  /\ phase = "loop" => have < want
  /\ phase = "done" => have = want \/ Abs(at) = Len(stream)
  /\ ahead <= Len(stream) - Seen

\* The inductive invariant.
BufferInv == BufferTypeOK /\ Layout /\ InBounds /\ Loop

-----------------------------------------------------------------------------

\* A new buffer satisfies the invariant.
LEMMA InitBufferInv == BufferInit => BufferInv
BY DEF BufferInit, BufferInv, BufferTypeOK, Layout, InBounds, Loop, Valid, Abs, Seen, Position, Loops

\* What grows by the same number of bytes on both sides stays equal.
LEMMA BothGrow == \A a, b, c, d \in Nat : a + b = c => a + (b + d) = c + d
OBVIOUS

\* A bound that grows stays a bound.
LEMMA BoundGrows == \A a, b, c, d \in Nat : a + b <= c => a + b <= c + d
OBVIOUS

\* A position that is valid has an absolute place in the stream.
LEMMA AbsOfValid ==
    ASSUME BufferTypeOK, Layout, NEW p \in Position, Valid(p)
    PROVE  /\ Abs(p) \in Nat
           /\ Abs(p) <= Len(stream)
           /\ chunks # << >> => /\ p[1] + 1 \in 1 .. Len(chunks)
                                /\ Chunk(p) = chunks[p[1] + 1]
                                /\ Chunk(p) \in Seq(Byte)
                                /\ starts[p[1] + 1] \in Nat
<1>1. CASE chunks = << >>
  BY <1>1 DEF Abs, BufferTypeOK
<1>2. CASE chunks # << >>
  <2>1. p[1] \in Nat /\ p[2] \in Nat /\ p[1] < Len(chunks)
    BY <1>2 DEF Valid, Position
  <2>2. p[1] + 1 \in 1 .. Len(chunks) /\ p[1] + 1 \in 1 .. Len(starts)
    <3>1. Len(chunks) \in Nat /\ Len(starts) = Len(chunks)
      BY DEF BufferTypeOK, Layout
    <3>2. p[1] + 1 \in 1 .. Len(chunks)
      BY <2>1, <3>1
    <3> QED BY <3>1, <3>2
  <2>3. starts[p[1] + 1] \in Nat /\ Chunk(p) \in Seq(Byte)
    <3>1. chunks \in Seq(Seq(Byte)) /\ starts \in Seq(Nat)
      BY DEF BufferTypeOK
    <3>2. chunks[p[1] + 1] \in Seq(Byte)
      BY <2>2, <3>1, ElementOfSeq, Zenon
    <3>3. starts[p[1] + 1] \in Nat
      BY <2>2, <3>1, ElementOfSeq, Zenon
    <3> QED BY <3>2, <3>3 DEF Chunk
  <2>4. starts[p[1] + 1] + Len(chunks[p[1] + 1]) <= Len(stream)
    BY <2>2 DEF Layout
  <2>5. p[2] <= Len(Chunk(p))
    BY <1>2 DEF Valid
  <2>6. Len(stream) \in Nat /\ Len(Chunk(p)) \in Nat
    BY <2>3 DEF BufferTypeOK
  <2> QED BY <1>2, <2>1, <2>2, <2>3, <2>4, <2>5, <2>6, SMTT(60) DEF Abs, Chunk
<1> QED BY <1>1, <1>2

\* A write leaves every valid position valid, and where it was in the stream.
LEMMA WriteKeepsPositions ==
    ASSUME BufferTypeOK, Layout, NEW bs \in Input, Write(bs), NEW p \in Position, Valid(p)
    PROVE  /\ BufferTypeOK'
           /\ Layout'
           /\ chunks' # << >>
           /\ p[1] < Len(chunks') /\ p[2] <= Len(chunks'[p[1] + 1])
           /\ starts'[p[1] + 1] + p[2] = Abs(p)
           /\ Len(stream') >= Len(stream)
           /\ \A j \in 1 .. Len(stream) : stream'[j] = stream[j]
<1>1. bs \in Seq(Byte) /\ bs # << >> /\ Len(bs) \in Nat /\ Len(bs) > 0
  BY BufferAssumption, EmptySeq
<1>2. /\ stream' \in Seq(Byte)
      /\ Len(stream') = Len(stream) + Len(bs)
      /\ \A j \in 1 .. Len(stream) : stream'[j] = stream[j]
      /\ \A j \in 1 .. Len(bs) : stream'[Len(stream) + j] = bs[j]
  <2>1. stream \in Seq(Byte) /\ stream' = stream \o bs /\ Len(stream) \in Nat
    BY DEF Write, BufferTypeOK
  <2> QED BY <1>1, <2>1, ConcatProperties
<1>3. Len(stream) \in Nat /\ Len(chunks) \in Nat /\ Len(starts) = Len(chunks)
  BY DEF BufferTypeOK, Layout
<1>4. CASE NeedsChunk(bs)
  <2>1. /\ chunks' \in Seq(Seq(Byte))
        /\ Len(chunks') = Len(chunks) + 1
        /\ \A k \in 1 .. Len(chunks) : chunks'[k] = chunks[k]
        /\ chunks'[Len(chunks) + 1] = bs
    <3>1. chunks' = Append(chunks, bs) /\ chunks \in Seq(Seq(Byte)) /\ bs \in Seq(Byte)
      BY <1>1, <1>4 DEF Write, BufferTypeOK
    <3> QED BY <3>1, AppendProperties
  <2>2. /\ starts' \in Seq(Nat)
        /\ Len(starts') = Len(chunks) + 1
        /\ \A k \in 1 .. Len(chunks) : starts'[k] = starts[k]
        /\ starts'[Len(chunks) + 1] = Len(stream)
    <3>1. starts' = Append(starts, Len(stream)) /\ starts \in Seq(Nat)
      BY <1>4 DEF Write, BufferTypeOK
    <3> QED BY <1>3, <3>1, AppendProperties
  <2>3. BufferTypeOK'
    BY <1>2, <2>1, <2>2 DEF BufferTypeOK, Write, locals
  <2>4. chunks' # << >>
    BY <1>3, <2>1, EmptySeq
  <2>5. \A k \in 1 .. Len(chunks) : chunks[k] \in Seq(Byte) /\ Len(chunks[k]) \in Nat /\ starts[k] \in Nat
    BY <1>3 DEF BufferTypeOK
  <2>6. Layout'
    <3>1. \A k \in 1 .. Len(chunks') : starts'[k] + Len(chunks'[k]) <= Len(stream')
      <4> SUFFICES ASSUME NEW k \in 1 .. Len(chunks) + 1
                   PROVE  starts'[k] + Len(chunks'[k]) <= Len(stream) + Len(bs)
        BY <1>2, <2>1
      <4>1. CASE k \in 1 .. Len(chunks)
        <5>1. starts[k] + Len(chunks[k]) <= Len(stream)
          BY <4>1 DEF Layout
        <5>2. starts'[k] = starts[k] /\ chunks'[k] = chunks[k]
          BY <4>1, <2>1, <2>2
        <5>3. /\ starts[k] \in Nat /\ Len(chunks[k]) \in Nat
              /\ Len(stream) \in Nat /\ Len(bs) \in Nat
          BY <4>1, <1>1, <1>3, <2>5
        <5> QED BY <5>1, <5>2, <5>3, BoundGrows
      <4>2. CASE k = Len(chunks) + 1
        BY <4>2, <1>1, <1>3, <2>1, <2>2
      <4> QED BY <4>1, <4>2, <1>3
    <3>2. \A k \in 1 .. Len(chunks') - 1 : starts'[k + 1] = starts'[k] + Len(chunks'[k])
      <4> SUFFICES ASSUME NEW k \in 1 .. Len(chunks)
                   PROVE  starts'[k + 1] = starts[k] + Len(chunks[k])
        BY <1>3, <2>1, <2>2
      <4>1. CASE k = Len(chunks)
        <5>1. chunks # << >>
          BY <4>1, <1>3, EmptySeq
        <5> QED BY <4>1, <5>1, <2>2 DEF Layout
      <4>2. CASE k # Len(chunks)
        <5>1. k \in 1 .. Len(chunks) - 1 /\ k + 1 \in 1 .. Len(chunks)
          BY <4>2, <1>3
        <5> QED BY <5>1, <2>2 DEF Layout
      <4> QED BY <4>1, <4>2
    <3>3. starts'[Len(chunks')] + Len(chunks'[Len(chunks')]) = Len(stream')
      BY <1>2, <1>3, <2>1, <2>2
    <3>4. ASSUME NEW k \in 1 .. Len(chunks'), NEW j \in 1 .. Len(chunks'[k])
          PROVE  chunks'[k][j] = stream'[starts'[k] + j]
      <4>1. CASE k \in 1 .. Len(chunks)
        <5>1. chunks'[k] = chunks[k] /\ starts'[k] = starts[k]
          BY <4>1, <2>1, <2>2
        <5>2. chunks[k][j] = stream[starts[k] + j]
          BY <4>1, <5>1, <3>4 DEF Layout
        <5>3. starts[k] + j \in 1 .. Len(stream)
          BY <4>1, <5>1, <3>4, <2>5, <1>3 DEF Layout
        <5> QED BY <5>1, <5>2, <5>3, <1>2
      <4>2. CASE k = Len(chunks) + 1
        BY <4>2, <3>4, <1>2, <2>1, <2>2
      <4> QED BY <4>1, <4>2, <2>1, <1>3
    <3> QED BY <2>1, <2>2, <2>4, <3>1, <3>2, <3>3, <3>4 DEF Layout
  <2>7. p[1] < Len(chunks') /\ p[2] <= Len(chunks'[p[1] + 1]) /\ starts'[p[1] + 1] + p[2] = Abs(p)
    <3>1. CASE chunks = << >>
      <4>1. p = <<0, 0>> /\ Len(chunks) = 0 /\ stream = << >> /\ Abs(p) = 0
        BY <3>1 DEF Valid, Layout, Abs
      <4> QED BY <4>1, <2>1, <2>2, <1>1
    <3>2. CASE chunks # << >>
      <4>1. p[1] \in Nat /\ p[2] \in Nat /\ p[1] < Len(chunks) /\ p[2] <= Len(chunks[p[1] + 1])
        BY <3>2 DEF Valid, Position, Chunk
      <4>2. p[1] + 1 \in 1 .. Len(chunks)
        BY <4>1, <1>3
      <4> QED BY <3>2, <4>1, <4>2, <2>1, <2>2, <1>3, SMTT(60) DEF Abs
    <3> QED BY <3>1, <3>2
  <2> QED BY <2>3, <2>6, <2>4, <2>7, <1>2, <1>1, <1>3
<1>5. CASE ~NeedsChunk(bs)
  <2> DEFINE N == Len(chunks)
             last == chunks[N] \o bs
  <2>1. chunks # << >> /\ N \in 1 .. Len(chunks)
    BY <1>3, <1>5, EmptySeq DEF NeedsChunk, BufferTypeOK
  <2>2. chunks[N] \in Seq(Byte) /\ Len(chunks[N]) \in Nat
    BY <2>1 DEF BufferTypeOK
  <2>3. /\ last \in Seq(Byte)
        /\ Len(last) = Len(chunks[N]) + Len(bs)
        /\ \A i \in 1 .. Len(chunks[N]) + Len(bs) :
              last[i] = IF i <= Len(chunks[N]) THEN chunks[N][i] ELSE bs[i - Len(chunks[N])]
    BY <1>1, <2>2, ConcatProperties
  <2>4. chunks' = [chunks EXCEPT ![N] = last] /\ starts' = starts
    BY <1>5 DEF Write
  <2> HIDE DEF last
  <2>5. /\ chunks' \in Seq(Seq(Byte))
        /\ Len(chunks') = N
        /\ \A k \in 1 .. N : chunks'[k] = IF k = N THEN last ELSE chunks[k]
    BY <2>1, <2>3, <2>4, ExceptSeq DEF BufferTypeOK
  <2>6. BufferTypeOK'
    BY <1>2, <2>4, <2>5, Zenon DEF BufferTypeOK, Write, locals
  <2>7. chunks' # << >>
    BY <2>1, <2>5, <1>3, EmptySeq
  <2>8. \A k \in 1 .. N : chunks[k] \in Seq(Byte) /\ Len(chunks[k]) \in Nat /\ starts[k] \in Nat
    BY <1>3 DEF BufferTypeOK
  <2>9. starts[N] + Len(chunks[N]) = Len(stream)
    BY <2>1 DEF Layout
  <2>10. Layout'
    <3>1. \A k \in 1 .. N : starts[k] + Len(chunks'[k]) <= Len(stream')
      <4> SUFFICES ASSUME NEW k \in 1 .. N PROVE starts[k] + Len(chunks'[k]) <= Len(stream')
        OBVIOUS
      <4>1. CASE k = N
        BY <4>1, <1>2, <2>2, <2>3, <2>5, <2>9, <2>8, <1>1
      <4>2. CASE k # N
        <5>1. starts[k] + Len(chunks[k]) <= Len(stream)
          BY DEF Layout
        <5>2. chunks'[k] = chunks[k] /\ Len(stream') = Len(stream) + Len(bs)
          BY <4>2, <1>2, <2>5
        <5>3. /\ starts[k] \in Nat /\ Len(chunks[k]) \in Nat
              /\ Len(stream) \in Nat /\ Len(bs) \in Nat
          BY <1>1, <1>3, <2>8
        <5> QED BY <5>1, <5>2, <5>3, BoundGrows
      <4> QED BY <4>1, <4>2
    <3>2. \A k \in 1 .. N - 1 : starts[k + 1] = starts[k] + Len(chunks'[k])
      BY <1>3, <2>5 DEF Layout
    <3>3. starts[N] + Len(chunks'[N]) = Len(stream')
      <4>1. chunks'[N] = last /\ starts[N] \in Nat
        BY <2>1, <2>5, <2>8
      <4>2. Len(chunks'[N]) = Len(chunks[N]) + Len(bs)
        BY <4>1, <2>3
      <4>3. Len(stream') = Len(stream) + Len(bs)
        BY <1>2
      <4>4. Len(bs) \in Nat /\ Len(stream) \in Nat /\ Len(chunks[N]) \in Nat
        BY <1>1, <1>3, <2>2
      <4>5. starts[N] + (Len(chunks[N]) + Len(bs)) = Len(stream) + Len(bs)
        BY <4>1, <4>4, <2>9, BothGrow
      <4> QED BY <4>2, <4>3, <4>5, Zenon
    <3>4. ASSUME NEW k \in 1 .. N, NEW j \in 1 .. Len(chunks'[k])
          PROVE  chunks'[k][j] = stream'[starts[k] + j]
      <4>1. CASE k # N \/ j <= Len(chunks[N])
        <5>1. j \in 1 .. Len(chunks[k]) /\ chunks'[k][j] = chunks[k][j]
          <6>1. CASE k # N
            BY <6>1, <3>4, <2>5
          <6>2. CASE k = N
            <7>1. chunks'[k] = last /\ j \in 1 .. Len(last) /\ j <= Len(chunks[N])
              BY <6>2, <4>1, <3>4, <2>5
            <7> QED BY <6>2, <7>1, <2>2, <2>3, <1>1
          <6> QED BY <6>1, <6>2
        <5>2. chunks[k][j] = stream[starts[k] + j]
          BY <5>1, <3>4 DEF Layout
        <5>3. starts[k] + j \in 1 .. Len(stream)
          BY <5>1, <3>4, <2>8, <1>3 DEF Layout
        <5> QED BY <5>1, <5>2, <5>3, <1>2
      <4>2. CASE k = N /\ j > Len(chunks[N])
        <5>1. j \in 1 .. Len(chunks[N]) + Len(bs)
          BY <4>2, <3>4, <2>5, <2>3, <2>1
        <5>2. chunks'[k][j] = bs[j - Len(chunks[N])]
          BY <4>2, <5>1, <2>5, <2>3, <2>1, <2>2
        <5>3. j - Len(chunks[N]) \in 1 .. Len(bs)
          BY <4>2, <5>1, <2>2, <1>1
        <5>4. stream'[Len(stream) + (j - Len(chunks[N]))] = bs[j - Len(chunks[N])]
          BY <5>3, <1>2, Zenon
        <5>5. Len(stream) + (j - Len(chunks[N])) = starts[N] + j
          <6> DEFINE a == starts[N]
                     b == Len(chunks[N])
                     d == Len(stream)
          <6>1. a \in Int /\ b \in Int /\ d \in Int /\ j \in Int /\ a + b = d
            BY <2>1, <2>2, <2>8, <2>9, <1>3
          <6> HIDE DEF a, b, d
          <6>2. d + (j - b) = a + j
            BY <6>1
          <6> QED BY <6>2, Zenon DEF a, b, d
        <5> QED BY <4>2, <5>2, <5>4, <5>5
      <4> QED BY <4>1, <4>2, <3>4, <2>2, <2>3, <2>5
    <3> QED BY <1>3, <2>4, <2>5, <2>7, <3>1, <3>2, <3>3, <3>4 DEF Layout
  <2>11. p[1] < Len(chunks') /\ p[2] <= Len(chunks'[p[1] + 1]) /\ starts'[p[1] + 1] + p[2] = Abs(p)
    <3>1. p[1] \in Nat /\ p[2] \in Nat /\ p[1] < N /\ p[2] <= Len(chunks[p[1] + 1])
      BY <2>1 DEF Valid, Position, Chunk
    <3>2. p[1] + 1 \in 1 .. N
      BY <3>1, <1>3
    <3>3. Len(chunks'[p[1] + 1]) >= Len(chunks[p[1] + 1])
      BY <3>2, <2>5, <2>3, <2>2, <2>8, <1>1
    <3>4. Len(chunks[p[1] + 1]) \in Nat /\ Len(chunks'[p[1] + 1]) \in Nat
      BY <3>2, <2>5, <2>8
    <3> QED BY <2>1, <3>1, <3>2, <3>3, <3>4, <2>4, <2>5 DEF Abs
  <2> QED BY <2>6, <2>7, <2>10, <2>11, <1>1, <1>2, <1>3
<1> QED BY <1>4, <1>5

\* A commit drops what lies before the current chunk; what is left stays where it
\* was in the stream.
LEMMA CommitKeepsLayout ==
    ASSUME BufferTypeOK, Layout, Valid(pos), commit
    PROVE  /\ BufferTypeOK'
           /\ Layout'
           /\ Valid(pos)'
           /\ checkpoint' = pos'
           /\ Abs(pos)' = Abs(pos)
<1> DEFINE c == pos[1]
           N == Len(chunks)
<1>1. /\ chunks \in Seq(Seq(Byte)) /\ starts \in Seq(Nat) /\ Len(starts) = N /\ N \in Nat
      /\ c \in Nat /\ pos[2] \in Nat
  BY DEF BufferTypeOK, Layout, Position
<1>2. /\ chunks' = SubSeq(chunks, c + 1, N)
      /\ starts' = SubSeq(starts, c + 1, N)
      /\ pos' = <<0, pos[2]>>
      /\ checkpoint' = pos'
      /\ UNCHANGED <<locals, ahead, result, stream>>
  BY DEF commit, Layout
<1>5. /\ chunks # << >> => c < N /\ pos[2] <= Len(chunks[c + 1])
      /\ \A k \in 1 .. N : starts[k] + Len(chunks[k]) <= Len(stream)
      /\ \A k \in 1 .. N - 1 : starts[k + 1] = starts[k] + Len(chunks[k])
      /\ chunks # << >> => starts[N] + Len(chunks[N]) = Len(stream)
      /\ \A k \in 1 .. N : \A j \in 1 .. Len(chunks[k]) : chunks[k][j] = stream[starts[k] + j]
      /\ chunks # << >> => Abs(pos) = starts[c + 1] + pos[2]
  BY DEF Layout, Valid, Chunk, Abs
<1>6. \A k \in 1 .. N : chunks[k] \in Seq(Byte) /\ Len(chunks[k]) \in Nat /\ starts[k] \in Nat
  BY <1>1
<1>3. CASE chunks = << >>
  <2>1. N = 0 /\ pos = <<0, 0>> /\ starts = << >>
    BY <1>1, <1>3, EmptySeq DEF Valid
  <2>2. chunks' = << >> /\ starts' = << >> /\ pos' = <<0, 0>>
    BY <1>1, <1>2, <2>1, SubSeqEmpty
  <2> QED BY <1>2, <1>3, <2>1, <2>2 DEF BufferTypeOK, Layout, Valid, Abs, locals, Position
<1>4. CASE chunks # << >>
  <2> HIDE DEF c, N
  <2>1. c \in Nat /\ N \in Nat /\ c < N /\ pos[2] <= Len(chunks[c + 1])
    BY <1>1, <1>4, <1>5
  <2>2. \A k \in 1 .. N : chunks[k] \in Seq(Byte) /\ Len(chunks[k]) \in Nat /\ starts[k] \in Nat
    BY <1>6
  <2>3. /\ chunks' \in Seq(Seq(Byte))
        /\ Len(chunks') = N - c
        /\ \A k \in 1 .. N - c : chunks'[k] = chunks[c + k]
    <3>1. \A i \in c + 1 .. N : chunks[i] \in Seq(Byte)
      BY <1>1, <2>2
    <3>2. c + 1 \in Int /\ N \in Int /\ c + 1 <= N /\ N - (c + 1) + 1 = N - c
      BY <2>1
    <3>3. \A i \in 1 .. N - c : (c + 1) + i - 1 = c + i
      BY <1>1
    <3>4. /\ SubSeq(chunks, c + 1, N) \in Seq(Seq(Byte))
          /\ Len(SubSeq(chunks, c + 1, N)) = N - (c + 1) + 1
          /\ \A i \in 1 .. N - (c + 1) + 1 : SubSeq(chunks, c + 1, N)[i] = chunks[(c + 1) + i - 1]
      BY <3>1, <3>2, SubSeqProperties
    <3> QED BY <1>2, <3>2, <3>3, <3>4
  <2>4. /\ starts' \in Seq(Nat)
        /\ Len(starts') = N - c
        /\ \A k \in 1 .. N - c : starts'[k] = starts[c + k]
    <3>1. \A i \in c + 1 .. N : starts[i] \in Nat
      BY <1>1, <2>2
    <3>2. c + 1 \in Int /\ N \in Int /\ c + 1 <= N /\ N - (c + 1) + 1 = N - c
      BY <2>1
    <3>3. \A i \in 1 .. N - c : (c + 1) + i - 1 = c + i
      BY <1>1
    <3>4. /\ SubSeq(starts, c + 1, N) \in Seq(Nat)
          /\ Len(SubSeq(starts, c + 1, N)) = N - (c + 1) + 1
          /\ \A i \in 1 .. N - (c + 1) + 1 : SubSeq(starts, c + 1, N)[i] = starts[(c + 1) + i - 1]
      BY <3>1, <3>2, SubSeqProperties
    <3> QED BY <1>2, <3>2, <3>3, <3>4
  <2>5. N - c \in Nat /\ N - c > 0 /\ \A k \in 1 .. N - c : c + k \in 1 .. N
    BY <2>1
  <2>6. chunks' # << >>
    BY <2>3, <2>5, EmptySeq
  <2>7. BufferTypeOK'
    BY <1>1, <1>2, <2>3, <2>4 DEF BufferTypeOK, locals, Position
  <2>8. Layout'
    <3>1. \A k \in 1 .. N - c : starts'[k] + Len(chunks'[k]) <= Len(stream)
      BY <2>3, <2>4, <2>5, <1>5
    <3>2. \A k \in 1 .. (N - c) - 1 : starts'[k + 1] = starts'[k] + Len(chunks'[k])
      <4> SUFFICES ASSUME NEW k \in 1 .. (N - c) - 1
                   PROVE  starts'[k + 1] = starts'[k] + Len(chunks'[k])
        OBVIOUS
      <4>1. /\ k \in 1 .. N - c /\ k + 1 \in 1 .. N - c
            /\ c + k \in 1 .. N - 1 /\ c + (k + 1) = (c + k) + 1
        BY <2>1
      <4>2. starts[(c + k) + 1] = starts[c + k] + Len(chunks[c + k])
        BY <4>1, <1>5
      <4> QED BY <4>1, <4>2, <2>3, <2>4, Zenon
    <3>3. starts'[N - c] + Len(chunks'[N - c]) = Len(stream)
      <4>1. N - c \in 1 .. N - c /\ c + (N - c) = N
        BY <2>1, <2>5
      <4> QED BY <4>1, <1>4, <1>5, <2>3, <2>4
    <3>4. ASSUME NEW k \in 1 .. N - c, NEW j \in 1 .. Len(chunks'[k])
          PROVE  chunks'[k][j] = stream[starts'[k] + j]
      <4>1. c + k \in 1 .. N /\ chunks'[k] = chunks[c + k] /\ starts'[k] = starts[c + k]
        BY <2>3, <2>4, <2>5
      <4> QED BY <4>1, <3>4, <1>5
    <3> QED BY <1>2, <2>3, <2>4, <2>6, <3>1, <3>2, <3>3, <3>4, Zenon DEF Layout
  <2>9. Valid(pos)' /\ Abs(pos)' = Abs(pos)
    <3>1. 1 \in 1 .. N - c /\ chunks'[1] = chunks[c + 1] /\ starts'[1] = starts[c + 1]
      BY <2>3, <2>4, <2>5
    <3>2. pos'[1] = 0 /\ pos'[2] = pos[2] /\ 0 + 1 = 1
      BY <1>2
    <3>3. Abs(pos) = starts[c + 1] + pos[2]
      BY <1>4 DEF Abs, c
    <3>4. Abs(pos)' = starts'[1] + pos'[2]
      BY <2>6, <3>2 DEF Abs
    <3>5. 0 < Len(chunks')
      BY <2>1, <2>3
    <3>6. Valid(pos)'
      BY <2>1, <2>6, <3>1, <3>2, <3>5 DEF Valid, Chunk
    <3> QED BY <3>1, <3>2, <3>3, <3>4, <3>6
  <2> QED BY <1>2, <2>7, <2>8, <2>9
<1> QED BY <1>3, <1>4

\* One iteration of a loop: it collects what it moves over, from where it stood.
LEMMA IterateKeepsLoop ==
    ASSUME BufferInv, Iterate
    PROVE  /\ BufferInv'
           /\ Seen' = Seen
           /\ phase' = "loop" => at'[1] = at[1] + 1 /\ at'[1] < Len(chunks)
<1> DEFINE c == at[1]
           o == at[2]
           N == Len(chunks)
           L == Len(Chunk(at))
           a == Available
           D == Len(stream)
<1>1. /\ chunks # << >> /\ phase = "loop" /\ op \in Loops /\ at \in Position /\ Valid(at)
      /\ BufferTypeOK /\ Layout
      /\ UNCHANGED <<chunks, checkpoint, op, want, ahead, result, stream, starts>>
  <2>1. /\ phase = "loop" /\ BufferTypeOK /\ Layout /\ InBounds /\ Loop
        /\ UNCHANGED <<chunks, checkpoint, op, want, ahead, result, history>>
    BY DEF BufferInv, Iterate
  <2>2. chunks # << >> /\ Valid(at) /\ op \in Loops
    BY <2>1 DEF InBounds, Loop
  <2>3. at \in Position
    BY <2>1 DEF BufferTypeOK
  <2> QED BY <2>1, <2>2, <2>3 DEF history
<1>2. /\ c \in Nat /\ o \in Nat /\ N \in Nat /\ c < N /\ L \in Nat /\ o <= L /\ D \in Nat
      /\ Abs(at) = starts[c + 1] + o /\ starts[c + 1] \in Nat /\ Abs(at) \in Nat
      /\ Chunk(at) \in Seq(Byte)
      /\ c + 1 \in 1 .. N
  <2>1. /\ Abs(at) \in Nat /\ c + 1 \in 1 .. N /\ Chunk(at) \in Seq(Byte)
        /\ starts[c + 1] \in Nat
    BY <1>1, AbsOfValid
  <2>2. c \in Nat /\ o \in Nat
    BY <1>1 DEF Position
  <2>3. c < N /\ o <= L /\ Abs(at) = starts[c + 1] + o
    BY <1>1 DEF Valid, Abs
  <2>4. N \in Nat /\ D \in Nat
    BY <1>1 DEF BufferTypeOK
  <2> QED BY <2>1, <2>2, <2>3, <2>4
<1>3. /\ want \in Nat /\ have \in Nat /\ have < want
      /\ Abs(at) = Seen + have /\ Seen >= 0 /\ Seen \in Int
      /\ want \in Count
      /\ op = "advance" => want <= ahead
      /\ op # "read_ahead" => pos = at
      /\ op # "advance" => Len(out) = have /\ \A j \in 1 .. have : out[j] = stream[Seen + j]
      /\ ahead <= D - Seen
      /\ out \in Seq(Byte)
      /\ Seen = IF op = "read_ahead" THEN Abs(pos) ELSE Abs(pos) - have
  <2>1. Abs(pos) \in Nat
    BY <1>1, AbsOfValid DEF BufferInv, InBounds, BufferTypeOK
  <2> QED BY <1>1, <2>1 DEF BufferInv, Loop, BufferTypeOK, Seen, Loops
<1>4. a \in Nat /\ a <= L - o /\ a <= want - have /\ (a = want - have \/ a = L - o)
  <2> DEFINE w == want - have
             l == L - o
  <2>1. w \in Nat /\ l \in Nat /\ a = IF w < l THEN w ELSE l
    <3>1. a = IF w < l THEN w ELSE l
      BY DEF Available
    <3>2. L \in Nat /\ o \in Nat /\ o <= L /\ want \in Nat /\ have \in Nat /\ have < want
      BY <1>2, <1>3
    <3> HIDE DEF L, o, a
    <3>3. w \in Nat /\ l \in Nat
      BY <3>2
    <3> QED BY <3>1, <3>3
  <2> HIDE DEF w, l, a
  <2>2. a \in Nat /\ a <= l /\ a <= w /\ (a = w \/ a = l)
    BY <2>1
  <2> QED BY <2>2 DEF w, l
<1>5. /\ c < N - 1 => starts[(c + 1) + 1] = starts[c + 1] + L /\ starts[(c + 1) + 1] \in Nat
      /\ c = N - 1 => starts[c + 1] + L = D
      /\ \A j \in 1 .. L : Chunk(at)[j] = stream[starts[c + 1] + j]
  <2>1. ASSUME c < N - 1
        PROVE  starts[(c + 1) + 1] = starts[c + 1] + L
    <3>1. c + 1 \in 1 .. N - 1
      BY <2>1, <1>2
    <3> QED BY <3>1, <1>1, Zenon DEF Layout, Chunk
  <2>2. ASSUME c = N - 1
        PROVE  starts[c + 1] + L = D
    <3>1. c + 1 = N
      BY <2>2, <1>2
    <3> QED BY <3>1, <1>1 DEF Layout, Chunk
  <2>3. \A j \in 1 .. L : Chunk(at)[j] = stream[starts[c + 1] + j]
    BY <1>1, <1>2, Zenon DEF Layout, Chunk
  <2> QED BY <2>1, <2>2, <2>3, <1>2, SMTT(60)
<1>6. /\ have' = have + a
      /\ at' = IF o + a = L /\ c < N - 1 THEN <<c + 1, 0>> ELSE <<c, o + a>>
      /\ pos' = IF op = "read_ahead" THEN pos ELSE at'
      /\ phase' = IF have + a >= want \/ (o + a = L /\ c >= N - 1) THEN "done" ELSE "loop"
      /\ out' = IF op = "advance" THEN out ELSE out \o SubSeq(Chunk(at), o + 1, o + a)
  BY DEF Iterate, Beyond, Ends
<1> HIDE DEF a, c, o, N, L, D
<1>7. /\ at' \in Position
      /\ Valid(at)'
      /\ Abs(at)' = Abs(at) + a
  <2>1. CASE o + a = L /\ c < N - 1
    <3>1. at' = <<c + 1, 0>> /\ at'[1] = c + 1 /\ at'[2] = 0
      BY <2>1, <1>6
    <3>2. (c + 1) + 1 \in 1 .. N /\ c + 1 < N /\ c + 1 \in Nat
      BY <2>1, <1>2
    <3>3. chunks[(c + 1) + 1] \in Seq(Byte) /\ Len(chunks[(c + 1) + 1]) \in Nat
      BY <3>2, <1>1 DEF BufferTypeOK, N
    <3>4. Valid(at)'
      <4>1. chunks' = chunks /\ N = Len(chunks)
        BY <1>1 DEF N
      <4> QED BY <4>1, <3>1, <3>2, <3>3, <1>1 DEF Valid, Chunk
    <3>5. Abs(at)' = starts[(c + 1) + 1] + 0
      BY <3>1, <1>1 DEF Abs
    <3>6. at' \in Position
      BY <3>1, <3>2 DEF Position
    <3>7. starts[(c + 1) + 1] = starts[c + 1] + (o + a) /\ starts[(c + 1) + 1] \in Nat
      BY <2>1, <1>5
    <3>8. Abs(at)' = Abs(at) + a
      <4> DEFINE q == starts[c + 1]
                 m == starts[(c + 1) + 1]
      <4>1. q \in Nat /\ m \in Nat /\ m = q + (o + a) /\ Abs(at)' = m + 0 /\ Abs(at) = q + o
        BY <3>5, <3>7, <1>2
      <4> HIDE DEF q, m
      <4> QED BY <4>1, <1>2, <1>4
    <3> QED BY <3>4, <3>6, <3>8
  <2>2. CASE ~(o + a = L /\ c < N - 1)
    <3>1. at' = <<c, o + a>> /\ at'[1] = c /\ at'[2] = o + a
      BY <2>2, <1>6
    <3>2. o + a \in Nat /\ o + a <= L
      BY <1>2, <1>4
    <3>3. Valid(at)'
      <4>1. chunks' = chunks /\ N = Len(chunks) /\ L = Len(chunks[c + 1])
        BY <1>1 DEF N, L, Chunk, c
      <4> QED BY <4>1, <3>1, <3>2, <1>1, <1>2 DEF Valid, Chunk
    <3>4. Abs(at)' = starts[c + 1] + (o + a)
      BY <3>1, <1>1 DEF Abs
    <3> QED BY <3>1, <3>2, <3>3, <3>4, <1>2, <1>4 DEF Position
  <2> QED BY <2>1, <2>2
<1>8. have' \in Nat /\ have' <= want /\ (phase' = "loop" => have' < want)
  BY <1>3, <1>4, <1>6
<1>9. phase' \in {"loop", "done"} /\ phase' # "idle" /\ (phase' = "done" => have' = want \/ Abs(at)' = D)
  <2>1. CASE have + a >= want
    BY <2>1, <1>3, <1>4, <1>6
  <2>2. CASE ~(have + a >= want) /\ o + a = L /\ c >= N - 1
    <3>1. c = N - 1
      BY <2>2, <1>2
    <3>2. starts[c + 1] + (o + a) = D
      BY <3>1, <2>2, <1>5
    <3> QED BY <3>2, <2>2, <1>2, <1>4, <1>6, <1>7
  <2>3. CASE ~(have + a >= want) /\ ~(o + a = L /\ c >= N - 1)
    BY <2>3, <1>6
  <2> QED BY <2>1, <2>2, <2>3
<1>10. pos' \in Position /\ Valid(pos)' /\ Valid(checkpoint)' /\ (op # "read_ahead" => pos' = at')
  <2>1. Valid(pos) /\ Valid(checkpoint) /\ pos \in Position
    BY <1>1 DEF BufferInv, InBounds, BufferTypeOK
  <2>2. Valid(checkpoint)'
    BY <2>1, <1>1 DEF Valid, Chunk
  <2>3. CASE op = "read_ahead"
    BY <2>1, <2>2, <2>3, <1>1, <1>6 DEF Valid, Chunk
  <2>4. CASE op # "read_ahead"
    BY <2>2, <2>4, <1>6, <1>7 DEF Valid, Chunk
  <2> QED BY <2>3, <2>4
<1>11. Seen' = Seen
  <2>1. CASE op = "read_ahead"
    <3>1. pos' = pos /\ op' = op
      BY <2>1, <1>1, <1>6
    <3>2. Abs(pos)' = Abs(pos)
      BY <3>1, <1>1 DEF Abs
    <3> QED BY <2>1, <3>1, <3>2, <1>3 DEF Seen
  <2>2. CASE op # "read_ahead"
    <3>1. pos' = at' /\ op' = op /\ op \in {"advance", "read_advance"} /\ phase' # "idle"
      BY <2>2, <1>1, <1>6, <1>9 DEF Loops
    <3>2. Abs(pos)' = Abs(at)'
      BY <3>1 DEF Abs
    <3>3. Seen' = Abs(pos)' - have'
      BY <3>1 DEF Seen
    <3>4. Seen = Abs(at) - have
      BY <2>2, <1>3
    <3>5. Seen' = (Abs(at) + a) - (have + a)
      BY <3>2, <3>3, <1>6, <1>7
    <3>6. Abs(at) \in Int /\ a \in Int /\ have \in Int
      BY <1>2, <1>3, <1>4
    <3>7. (Abs(at) + a) - (have + a) = Abs(at) - have
      BY <3>6
    <3> QED BY <3>4, <3>5, <3>7
  <2> QED BY <2>1, <2>2
<1>12. /\ out' \in Seq(Byte)
       /\ op # "advance" => Len(out') = have' /\ \A j \in 1 .. have' : out'[j] = stream[Seen + j]
  <2>1. CASE op = "advance"
    BY <2>1, <1>3, <1>6
  <2>2. CASE op # "advance"
    <3> DEFINE piece == SubSeq(Chunk(at), o + 1, o + a)
    <3>1. \A i \in o + 1 .. o + a : Chunk(at)[i] \in Byte
      <4>1. \A i \in o + 1 .. o + a : i \in 1 .. L
        BY <1>2, <1>4
      <4> QED BY <4>1, <1>2 DEF L
    <3>2. o + 1 \in Int /\ o + a \in Int /\ (o + a) - (o + 1) + 1 = a /\ (o + 1 > o + a => a = 0)
      BY <1>2, <1>4
    <3>3. /\ piece \in Seq(Byte)
          /\ Len(piece) = IF o + 1 <= o + a THEN (o + a) - (o + 1) + 1 ELSE 0
          /\ \A i \in 1 .. (o + a) - (o + 1) + 1 : piece[i] = Chunk(at)[(o + 1) + i - 1]
      BY <3>1, <3>2, SubSeqProperties
    <3>4. /\ Len(piece) = a
          /\ \A i \in 1 .. a : piece[i] = Chunk(at)[o + i]
      <4>1. \A i \in 1 .. a : (o + 1) + i - 1 = o + i
        BY <1>2, <1>4
      <4>2. Len(piece) = a
        BY <3>2, <3>3, <1>2, <1>4
      <4> QED BY <4>1, <4>2, <3>2, <3>3
    <3>5. \A i \in 1 .. a : piece[i] = stream[(Seen + have) + i]
      <4> SUFFICES ASSUME NEW i \in 1 .. a PROVE piece[i] = stream[(Seen + have) + i]
        BY Zenon
      <4>1. o + i \in 1 .. L /\ starts[c + 1] + (o + i) = (starts[c + 1] + o) + i
        BY <1>2, <1>4
      <4>2. piece[i] = stream[starts[c + 1] + (o + i)]
        BY <4>1, <3>4, <1>5, Zenon
      <4>3. starts[c + 1] + o = Seen + have
        BY <1>2, <1>3
      <4> QED BY <4>1, <4>2, <4>3, Zenon
    <3> HIDE DEF piece
    <3>6. out' = out \o piece
      BY <2>2, <1>6, Zenon DEF piece
    <3>7. /\ out' \in Seq(Byte)
          /\ Len(out') = have + a
          /\ \A i \in 1 .. have + a : out'[i] = IF i <= have THEN out[i] ELSE piece[i - have]
      <4>1. /\ out \o piece \in Seq(Byte)
            /\ Len(out \o piece) = Len(out) + Len(piece)
            /\ \A i \in 1 .. Len(out) + Len(piece) :
                  (out \o piece)[i] = IF i <= Len(out) THEN out[i] ELSE piece[i - Len(out)]
        BY <3>3, <1>3, ConcatProperties
      <4>2. Len(out) = have /\ Len(piece) = a
        BY <2>2, <3>4, <1>3
      <4> QED BY <4>1, <4>2, <3>6
    <3>8. ASSUME NEW j \in 1 .. have + a
          PROVE  out'[j] = stream[Seen + j]
      <4>1. CASE j <= have
        BY <4>1, <3>7, <2>2, <1>3
      <4>2. CASE j > have
        <5>1. j - have \in 1 .. a /\ (Seen + have) + (j - have) = Seen + j
          BY <4>2, <1>3, <1>4
        <5>2. ~(j <= have)
          BY <4>2, <1>3
        <5>3. out'[j] = piece[j - have]
          BY <5>2, <3>7
        <5>4. piece[j - have] = stream[(Seen + have) + (j - have)]
          BY <5>1, <3>5
        <5> QED BY <5>1, <5>3, <5>4
      <4> QED BY <4>1, <4>2, <1>3
    <3> QED BY <3>7, <3>8, <1>6
  <2> QED BY <2>1, <2>2
<1>13. BufferTypeOK'
  BY <1>1, <1>7, <1>8, <1>9, <1>10, <1>12 DEF BufferTypeOK
<1>14. Layout'
  BY <1>1 DEF Layout
<1>15. InBounds'
  BY <1>1, <1>7, <1>10 DEF InBounds
<1>16. Abs(at)' = Seen' + have'
  <2>1. Abs(at)' = (Seen + have) + a /\ Seen' + have' = Seen + (have + a)
    BY <1>3, <1>6, <1>7, <1>11
  <2>2. Seen \in Int /\ have \in Int /\ a \in Int
    BY <1>3, <1>4
  <2>3. (Seen + have) + a = Seen + (have + a)
    BY <2>2
  <2> QED BY <2>1, <2>3
<1>17. Loop'
  BY <1>1, <1>3, <1>7, <1>8, <1>9, <1>10, <1>11, <1>12, <1>16 DEF Loop, D
<1>18. ASSUME phase' = "loop"
       PROVE  at'[1] = c + 1 /\ c + 1 < N
  <2>1. ~(have + a >= want) /\ ~(o + a = L /\ c >= N - 1)
    BY <1>18, <1>6
  <2>2. a = L - o
    BY <2>1, <1>3, <1>4
  <2>3. o + a = L /\ c < N - 1
    BY <2>1, <2>2, <1>2
  <2>4. at' = <<c + 1, 0>>
    BY <2>3, <1>6
  <2> QED BY <2>3, <2>4, <1>2
<1> QED BY <1>11, <1>13, <1>14, <1>15, <1>17, <1>18 DEF BufferInv, c, N

\* Every step keeps the invariant and is a step of the queue of bytes, or none of
\* its.
LEMMA WriteStep ==
    ASSUME BufferInv, NEW bs \in Input, Write(bs)
    PROVE  BufferInv' /\ Queue!Put(bs)
<1>1. /\ BufferTypeOK /\ Layout /\ Valid(pos) /\ Valid(checkpoint) /\ phase = "idle" /\ op = "none"
      /\ pos \in Position /\ checkpoint \in Position
  BY DEF BufferInv, InBounds, Loop, Write, BufferTypeOK
<1>2. /\ ahead' = 0 /\ stream' = stream \o bs
      /\ UNCHANGED <<pos, checkpoint, op, phase, want, have, at, out, result>>
  BY DEF Write, locals
<1>3. /\ BufferTypeOK' /\ Layout' /\ chunks' # << >>
      /\ pos[1] < Len(chunks') /\ pos[2] <= Len(chunks'[pos[1] + 1])
      /\ starts'[pos[1] + 1] + pos[2] = Abs(pos)
      /\ Len(stream') >= Len(stream)
  BY <1>1, WriteKeepsPositions
<1>4. /\ checkpoint[1] < Len(chunks') /\ checkpoint[2] <= Len(chunks'[checkpoint[1] + 1])
      /\ starts'[checkpoint[1] + 1] + checkpoint[2] = Abs(checkpoint)
  BY <1>1, WriteKeepsPositions
<1>5. Valid(pos)' /\ Valid(checkpoint)' /\ Abs(pos)' = Abs(pos) /\ Abs(checkpoint)' = Abs(checkpoint)
  BY <1>2, <1>3, <1>4 DEF Valid, Abs, Chunk
<1>6. Seen = Abs(pos) /\ Seen' = Seen
  BY <1>1, <1>2, <1>5 DEF Seen
<1>7. Abs(pos) \in Nat /\ Abs(pos) <= Len(stream) /\ Len(stream) \in Nat /\ Len(stream') \in Nat
  <2>1. Abs(pos) \in Nat /\ Abs(pos) <= Len(stream)
    BY <1>1, AbsOfValid
  <2>2. Len(stream) \in Nat
    BY <1>1 DEF BufferTypeOK
  <2>3. Len(stream') \in Nat
    BY <1>3 DEF BufferTypeOK
  <2> QED BY <2>1, <2>2, <2>3
<1>8. InBounds'
  BY <1>1, <1>2, <1>5 DEF InBounds
<1>9. Loop'
  <2>1. 0 <= Len(stream') - Seen'
    BY <1>3, <1>6, <1>7
  <2> QED BY <1>1, <1>2, <2>1 DEF Loop
<1> QED BY <1>2, <1>3, <1>5, <1>6, <1>8, <1>9 DEF BufferInv, Queue!Put

\* rollback goes back to the mark of the queue.
LEMMA RollbackStep ==
    ASSUME BufferInv, rollback
    PROVE  BufferInv' /\ Queue!Rollback
<1>1. /\ BufferTypeOK /\ Layout /\ Valid(pos) /\ Valid(checkpoint) /\ phase = "idle" /\ op = "none"
      /\ pos \in Position /\ checkpoint \in Position
  BY DEF BufferInv, InBounds, Loop, rollback, BufferTypeOK
<1>2. /\ ahead' = 0 /\ pos' = checkpoint
      /\ UNCHANGED <<chunks, checkpoint, op, phase, want, have, at, out, result, stream, starts>>
  BY DEF rollback, locals, history
<1>3. BufferTypeOK' /\ Layout'
  BY <1>1, <1>2 DEF BufferTypeOK, Layout
<1>4. Valid(pos)' /\ Valid(checkpoint)' /\ Abs(pos)' = Abs(checkpoint) /\ Abs(checkpoint)' = Abs(checkpoint)
  BY <1>1, <1>2 DEF Valid, Abs, Chunk
<1>5. Seen' = Abs(checkpoint)
  BY <1>1, <1>2, <1>4 DEF Seen
<1>6. Abs(checkpoint) \in Nat /\ Abs(checkpoint) <= Len(stream) /\ Len(stream) \in Nat
  BY <1>1, AbsOfValid DEF BufferTypeOK
<1>7. InBounds'
  BY <1>1, <1>2, <1>4 DEF InBounds
<1>8. Loop'
  <2>1. 0 <= Len(stream') - Seen'
    BY <1>2, <1>5, <1>6
  <2> QED BY <1>1, <1>2, <2>1 DEF Loop
<1> QED BY <1>2, <1>3, <1>4, <1>5, <1>7, <1>8 DEF BufferInv, Queue!Rollback

\* commit drops chunks before the position and sets the mark there: Commit of the queue.
LEMMA CommitStep ==
    ASSUME BufferInv, commit
    PROVE  BufferInv' /\ Queue!Commit
<1>1. /\ BufferTypeOK /\ Layout /\ Valid(pos) /\ phase = "idle" /\ op = "none"
      /\ ahead <= Len(stream) - Seen
  BY DEF BufferInv, InBounds, Loop, commit
<1>2. UNCHANGED <<op, phase, want, have, at, out, ahead, result, stream>>
  BY DEF commit, locals
<1>3. BufferTypeOK' /\ Layout' /\ Valid(pos)' /\ checkpoint' = pos' /\ Abs(pos)' = Abs(pos)
  BY <1>1, CommitKeepsLayout
<1>4. Valid(checkpoint)' /\ Abs(checkpoint)' = Abs(pos)
  BY <1>3 DEF Valid, Abs, Chunk
<1>5. Seen = Abs(pos) /\ Seen' = Seen
  BY <1>1, <1>2, <1>3 DEF Seen
<1>6. InBounds'
  BY <1>1, <1>2, <1>3, <1>4 DEF InBounds
<1>7. Loop'
  BY <1>1, <1>2, <1>5 DEF Loop
<1> QED BY <1>2, <1>3, <1>4, <1>5, <1>6, <1>7 DEF BufferInv, Queue!Commit

\* Starting read_ahead, read_advance or advance changes nothing the queue shows.
LEMMA BeginStep ==
    ASSUME BufferInv, NEW N \in Count, NEW o \in Loops, NEW p,
           \/ p = "loop" /\ chunks # << >>
           \/ p = "done" /\ chunks = << >> /\ o # "advance",
           o = "advance" => N <= ahead,
           Begin(o, N, p)
    PROVE  BufferInv' /\ UNCHANGED Queue!queueVars
<1>1. /\ BufferTypeOK /\ Layout /\ InBounds /\ phase = "idle" /\ op = "none"
      /\ Valid(pos) /\ Valid(checkpoint) /\ pos \in Position
      /\ ahead <= Len(stream) - Seen
  BY DEF BufferInv, InBounds, Loop, Begin, BufferTypeOK
<1>2. /\ op' = o /\ phase' = p /\ want' = N /\ have' = 0 /\ at' = pos /\ out' = << >>
      /\ UNCHANGED <<chunks, pos, checkpoint, ahead, result, stream, starts>>
  BY DEF Begin, history
<1>3. N \in Nat /\ 0 < N /\ p \in {"loop", "done"} /\ p # "idle"
  BY BufferAssumption
<1>4. BufferTypeOK' /\ Layout'
  BY <1>1, <1>2, <1>3 DEF BufferTypeOK, Layout
<1>5. /\ Valid(pos)' /\ Valid(checkpoint)' /\ Valid(at)'
      /\ Abs(pos)' = Abs(pos) /\ Abs(at)' = Abs(pos) /\ Abs(checkpoint)' = Abs(checkpoint)
  BY <1>1, <1>2 DEF Valid, Abs, Chunk
<1>6. Abs(pos) \in Nat /\ Len(stream) \in Nat
  BY <1>1, AbsOfValid DEF BufferTypeOK
<1>7. Seen = Abs(pos) /\ Seen' = Abs(pos)
  <2>1. Abs(pos) - 0 = Abs(pos)
    BY <1>6
  <2>2. Seen = Abs(pos)
    BY <1>1 DEF Seen
  <2> QED BY <2>1, <2>2, <1>2, <1>5 DEF Seen
<1>8. InBounds'
  BY <1>2, <1>5 DEF InBounds
<1>9. p = "done" => Abs(pos) = Len(stream)
  BY <1>1 DEF Abs, Layout
<1>10. Loop'
  <2>1. Abs(at)' = Seen' + have' /\ Seen' >= 0 /\ have' <= want' /\ have' < want'
    BY <1>2, <1>3, <1>5, <1>6, <1>7
  <2>2. Len(out') = have' /\ \A j \in 1 .. have' : out'[j] = stream'[Seen' + j]
    BY <1>2
  <2> QED BY <1>1, <1>2, <1>3, <1>5, <1>7, <1>9, <2>1, <2>2 DEF Loop
<1> QED BY <1>2, <1>4, <1>5, <1>7, <1>8, <1>10 DEF BufferInv, Queue!queueVars

\* A call that returns has peeked, taken or skipped as many bytes as the queue says.
LEMMA ReturnStep ==
    ASSUME BufferInv, Return
    PROVE  /\ BufferInv'
           /\ \/ Queue!Peek(want)
              \/ Queue!Take(want)
              \/ Queue!Skip(want)
<1> DEFINE S == Seen
           D == Len(stream)
<1>1. /\ BufferTypeOK /\ Layout /\ InBounds /\ phase = "done"
      /\ Valid(pos) /\ Valid(checkpoint) /\ Valid(at) /\ pos \in Position /\ at \in Position
      /\ op \in Loops /\ want \in Count
  BY DEF BufferInv, InBounds, Loop, Return, BufferTypeOK
<1>2. /\ result' = IF op = "advance" THEN result ELSE out
      /\ ahead' = CASE op = "read_ahead" -> have
                    [] op = "advance" -> ahead - have
                    [] op = "read_advance" -> 0
      /\ op' = "none" /\ phase' = "idle" /\ want' = 0 /\ have' = 0 /\ at' = <<0, 0>> /\ out' = << >>
      /\ UNCHANGED <<chunks, pos, checkpoint, stream, starts>>
  BY DEF Return, history
<1>3. /\ want \in Nat /\ have \in Nat /\ have <= want /\ ahead \in Nat
      /\ S >= 0 /\ Abs(at) = S + have
      /\ have = want \/ Abs(at) = D
      /\ op = "advance" => want <= ahead
      /\ ahead <= D - S
      /\ op # "read_ahead" => pos = at
      /\ out \in Seq(Byte) /\ stream \in Seq(Byte) /\ result \in Seq(Byte)
      /\ op # "advance" => Len(out) = have /\ \A j \in 1 .. have : out[j] = stream[S + j]
  BY <1>1 DEF BufferInv, Loop, BufferTypeOK
<1>4. Abs(at) \in Nat /\ Abs(at) <= D /\ Abs(pos) \in Nat /\ Abs(pos) <= D /\ D \in Nat
  BY <1>1, <1>3, AbsOfValid
<1>5. S \in Nat /\ S = IF op = "read_ahead" THEN Abs(pos) ELSE Abs(pos) - have
  <2>1. S = IF op = "read_ahead" THEN Abs(pos) ELSE Abs(pos) - have
    BY <1>1 DEF Seen, Loops
  <2>2. S \in Int
    BY <2>1, <1>3, <1>4
  <2> QED BY <2>1, <2>2, <1>3
<1>6. Seen' = Abs(pos) /\ Abs(pos)' = Abs(pos) /\ Abs(checkpoint)' = Abs(checkpoint)
  BY <1>2 DEF Seen, Abs
<1> HIDE DEF S, D
<1>7. /\ S \in Nat /\ D \in Nat /\ have \in Nat /\ want \in Nat /\ ahead \in Nat
      /\ have <= want /\ ahead <= D - S
      /\ S + have <= D /\ (have = want \/ S + have = D)
  BY <1>3, <1>4, <1>5
<1>8. have = IF want < D - S THEN want ELSE D - S
  <2>1. CASE have = want
    BY <2>1, <1>7
  <2>2. CASE S + have = D
    BY <2>2, <1>7
  <2> QED BY <2>1, <2>2, <1>7
<1>9. op # "advance" => out = SubSeq(stream, S + 1, S + have)
  <2> SUFFICES ASSUME op # "advance" PROVE out = SubSeq(stream, S + 1, S + have)
    OBVIOUS
  <2> DEFINE t == SubSeq(stream, S + 1, S + have)
  <2>1. \A i \in S + 1 .. S + have : stream[i] \in Byte
    <3>1. \A i \in S + 1 .. S + have : i \in 1 .. D
      BY <1>7
    <3> QED BY <3>1, <1>3 DEF D
  <2>2. S + 1 \in Int /\ S + have \in Int /\ (S + have) - (S + 1) + 1 = have /\ (S + 1 > S + have => have = 0)
    BY <1>7
  <2>3. /\ t \in Seq(Byte)
        /\ Len(t) = IF S + 1 <= S + have THEN (S + have) - (S + 1) + 1 ELSE 0
        /\ \A i \in 1 .. (S + have) - (S + 1) + 1 : t[i] = stream[(S + 1) + i - 1]
    BY <2>1, <2>2, SubSeqProperties
  <2>4. Len(t) = have /\ \A i \in 1 .. have : t[i] = stream[S + i]
    <3>1. \A i \in 1 .. have : (S + 1) + i - 1 = S + i
      BY <1>7
    <3>2. Len(t) = have
      BY <2>2, <2>3, <1>7
    <3> QED BY <3>1, <3>2, <2>2, <2>3
  <2> HIDE DEF t
  <2>5. Len(out) = Len(t) /\ \A i \in 1 .. Len(out) : out[i] = t[i]
    BY <1>3, <2>4
  <2>6. out = t
    BY <1>3, <2>3, <2>5, SeqEqual
  <2> QED BY <2>6 DEF t
<1>10. Queue!Least(want, D - S) = have
  BY <1>8 DEF Queue!Least
<1>11. op # "advance" => out = Queue!Unread(want)
  BY <1>9, <1>10 DEF Queue!Unread, S, D
<1>12. ahead' \in Nat /\ ahead' <= D - Seen' /\ result' \in Seq(Byte)
  <2>1. CASE op = "read_ahead"
    BY <2>1, <1>2, <1>3, <1>4, <1>5, <1>6, <1>7
  <2>2. CASE op = "advance"
    <3>1. ahead' = ahead - have /\ Seen' = S + have /\ have <= ahead
      BY <2>2, <1>2, <1>3, <1>6
    <3>2. ahead - have \in Nat /\ ahead - have <= D - (S + have)
      <4>1. have <= ahead
        BY <3>1
      <4> QED BY <4>1, <1>7
    <3> QED BY <2>2, <3>1, <3>2, <1>2, <1>3
  <2>3. CASE op = "read_advance"
    BY <2>3, <1>2, <1>3, <1>4, <1>6
  <2> QED BY <1>1, <2>1, <2>2, <2>3 DEF Loops
<1>13. BufferTypeOK' /\ Layout'
  <2>1. BufferTypeOK'
    <3>1. at' \in Position /\ out' \in Seq(Byte) /\ want' \in Nat /\ have' \in Nat
      BY <1>2 DEF Position
    <3> QED BY <3>1, <1>1, <1>2, <1>12, Zenon DEF BufferTypeOK
  <2> QED BY <2>1, <1>1, <1>2 DEF Layout
<1>14. InBounds'
  BY <1>1, <1>2 DEF InBounds, Valid, Chunk
<1>15. Loop'
  BY <1>2, <1>12, Zenon DEF Loop, D
<1>16. CASE op = "read_ahead"
  <2>1. Queue!Peek(want)
    BY <1>16, <1>2, <1>5, <1>6, <1>11 DEF Queue!Peek, S
  <2> QED BY <2>1, <1>13, <1>14, <1>15 DEF BufferInv
<1>17. CASE op = "read_advance"
  <2>1. Seen' = Seen + have
    BY <1>17, <1>3, <1>6 DEF S
  <2>2. Queue!Take(want)
    BY <1>17, <2>1, <1>2, <1>6, <1>10, <1>11 DEF Queue!Take, S, D
  <2> QED BY <2>2, <1>13, <1>14, <1>15 DEF BufferInv
<1>18. CASE op = "advance"
  <2>1. Seen' = Seen + have
    BY <1>18, <1>3, <1>6 DEF S
  <2>2. have = want /\ want <= D - S
    BY <1>18, <1>3, <1>4, <1>5, <1>7
  <2>3. Queue!Skip(want)
    BY <1>18, <2>1, <2>2, <1>2, <1>6 DEF Queue!Skip, S, D
  <2> QED BY <2>3, <1>13, <1>14, <1>15 DEF BufferInv
<1> QED BY <1>1, <1>16, <1>17, <1>18 DEF Loops

\* Every step of the buffer keeps the invariant and is a step of the queue.
LEMMA BufferStep ==
    ASSUME BufferInv, [BufferNext]_bufferVars
    PROVE  BufferInv' /\ [Queue!QueueNext]_(Queue!queueVars)
<1>1. ASSUME NEW bs \in Input, Write(bs)
      PROVE  BufferInv' /\ [Queue!QueueNext]_(Queue!queueVars)
  BY <1>1, WriteStep DEF Queue!QueueNext
<1>2. ASSUME NEW N \in Count, read_ahead(N)
      PROVE  BufferInv' /\ [Queue!QueueNext]_(Queue!queueVars)
  <2>1. "read_ahead" \in Loops /\ "read_ahead" # "advance"
    BY DEF Loops
  <2>2. BufferInv' /\ UNCHANGED Queue!queueVars
    <3>1. CASE chunks = << >>
      <4>1. Begin("read_ahead", N, "done")
        BY <1>2, <3>1 DEF read_ahead
      <4> QED BY <3>1, <4>1, <2>1, BeginStep
    <3>2. CASE chunks # << >>
      <4>1. Begin("read_ahead", N, "loop")
        BY <1>2, <3>2 DEF read_ahead
      <4> QED BY <3>2, <4>1, <2>1, BeginStep
    <3> QED BY <3>1, <3>2
  <2> QED BY <2>2
<1>3. ASSUME NEW N \in Count, read_advance(N)
      PROVE  BufferInv' /\ [Queue!QueueNext]_(Queue!queueVars)
  <2>1. "read_advance" \in Loops /\ "read_advance" # "advance"
    BY DEF Loops
  <2>2. BufferInv' /\ UNCHANGED Queue!queueVars
    <3>1. CASE chunks = << >>
      <4>1. Begin("read_advance", N, "done")
        BY <1>3, <3>1 DEF read_advance
      <4> QED BY <3>1, <4>1, <2>1, BeginStep
    <3>2. CASE chunks # << >>
      <4>1. Begin("read_advance", N, "loop")
        BY <1>3, <3>2 DEF read_advance
      <4> QED BY <3>2, <4>1, <2>1, BeginStep
    <3> QED BY <3>1, <3>2
  <2> QED BY <2>2
<1>4. ASSUME NEW N \in Count, advance(N)
      PROVE  BufferInv' /\ [Queue!QueueNext]_(Queue!queueVars)
  <2>1. chunks # << >>
    <3> SUFFICES ASSUME chunks = << >> PROVE FALSE
      OBVIOUS
    <3>1. ahead <= Len(stream) - Seen /\ Len(stream) = 0 /\ phase = "idle"
      BY <1>4 DEF BufferInv, Loop, Layout, advance, Begin
    <3>2. Seen = 0
      BY <3>1 DEF Seen, Abs
    <3>3. N \in Nat /\ 0 < N /\ N <= ahead /\ ahead \in Nat
      BY <1>4, BufferAssumption DEF advance, BufferInv, BufferTypeOK
    <3> QED BY <3>1, <3>2, <3>3
  <2>2. "advance" \in Loops /\ N <= ahead /\ Begin("advance", N, "loop")
    BY <1>4 DEF Loops, advance
  <2>3. BufferInv' /\ UNCHANGED Queue!queueVars
    BY <2>1, <2>2, BeginStep
  <2> QED BY <2>3
<1>5. CASE Iterate
  <2>1. BufferInv' /\ Seen' = Seen
    BY <1>5, IterateKeepsLoop
  <2>2. Abs(checkpoint)' = Abs(checkpoint)
    BY <1>5 DEF Iterate, Abs, history
  <2>3. UNCHANGED <<stream, result>>
    BY <1>5 DEF Iterate, history
  <2> QED BY <2>1, <2>2, <2>3 DEF Queue!queueVars
<1>6. CASE Return
  <2>1. want \in Count
    BY <1>6 DEF BufferInv, Loop, Return
  <2> QED BY <1>6, <2>1, ReturnStep DEF Queue!QueueNext
<1>7. CASE rollback
  BY <1>7, RollbackStep DEF Queue!QueueNext
<1>8. CASE commit
  BY <1>8, CommitStep DEF Queue!QueueNext
<1>9. CASE UNCHANGED bufferVars
  <2>1. UNCHANGED <<chunks, pos, checkpoint, op, phase, want, have, at, out, ahead, result, stream, starts>>
    BY <1>9 DEF bufferVars, locals, history
  <2>2. BufferTypeOK' /\ Layout' /\ InBounds'
    BY <2>1 DEF BufferInv, BufferTypeOK, Layout, InBounds, Valid, Chunk
  <2>3. Abs(pos)' = Abs(pos) /\ Abs(checkpoint)' = Abs(checkpoint) /\ Abs(at)' = Abs(at) /\ Seen' = Seen
    BY <2>1 DEF Abs, Seen
  <2>4. Valid(at)' = Valid(at)
    BY <2>1 DEF Valid, Chunk
  <2>5. Loop'
    BY <2>1, <2>3, <2>4 DEF BufferInv, Loop
  <2> QED BY <2>1, <2>2, <2>3, <2>5 DEF BufferInv, Queue!queueVars
<1> QED BY <1>1, <1>2, <1>3, <1>4, <1>5, <1>6, <1>7, <1>8, <1>9 DEF BufferNext

-----------------------------------------------------------------------------
(***************************************************************************)
(* The theorems.                                                           *)
(***************************************************************************)

\* The inductive invariant holds throughout, whatever is written, read, committed
\* and rolled back.
THEOREM BufferInvariance == BufferSafety => []BufferInv
<1>1. BufferInit => BufferInv
  BY InitBufferInv
<1>2. BufferInv /\ [BufferNext]_bufferVars => BufferInv'
  BY BufferStep
<1> QED BY <1>1, <1>2, PTL DEF BufferSafety

\* For any chunk size and any calls, Buffer never indexes a chunk that is not
\* there nor an offset beyond a chunk's end (no panic in the three loops).
THEOREM BufferStaysInBounds == BufferSafety => []InBounds
<1>1. BufferInv => InBounds
  BY DEF BufferInv
<1> QED BY <1>1, BufferInvariance, PTL

\* advance moves by exactly what event_processor's socket write took, which drops
\* its result.
THEOREM AdvanceMovesExactly == BufferSafety => []AdvanceIsExact
<1>1. BufferInv => AdvanceIsExact
  <2> SUFFICES ASSUME BufferInv, op = "advance", phase = "done" PROVE have = want
    BY DEF AdvanceIsExact
  <2>1. /\ want \in Nat /\ have \in Nat /\ ahead \in Nat /\ Len(stream) \in Nat
        /\ have <= want /\ want <= ahead /\ ahead <= Len(stream) - Seen
        /\ Abs(at) = Seen + have /\ (have = want \/ Abs(at) = Len(stream))
    BY DEF BufferInv, Loop, BufferTypeOK
  <2>2. Valid(pos) /\ pos \in Position /\ BufferTypeOK /\ Layout
    BY DEF BufferInv, InBounds, BufferTypeOK
  <2>3. Seen \in Int
    BY <2>1, <2>2, AbsOfValid DEF Seen
  <2> QED BY <2>1, <2>3
<1> QED BY <1>1, BufferInvariance, PTL

\* A loop of read_ahead, advance or read_advance that goes on has reached the end of
\* a chunk and moved to one that exists, for any chunk size and any calls: a call
\* takes one iteration per chunk at most.
THEOREM LoopsLeaveTheirChunk == BufferSafety => LoopsMoveOn
<1>1. ASSUME BufferInv, [BufferNext]_bufferVars
      PROVE  [phase = "loop" /\ phase' = "loop" =>
                 at'[1] = at[1] + 1 /\ at'[1] < Len(chunks)]_bufferVars
  <2> SUFFICES ASSUME BufferNext, phase = "loop", phase' = "loop"
               PROVE  at'[1] = at[1] + 1 /\ at'[1] < Len(chunks)
    BY <1>1
  <2>1. Iterate
    BY DEF BufferNext, Write, read_ahead, advance, read_advance, Begin, Return, rollback, commit
  <2> QED BY <2>1, <1>1, IterateKeepsLoop
<1> QED BY <1>1, BufferInvariance, PTL DEF BufferSafety, LoopsMoveOn

\* The chunked buffer implements the queue of bytes: what read_ahead and
\* read_advance return, how far a read moves, and what commit and rollback mean,
\* do not depend on how the bytes are spread over chunks.
THEOREM BufferImplementsByteQueue == BufferSafety => IsByteQueue
<1>1. BufferInit => Queue!QueueInit
  BY DEF BufferInit, Queue!QueueInit, Seen, Abs
<1>2. BufferInv /\ [BufferNext]_bufferVars => [Queue!QueueNext]_(Queue!queueVars)
  BY BufferStep
<1> QED BY <1>1, <1>2, BufferInvariance, PTL DEF BufferSafety, IsByteQueue, Queue!QueueSpec
==============================================================================
