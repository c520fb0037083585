--------------------------- MODULE ChainDB_proofs ---------------------------
(***************************************************************************)
(* Theorems about ChainDB, for every tree of headers, every scale of the   *)
(* arithmetic and every length of a chain.                                 *)
(***************************************************************************)
EXTENDS ChainDBInvariant, WellFoundedInduction, TLAPS


-----------------------------------------------------------------------------
(***************************************************************************)
(* Facts about numbers and sequences.                                      *)
(***************************************************************************)

\* A set of natural numbers that is not empty has a least element.
LEMMA LeastNat ==
    ASSUME NEW S \in SUBSET Nat, S # {}
    PROVE  \E m \in S : \A k \in S : m <= k
<1> DEFINE R == OpToRel(<, Nat)
<1>1. IsWellFoundedOn(R, Nat)
  BY NatLessThanWellFounded, Zenon
<1>2. \A x, y \in Nat : y < x => <<y, x>> \in R
  BY DEF R, OpToRel
<1> HIDE DEF R
<1>3. PICK x \in S : \A y \in S : ~ (<<y, x>> \in R)
  BY <1>1, WFMin, Zenon
<1>4. \A k \in S : ~(k < x)
  BY <1>2, <1>3, Zenon
<1>5. \A k \in S : x <= k
  BY <1>4
<1> QED BY <1>5

\* Max, which is defined by CHOOSE, is the greatest element of a bounded set.
LEMMA MaxNat ==
    ASSUME NEW n \in Nat, NEW S \in SUBSET (0 .. n), S # {}
    PROVE  Max(S) \in S /\ \A k \in S : k <= Max(S)
<1> DEFINE T == {n - x : x \in S}
<1>1. T \in SUBSET Nat
  <2> SUFFICES ASSUME NEW x \in S PROVE n - x \in Nat
    BY DEF T
  <2>1. x \in 0 .. n
    OBVIOUS
  <2> QED BY <2>1
<1>2. T # {}
  BY Zenon
<1>3. PICK m \in T : \A k \in T : m <= k
  <2> HIDE DEF T
  <2> QED BY <1>1, <1>2, LeastNat
<1>4. PICK x \in S : m = n - x
  BY <1>3
<1>5. \A k \in S : x >= k
  BY <1>3, <1>4
<1> QED BY <1>5, Zenon DEF Max

\* Min of a set of naturals that is not empty is its least element.
LEMMA MinNat ==
    ASSUME NEW S \in SUBSET Nat, S # {}
    PROVE  Min(S) \in S /\ \A k \in S : Min(S) <= k
BY LeastNat, Zenon DEF Min

\* A sequence is a function on 1 .. Len(s), and such a function is a sequence.
LEMMA SeqIsFunction ==
    ASSUME NEW S
    PROVE  /\ \A s \in Seq(S) : Len(s) \in Nat /\ DOMAIN s = 1 .. Len(s) /\ s \in [1 .. Len(s) -> S]
           /\ \A n \in Nat : \A s \in [1 .. n -> S] : s \in Seq(S) /\ Len(s) = n
OBVIOUS

\* The elements of a sequence.
LEMMA SeqElement ==
    ASSUME NEW S, NEW s \in Seq(S), NEW i \in 1 .. Len(s)
    PROVE  s[i] \in S
OBVIOUS

\* Only the empty sequence has length 0.
LEMMA EmptySeq ==
    ASSUME NEW S
    PROVE  <<>> \in Seq(S) /\ Len(<<>>) = 0 /\ \A s \in Seq(S) : s # <<>> => Len(s) \in Nat \ {0}
OBVIOUS

\* A sequence over a set is one over any larger set.
LEMMA SeqGrows ==
    ASSUME NEW S, NEW T, S \subseteq T, NEW s \in Seq(S)
    PROVE  s \in Seq(T)
OBVIOUS

\* Head and tail of a sequence that is not empty.
LEMMA HeadTail ==
    ASSUME NEW S, NEW s \in Seq(S), s # <<>>
    PROVE  /\ Head(s) \in S /\ Tail(s) \in Seq(S) /\ Len(Tail(s)) = Len(s) - 1
           /\ \A i \in 1 .. Len(Tail(s)) : Tail(s)[i] = s[i + 1]
OBVIOUS

\* What Append adds.
LEMMA Appended ==
    ASSUME NEW S, NEW s \in Seq(S), NEW e \in S
    PROVE  /\ Append(s, e) \in Seq(S) /\ Append(s, e) # <<>> /\ Len(Append(s, e)) = Len(s) + 1
           /\ \A i \in 1 .. Len(s) : Append(s, e)[i] = s[i]
           /\ Append(s, e)[Len(s) + 1] = e
OBVIOUS

\* A part of a sequence.
LEMMA PartOfSeq ==
    ASSUME NEW S, NEW s, NEW m \in Int, NEW n \in Int, \A i \in m .. n : s[i] \in S
    PROVE  /\ SubSeq(s, m, n) \in Seq(S)
           /\ Len(SubSeq(s, m, n)) = IF m <= n THEN n - m + 1 ELSE 0
           /\ \A i \in 1 .. n - m + 1 : SubSeq(s, m, n)[i] = s[m + i - 1]
OBVIOUS

\* Two sequences, one after the other.
LEMMA Joined ==
    ASSUME NEW S, NEW s \in Seq(S), NEW t \in Seq(S)
    PROVE  /\ s \o t \in Seq(S) /\ Len(s \o t) = Len(s) + Len(t)
           /\ \A i \in 1 .. Len(s) + Len(t) : (s \o t)[i] = IF i <= Len(s) THEN s[i] ELSE t[i - Len(s)]
OBVIOUS

\* The range of a sequence.
LEMMA RangeOfSeq ==
    ASSUME NEW S, NEW s \in Seq(S)
    PROVE  /\ Range(s) = {s[i] : i \in 1 .. Len(s)}
           /\ Range(s) \subseteq S /\ s \in Seq(Range(s))
BY DEF Range

\* Appending adds one element to the range.
LEMMA RangeAppend ==
    ASSUME NEW S, NEW s \in Seq(S), NEW e
    PROVE  Range(Append(s, e)) = Range(s) \cup {e}
<1> DEFINE T == S \cup {e}
           n == Len(s)
<1>1. s \in Seq(T) /\ e \in T
  BY SeqGrows
<1> HIDE DEF T
<1>2. /\ n \in Nat /\ Append(s, e) \in Seq(T) /\ Len(Append(s, e)) = n + 1
      /\ \A i \in 1 .. n : Append(s, e)[i] = s[i]
      /\ Append(s, e)[n + 1] = e
  BY <1>1, Appended
<1>3. Range(s) = {s[i] : i \in 1 .. n} /\ Range(Append(s, e)) = {Append(s, e)[i] : i \in 1 .. n + 1}
  BY <1>1, <1>2, RangeOfSeq, Zenon
<1>4. 1 .. n + 1 = (1 .. n) \cup {n + 1}
  BY <1>2
<1> QED BY <1>2, <1>3, <1>4

\* Reverse keeps the elements of a sequence.
LEMMA ReverseProperties ==
    ASSUME NEW S, NEW s \in Seq(S)
    PROVE  /\ Reverse(s) \in Seq(S)
           /\ Len(Reverse(s)) = Len(s)
           /\ \A i \in 1 .. Len(s) : Reverse(s)[i] = s[(Len(s) - i) + 1]
<1> DEFINE n == Len(s)
<1>1. n \in Nat /\ s \in [1 .. n -> S]
  BY SeqIsFunction
<1>2. \A i \in 1 .. n : (n - i) + 1 \in 1 .. n
  BY <1>1
<1>3. Reverse(s) \in [1 .. n -> S]
  BY <1>1, <1>2 DEF Reverse
<1>4. Reverse(s) \in Seq(S)
  BY <1>1, <1>3, SeqIsFunction
<1>5. Len(Reverse(s)) = n
  BY <1>1, <1>3, <1>4, SeqIsFunction
<1> QED BY <1>4, <1>5 DEF Reverse

-----------------------------------------------------------------------------
(***************************************************************************)
(* Facts about the walks of the code.                                      *)
(***************************************************************************)

\* A chain is a sequence of headers that is not empty.
LEMMA ChainProperties ==
    ASSUME NEW c \in Chains
    PROVE  /\ c \in Seq(Hash)
           /\ Len(c) \in 1 .. MaxChain
           /\ Linked(c)
           /\ c # <<>>
<1>1. PICK n \in 1 .. MaxChain : c \in [1 .. n -> Hash] /\ Linked(c)
  BY DEF Chains
<1>2. n \in Nat
  BY PeriodAssumption
<1>3. c \in Seq(Hash)
  BY <1>1, <1>2, SeqIsFunction
<1>4. Len(c) = n
  BY <1>1, <1>2, <1>3, SeqIsFunction
<1>5. c # <<>>
  BY <1>1, <1>4, EmptySeq, PeriodAssumption
<1> QED BY <1>1, <1>3, <1>4, <1>5

\* pos_on_trunk finds a header that is on the trunk.
LEMMA PosOnTrunk ==
    ASSUME NEW S, trunk \in Seq(S), NEW h, OnTrunk(h)
    PROVE  pos_on_trunk(h) \in 1 .. Len(trunk) /\ trunk[pos_on_trunk(h)] = h
<1> DEFINE I == {i \in 1 .. Len(trunk) : trunk[i] = h}
<1>1. Len(trunk) \in Nat /\ DOMAIN trunk = 1 .. Len(trunk)
  BY SeqIsFunction
<1>2. I # {}
  BY <1>1 DEF OnTrunk, Range
<1>3. I \in SUBSET (0 .. Len(trunk))
  BY <1>1
<1>4. Max(I) \in I
  <2> HIDE DEF I
  <2> QED BY <1>1, <1>2, <1>3, MaxNat, Zenon
<1>5. pos_on_trunk(h) = Max(I)
  BY DEF pos_on_trunk
<1> QED BY <1>4, <1>5

-----------------------------------------------------------------------------
(***************************************************************************)
(* Type correctness.  It holds whatever headers exist and whether or not   *)
(* puts fail.                                                              *)
(***************************************************************************)

CacheOK ==
    /\ Known \subseteq Hash
    /\ headers \in [Known -> StoredHeader]
    /\ trunk \in Seq(Known)

\* What Insert does to the cache.
LEMMA InsertProperties ==
    ASSUME CacheOK, NEW h \in Hash, NEW s \in StoredHeader, Insert(h, s)
    PROVE  /\ Known' = Known \cup {h}
           /\ headers' \in [Known' -> StoredHeader]
           /\ headers'[h] = s
           /\ \A x \in Known : x # h => headers'[x] = headers[x]
           /\ trunk \in Seq(Known')
<1>1. /\ Known' = Known \cup {h}
      /\ headers' \in [Known' -> StoredHeader]
      /\ headers'[h] = s
      /\ \A x \in Known : x # h => headers'[x] = headers[x]
  BY DEF CacheOK, Insert, Known
<1>2. trunk \in Seq(Known')
  <2> DEFINE K == Known \cup {h}
  <2>1. Known \subseteq K /\ trunk \in Seq(Known)
    BY DEF CacheOK
  <2>2. trunk \in Seq(K)
    <3> HIDE DEF K
    <3> QED BY <2>1, SeqGrows
  <2> QED BY <1>1, <2>2
<1> QED BY <1>1, <1>2

\* The record of a header that passed validation.
LEMMA AcceptProperties ==
    ASSUME CacheOK, NEW h \in Hash, Accept(h)
    PROVE  /\ h \notin Known
           /\ Prev(h) \in Known
           /\ stored_header(h) \in StoredHeader
           /\ total_work(h) \in 0 .. MAX_WORK - 1
           /\ Insert(h, stored_header(h))
<1>1. h \notin Known /\ Prev(h) \in Known /\ total_work(h) < MAX_WORK
  BY DEF Accept, Validated, Connects
<1>2. headers[Prev(h)] \in StoredHeader
  BY <1>1 DEF CacheOK
<1>3. HeaderWork(h) \in Nat /\ MAX_WORK \in Nat
  BY WorkAssumption, DifficultyAssumption
<1>4. total_work(h) \in 0 .. MAX_WORK - 1
  BY <1>1, <1>2, <1>3 DEF total_work, StoredHeader
<1>5. stored_header(h) \in StoredHeader
  BY <1>2, <1>4, KeptWorkAssumption DEF stored_header, StoredHeader, RoundWork
<1> QED BY <1>1, <1>4, <1>5 DEF Accept

\* The trunk after a reorganisation.
LEMMA ReorgTrunk ==
    ASSUME CacheOK, NEW h \in Hash, AddReorg(h)
    PROVE  /\ trunk' \in Seq(Known \cup {h})
           /\ trunk' # <<>>
           /\ Last(trunk') = h
           /\ trunk'[1] = trunk[1]
<1> DEFINE K == Known \cup {h}
<1>1. PICK c \in PathsToTrunk(h) :
         trunk' = SubSeq(trunk, 1, pos_on_trunk(Last(c))) \o path_to_new_tip(c, h)
  BY Zenon DEF AddReorg
<1>2. /\ c \in Chains
      /\ \A i \in 1 .. Len(c) - 1 : c[i] \in Known
      /\ OnTrunk(Last(c))
  BY <1>1 DEF PathsToTrunk
<1> DEFINE p == pos_on_trunk(Last(c))
           s == SubSeq(trunk, 1, p)
<1>3. trunk \in Seq(Known) /\ Len(trunk) \in Nat /\ \A i \in 1 .. Len(trunk) : trunk[i] \in Known
  BY SeqIsFunction, SeqElement DEF CacheOK
<1>4. p \in 1 .. Len(trunk) /\ trunk[p] = Last(c)
  BY <1>2, <1>3, PosOnTrunk
<1>5. Last(c) \in Known
  BY <1>3, <1>4
<1>6. c \in Seq(Hash) /\ Len(c) \in Nat /\ Len(c) >= 1 /\ c # <<>>
  BY <1>2, ChainProperties, PeriodAssumption
<1>7. \A i \in 1 .. Len(c) : c[i] \in K
  BY <1>2, <1>5, <1>6 DEF Last
<1>8. s \in Seq(K) /\ Len(s) = p /\ \A i \in 1 .. p : s[i] = trunk[i]
  <2>1. p \in Int /\ \A i \in 1 .. p : trunk[i] \in K
    BY <1>3, <1>4
  <2> HIDE DEF p, K
  <2>2. /\ s \in Seq(K)
        /\ Len(s) = IF 1 <= p THEN p - 1 + 1 ELSE 0
        /\ \A i \in 1 .. p - 1 + 1 : s[i] = trunk[1 + i - 1]
    BY <2>1, PartOfSeq
  <2> QED BY <1>3, <1>4, <2>2
<1> DEFINE t == Tail(c)
           r == Reverse(t)
<1>9. t \in Seq(K)
  <2>1. t = SubSeq(c, 2, Len(c))
    BY <1>6
  <2>2. \A i \in 2 .. Len(c) : c[i] \in K
    BY <1>6, <1>7
  <2> DEFINE n == Len(c)
  <2>3. n \in Int /\ \A i \in 2 .. n : c[i] \in K
    BY <1>6, <2>2
  <2> HIDE DEF K, n
  <2>4. SubSeq(c, 2, n) \in Seq(K)
    BY <2>3, PartOfSeq
  <2> QED BY <2>1, <2>4, Zenon DEF n
<1>10. r \in Seq(K)
  <2> HIDE DEF K, t
  <2> QED BY <1>9, ReverseProperties
<1> DEFINE a == Append(r, h)
<1>11. /\ a \in Seq(K)
       /\ Len(a) = Len(r) + 1
       /\ a[Len(r) + 1] = h
       /\ Len(r) \in Nat
  <2>1. h \in K
    OBVIOUS
  <2> HIDE DEF K, r
  <2> QED BY <1>10, <2>1, Appended, SeqIsFunction
<1>12. trunk' = s \o a
  BY <1>1 DEF path_to_new_tip
<1> HIDE DEF K, s, a, p, r, t
<1>13. /\ s \o a \in Seq(K)
       /\ Len(s \o a) = Len(s) + Len(a)
       /\ \A i \in 1 .. Len(s) + Len(a) :
             (s \o a)[i] = IF i <= Len(s) THEN s[i] ELSE a[i - Len(s)]
  BY <1>8, <1>11, Joined, Zenon
<1>14. Len(s) = p /\ p \in Nat /\ p >= 1
  BY <1>3, <1>4, <1>8
<1>15. trunk' # <<>>
  BY <1>11, <1>12, <1>13, <1>14, EmptySeq
<1>16. Last(trunk') = h
  BY <1>11, <1>12, <1>13, <1>14 DEF Last
<1>17. trunk'[1] = trunk[1]
  BY <1>8, <1>11, <1>12, <1>13, <1>14
<1> QED BY <1>12, <1>13, <1>15, <1>16, <1>17 DEF K

\* Every action that adds a header keeps the types of the cache.
LEMMA AddTypes ==
    ASSUME CacheOK, NEW h \in Hash,
           AddSide(h) \/ AddPathLost(h) \/ MovesTip(h)
    PROVE  /\ CacheOK'
           /\ Known' = Known \cup {h}
           /\ headers'[h] \in StoredHeader
           /\ trunk # <<>> => trunk' # <<>>
<1>1. CASE AddSide(h) \/ AddPathLost(h)
  <2>1. Accept(h) /\ trunk' = trunk
    BY <1>1 DEF AddSide, AddPathLost
  <2>2. Insert(h, stored_header(h)) /\ stored_header(h) \in StoredHeader
    BY <2>1, AcceptProperties
  <2> QED BY <2>1, <2>2, InsertProperties DEF CacheOK
<1>2. CASE AddExtend(h)
  <2>1. Accept(h) /\ trunk' = Append(trunk, h)
    BY <1>2 DEF AddExtend
  <2>2. Insert(h, stored_header(h)) /\ stored_header(h) \in StoredHeader
    BY <2>1, AcceptProperties
  <2>3. trunk \in Seq(Known') /\ h \in Known' /\ Known' = Known \cup {h}
    BY <2>2, InsertProperties
  <2>4. trunk' \in Seq(Known') /\ trunk' # <<>>
    BY <2>1, <2>3, Appended
  <2> QED BY <2>2, <2>3, <2>4, InsertProperties, Zenon DEF CacheOK
<1>3. CASE InsertGenesis(h)
  <2> DEFINE s == [height |-> 0, log2work |-> RoundWork(HeaderWork(h))]
  <2>1. HeaderWork(h) \in 0 .. MAX_WORK - 1
    BY <1>3, WorkAssumption, DifficultyAssumption DEF InsertGenesis
  <2>2. Insert(h, s) /\ s \in StoredHeader /\ trunk' = Append(trunk, h)
    BY <1>3, <2>1, KeptWorkAssumption DEF InsertGenesis, StoredHeader, RoundWork
  <2> HIDE DEF s
  <2>3. trunk \in Seq(Known') /\ h \in Known' /\ Known' = Known \cup {h}
    BY <2>2, InsertProperties
  <2>4. trunk' \in Seq(Known') /\ trunk' # <<>>
    BY <2>2, <2>3, Appended
  <2> QED BY <2>2, <2>3, <2>4, InsertProperties, Zenon DEF CacheOK
<1>4. CASE AddReorg(h)
  <2>1. Accept(h)
    BY <1>4 DEF AddReorg
  <2>2. Insert(h, stored_header(h)) /\ stored_header(h) \in StoredHeader
    BY <2>1, AcceptProperties
  <2>3. Known' = Known \cup {h}
    BY <2>2, InsertProperties
  <2>4. trunk' \in Seq(Known') /\ trunk' # <<>>
    BY <1>4, <2>3, ReorgTrunk
  <2> QED BY <2>2, <2>3, <2>4, InsertProperties, Zenon DEF CacheOK
<1> QED BY <1>1, <1>2, <1>3, <1>4 DEF MovesTip

\* Put adds a header to the store.
LEMMA PutAdds ==
    ASSUME NEW h, NEW s, NEW tip, Put(h, s, tip)
    PROVE  DOMAIN db'.headers = DOMAIN db.headers \cup {h}
BY DEF Put

\* Put keeps the type of the store.
LEMMA PutTypes ==
    ASSUME IsStore(db), NEW h \in Hash, NEW s \in StoredHeader,
           NEW tip \in Hash \cup {NoHash}, Put(h, s, tip)
    PROVE  IsStore(db')
BY DEF IsStore, Put

\* The headers loaded from the store are the trunk.
LEMMA LoadTypes ==
    ASSUME IsStore(db), LoadHeaders
    PROVE  CacheOK' /\ trunk' # <<>>
<1>1. PICK c \in StoredChains :
         trunk' = Reverse(c) /\ headers' = [h \in Range(c) |-> db.headers[h]]
  BY DEF LoadHeaders
<1>2. c \in Chains /\ \A i \in 1 .. Len(c) : c[i] \in DOMAIN db.headers
  BY <1>1 DEF StoredChains
<1>3. c \in Seq(Hash) /\ Len(c) \in Nat /\ Len(c) >= 1
  BY <1>2, ChainProperties, PeriodAssumption
<1>4. Range(c) = {c[i] : i \in 1 .. Len(c)} /\ c \in Seq(Range(c))
  BY <1>3, RangeOfSeq
<1>5. Range(c) \subseteq DOMAIN db.headers
  BY <1>2, <1>4
<1>6. Known' = Range(c)
  BY <1>1 DEF Known
<1>7. trunk' \in Seq(Known') /\ Len(trunk') = Len(c)
  BY <1>1, <1>4, <1>6, ReverseProperties
<1>8. trunk' # <<>>
  BY <1>3, <1>7, EmptySeq
<1>9. Known' \subseteq Hash /\ headers' \in [Known' -> StoredHeader]
  BY <1>1, <1>5, <1>6 DEF IsStore
<1> QED BY <1>7, <1>8, <1>9 DEF CacheOK

\* No step of ChainDB breaks the types.
LEMMA TypesKept ==
    ASSUME TypeOK, [Next]_chainVars
    PROVE  TypeOK'
<1>0. CacheOK /\ IsStore(db) /\ IsStore(disk) /\ (trunk = <<>> <=> phase = "down")
  BY DEF TypeOK, CacheOK
<1> DEFINE Goal == /\ CacheOK'
                   /\ IsStore(db') /\ IsStore(disk')
                   /\ phase' \in {"down", "genesis", "up", "poisoned"}
                   /\ trunk' = <<>> <=> phase' = "down"
<1> SUFFICES Goal
  BY DEF TypeOK, CacheOK, IsStore
<1>1. CASE LoadHeaders
  <2>1. db' = db /\ disk' = disk /\ phase' = "up"
    BY <1>1 DEF LoadHeaders, storeVars
  <2> QED BY <1>0, <1>1, <2>1, LoadTypes
<1>2. CASE StoreGenesis
  <2>1. Genesis \in Hash /\ MovesTip(Genesis)
    BY <1>2, HashAssumption DEF StoreGenesis, MovesTip
  <2>2. CacheOK' /\ headers'[Genesis] \in StoredHeader
    BY <1>0, <2>1, AddTypes
  <2>3. IsStore(db')
    BY <1>0, <1>2, <2>1, <2>2, PutTypes DEF StoreGenesis, IsStore
  <2>4. trunk' # <<>>
    BY <1>0, <1>2, HashAssumption, Appended, InsertProperties
    DEF StoreGenesis, InsertGenesis, CacheOK
  <2> QED BY <1>2, <2>2, <2>3, <2>4 DEF StoreGenesis
<1>3. CASE StoreGenesisTip
  <2>1. IsStore(db') /\ disk' = db'
    BY <1>0, <1>3, HashAssumption DEF StoreGenesisTip, IsStore
  <2> QED BY <1>0, <1>3, <2>1 DEF StoreGenesisTip, CacheOK, cacheVars, Known
<1>4. CASE batch
  BY <1>0, <1>4 DEF batch, CacheOK, Known
<1>5. ASSUME NEW h \in Hash, add_header(h) PROVE Goal
  <2>0. phase = "up" /\ trunk # <<>>
    BY <1>0, <1>5 DEF add_header
  <2>1. CASE AddRejected(h)
    BY <1>0, <2>0, <2>1
    DEF AddRejected, Rejects, IgnoreKnown, RejectUnconnected, RejectProofOfWork,
        cacheVars, CacheOK, Known
  <2>2. CASE AddLost(h)
    BY <1>0, <2>0, <2>2, AddTypes DEF AddLost
  <2>3. CASE AddBranch(h)
    <3>1. CacheOK' /\ headers'[h] \in StoredHeader /\ trunk' # <<>>
      BY <1>0, <2>0, <2>3, AddTypes DEF AddBranch
    <3>2. IsStore(db')
      BY <1>0, <2>3, <3>1, PutTypes DEF AddBranch, IsStore
    <3> QED BY <1>0, <2>0, <2>3, <3>1, <3>2 DEF AddBranch
  <2>4. CASE AddTip(h)
    <3>1. CacheOK' /\ headers'[h] \in StoredHeader /\ trunk' # <<>>
      BY <1>0, <2>0, <2>4, AddTypes DEF AddTip
    <3>2. IsStore(db')
      BY <1>0, <2>4, <3>1, PutTypes DEF AddTip
    <3> QED BY <1>0, <2>0, <2>4, <3>1, <3>2 DEF AddTip
  <2>5. CASE AddPutFails(h)
    <3>1. CacheOK' /\ headers'[h] \in StoredHeader /\ trunk' # <<>>
      BY <1>0, <2>0, <2>5, AddTypes DEF AddPutFails
    <3>2. IsStore(db')
      BY <1>0, <2>5, <3>1, PutTypes DEF AddPutFails, IsStore
    <3> QED BY <1>0, <2>0, <2>5, <3>1, <3>2 DEF AddPutFails
  <2>6. CASE AddPanics(h)
    BY <1>0, <2>0, <2>6 DEF AddPanics, CacheOK, Known
  <2> QED BY <1>5, <2>1, <2>2, <2>3, <2>4, <2>5, <2>6 DEF add_header
<1>6. CASE Crash
  <2>1. CacheOK' /\ trunk' = <<>>
    BY <1>6, EmptySeq DEF Crash, CacheOK, Known
  <2> QED BY <1>0, <1>6, <2>1 DEF Crash
<1>7. CASE UNCHANGED chainVars
  BY <1>0, <1>7 DEF chainVars, CacheOK, Known, TypeOK
<1> QED BY <1>1, <1>2, <1>3, <1>4, <1>5, <1>6, <1>7 DEF Next

\* The empty cache and the store of the first start have their types.
LEMMA InitTypes == Init => TypeOK
<1> SUFFICES ASSUME Init PROVE TypeOK
  OBVIOUS
<1>1. Known = {} /\ headers \in [Known -> StoredHeader]
  BY DEF Init, EmptyCache, Known
<1>2. trunk = <<>> /\ trunk \in Seq(Known)
  BY EmptySeq DEF Init, EmptyCache
<1>3. IsStore(db) /\ disk = db
  BY DEF Init, IsStore
<1> QED BY <1>1, <1>2, <1>3 DEF TypeOK, Init

\* Type correctness of ChainDB, whatever headers arrive, puts fail or crashes
\* happen: the cache and the store hold well formed records, and the trunk only
\* known headers.
THEOREM TypeCorrect == Spec => []TypeOK
<1>1. TypeOK /\ [Next]_chainVars => TypeOK'
  BY TypesKept
<1> QED BY <1>1, InitTypes, PTL DEF Spec

-----------------------------------------------------------------------------
(***************************************************************************)
(* Lemmas for the inductive step.                                          *)
(***************************************************************************)

\* A section of a chain is a chain.
LEMMA SubChain ==
    ASSUME NEW c \in Chains, NEW m \in 1 .. Len(c), NEW n \in m .. Len(c)
    PROVE  /\ SubSeq(c, m, n) \in Chains
           /\ Len(SubSeq(c, m, n)) = n - m + 1
           /\ \A i \in 1 .. n - m + 1 : SubSeq(c, m, n)[i] = c[m + i - 1]
           /\ Last(SubSeq(c, m, n)) = c[n]
<1> DEFINE d == SubSeq(c, m, n)
<1>1. c \in Seq(Hash) /\ Len(c) \in Nat /\ Len(c) <= MaxChain /\ Linked(c) /\ MaxChain \in Nat
  BY ChainProperties, PeriodAssumption
<1>2. m \in Int /\ n \in Int /\ 1 <= m /\ m <= n /\ n <= Len(c)
  BY <1>1
<1>3. \A i \in m .. n : c[i] \in Hash
  BY <1>1, <1>2, SeqElement
<1>4. /\ d \in Seq(Hash)
      /\ Len(d) = n - m + 1
      /\ \A i \in 1 .. n - m + 1 : d[i] = c[m + i - 1]
  BY <1>2, <1>3, PartOfSeq
<1> HIDE DEF d
<1>5. d \in [1 .. n - m + 1 -> Hash]
  BY <1>4, SeqIsFunction
<1>6. Linked(d)
  <2> SUFFICES ASSUME NEW i \in 1 .. Len(d) - 1 PROVE Prev(d[i]) = d[i + 1]
    BY DEF Linked
  <2>1. d[i] = c[m + i - 1] /\ d[i + 1] = c[m + i]
    BY <1>2, <1>4
  <2>2. m + i - 1 \in 1 .. Len(c) - 1 /\ (m + i - 1) + 1 = m + i
    BY <1>1, <1>2, <1>4
  <2> QED BY <1>1, <2>1, <2>2 DEF Linked
<1>7. n - m + 1 \in 1 .. MaxChain
  BY <1>1, <1>2
<1>8. d \in Chains
  BY <1>5, <1>6, <1>7 DEF Chains
<1>9. Last(d) = c[n]
  BY <1>2, <1>4 DEF Last
<1> QED BY <1>4, <1>8, <1>9 DEF d

\* The first header of a trunk is on it, and known; so is the tip.
LEMMA TrunkEnds ==
    ASSUME CacheOK, trunk # <<>>
    PROVE  /\ trunk[1] \in Known /\ OnTrunk(trunk[1])
           /\ tip_hash \in Known
           /\ Len(trunk) \in Nat /\ Len(trunk) >= 1
<1>1. trunk \in Seq(Known) /\ Len(trunk) \in Nat /\ DOMAIN trunk = 1 .. Len(trunk)
  BY SeqIsFunction DEF CacheOK
<1>2. Len(trunk) >= 1
  BY <1>1, EmptySeq
<1> QED BY <1>1, <1>2, SeqElement DEF OnTrunk, Range, tip_hash, Last

\* A walk from a known header always gets to the trunk.
LEMMA PathFound ==
    ASSUME CacheOK, CacheInv, trunk # <<>>, NEW h \in Hash, Prev(h) \in Known
    PROVE  PathsToTrunk(h) # {}
<1>1. PICK c \in Chains :
         c[1] = Prev(h) /\ Last(c) = Genesis /\ \A i \in 1 .. Len(c) : c[i] \in Known
  BY DEF CacheInv, RootPaths
<1>2. Len(c) \in Nat /\ Len(c) >= 1
  BY ChainProperties, PeriodAssumption
<1>3. OnTrunk(Last(c))
  BY <1>1, TrunkEnds DEF CacheInv
<1> DEFINE I == {i \in 1 .. Len(c) : OnTrunk(c[i])}
<1>4. I \in SUBSET Nat /\ Len(c) \in I
  BY <1>2, <1>3 DEF Last
<1>5. PICK k \in I : \A i \in I : k <= i
  <2> HIDE DEF I
  <2> QED BY <1>4, LeastNat
<1>6. k \in 1 .. Len(c) /\ 1 \in 1 .. Len(c) /\ OnTrunk(c[k])
  BY <1>2, <1>5
<1>7. \A i \in 1 .. k - 1 : c[i] \in Known /\ ~OnTrunk(c[i])
  BY <1>1, <1>2, <1>5, <1>6
<1> HIDE DEF I
<1> DEFINE d == SubSeq(c, 1, k)
<1>8. /\ d \in Chains
      /\ Len(d) = k
      /\ \A i \in 1 .. k : d[i] = c[i]
      /\ Last(d) = c[k]
  <2>1. k \in 1 .. Len(c) /\ 1 \in 1 .. Len(c) /\ k - 1 + 1 = k /\ \A i \in 1 .. k : 1 + i - 1 = i
    BY <1>2, <1>6
  <2>2. /\ d \in Chains
        /\ Len(d) = k - 1 + 1
        /\ \A i \in 1 .. k - 1 + 1 : d[i] = c[1 + i - 1]
        /\ Last(d) = c[k]
    BY <2>1, SubChain
  <2> HIDE DEF d
  <2> QED BY <2>1, <2>2
<1> HIDE DEF d
<1>9. d[1] = Prev(h)
  BY <1>1, <1>2, <1>6, <1>8
<1>10. \A i \in 1 .. Len(d) - 1 : d[i] \in Known /\ ~OnTrunk(d[i])
  BY <1>2, <1>6, <1>7, <1>8
<1>11. d \in PathsToTrunk(h)
  BY <1>6, <1>8, <1>9, <1>10 DEF PathsToTrunk
<1> QED BY <1>11

\* Genesis is known: with one root, nothing else is inserted as genesis.
LEMMA OnlyAccepts ==
    ASSUME OneRoot, CacheOK, CacheInv, trunk # <<>>, NEW h \in Hash,
           AddSide(h) \/ MovesTip(h)
    PROVE  Accept(h) /\ Genesis \in Known /\ ~InsertGenesis(h)
<1>1. Genesis \in Known
  BY TrunkEnds DEF CacheInv
<1>2. ~InsertGenesis(h)
  BY <1>1 DEF OneRoot, InsertGenesis
<1> QED BY <1>1, <1>2 DEF AddSide, MovesTip, AddExtend, AddReorg

\* The tip after a header was added, and the works compared.
LEMMA NewTip ==
    ASSUME OneRoot, CacheOK, CacheInv, trunk # <<>>, NEW h \in Hash
    PROVE  /\ AddSide(h) =>
                /\ trunk' = trunk
                /\ headers'[h].log2work <= headers[tip_hash].log2work
           /\ MovesTip(h) =>
                /\ Last(trunk') = h
                /\ trunk'[1] = Genesis
                /\ headers'[h].log2work > headers[tip_hash].log2work
<1> SUFFICES ASSUME AddSide(h) \/ MovesTip(h)
             PROVE  /\ AddSide(h) =>
                         /\ trunk' = trunk
                         /\ headers'[h].log2work <= headers[tip_hash].log2work
                    /\ MovesTip(h) =>
                         /\ Last(trunk') = h
                         /\ trunk'[1] = Genesis
                         /\ headers'[h].log2work > headers[tip_hash].log2work
  OBVIOUS
<1>1. Accept(h) /\ ~InsertGenesis(h)
  BY OnlyAccepts
<1>2. /\ stored_header(h) \in StoredHeader
      /\ Insert(h, stored_header(h))
      /\ headers'[h] = stored_header(h)
  BY <1>1, AcceptProperties, InsertProperties
<1>3. tip_hash \in Known /\ headers[tip_hash] \in StoredHeader
  BY TrunkEnds DEF CacheOK
<1>4. headers[tip_hash].log2work \in Int /\ headers'[h].log2work \in Int
  BY <1>2, <1>3, DifficultyAssumption DEF StoredHeader
<1>5. MoreWork(h) <=> headers[tip_hash].log2work < headers'[h].log2work
  BY <1>2 DEF MoreWork
<1>6. AddSide(h) => trunk' = trunk /\ ~MoreWork(h)
  BY DEF AddSide
<1>7. MovesTip(h) => MoreWork(h) /\ Last(trunk') = h /\ trunk'[1] = trunk[1]
  <2>1. CASE AddReorg(h)
    BY <2>1, ReorgTrunk, Zenon DEF AddReorg
  <2>2. CASE AddExtend(h)
    <3>1. trunk' = Append(trunk, h) /\ MoreWork(h) /\ trunk \in Seq(Hash)
      BY <2>2, SeqGrows DEF AddExtend, CacheOK
    <3>2. Len(trunk') = Len(trunk) + 1 /\ trunk'[Len(trunk) + 1] = h
      BY <3>1, Appended
    <3>3. trunk'[1] = trunk[1]
      BY <3>1, TrunkEnds, Appended
    <3> QED BY <3>1, <3>2, <3>3 DEF Last
  <2> QED BY <1>1, <2>1, <2>2 DEF MovesTip
<1> QED BY <1>4, <1>5, <1>6, <1>7 DEF CacheInv

\* Adding a header keeps the invariant of the cache.
LEMMA AddKeepsCache ==
    ASSUME OneRoot, WalksComplete, CacheOK, CacheInv, trunk # <<>>, NEW h \in Hash,
           AddSide(h) \/ MovesTip(h)
    PROVE  CacheInv'
<1>1. Accept(h) /\ Genesis \in Known
  BY OnlyAccepts
<1>2. /\ h \notin Known /\ Prev(h) \in Known
      /\ stored_header(h) \in StoredHeader
      /\ total_work(h) \in 0 .. MAX_WORK - 1
      /\ Insert(h, stored_header(h))
  BY <1>1, AcceptProperties
<1>3. /\ Known' = Known \cup {h}
      /\ headers'[h] = stored_header(h)
      /\ \A x \in Known : headers'[x] = headers[x]
  BY <1>2, InsertProperties
<1>4. Sound(headers)'
  <2> SUFFICES ASSUME NEW x \in Known'
               PROVE  \/ x = Genesis /\ headers'[x] = [height |-> 0, log2work |-> RoundWork(HeaderWork(x))]
                      \/ /\ Prev(x) \in Known'
                         /\ HeaderWork(x) + headers'[Prev(x)].log2work < MAX_WORK
                         /\ headers'[x] = [height   |-> headers'[Prev(x)].height + 1,
                                           log2work |-> RoundWork(HeaderWork(x) + headers'[Prev(x)].log2work)]
    BY DEF Sound, Known
  <2>1. CASE x \in Known
    BY <1>3, <2>1 DEF CacheInv, Sound, Known
  <2>2. CASE x = h
    <3>1. total_work(h) < MAX_WORK
      BY <1>2, DifficultyAssumption
    <3> QED BY <1>2, <1>3, <2>2, <3>1 DEF stored_header, total_work
  <2> QED BY <1>3, <2>1, <2>2
<1>5. RootPaths'
  <2> SUFFICES ASSUME NEW x \in Known'
               PROVE  \E c \in Chains : /\ c[1] = x
                                        /\ Last(c) = Genesis
                                        /\ \A i \in 1 .. Len(c) : c[i] \in Known'
    BY DEF RootPaths
  <2>1. CASE x \in Known
    BY <1>3, <2>1 DEF CacheInv, RootPaths
  <2>2. CASE x = h
    <3>1. PICK c \in Chains :
             c[1] = Prev(h) /\ Last(c) = Genesis /\ \A i \in 1 .. Len(c) : c[i] \in Known
      BY <1>2 DEF CacheInv, RootPaths
    <3> DEFINE d == <<h>> \o c
    <3>2. d \in Chains
      BY <3>1 DEF WalksComplete
    <3>3. c \in Seq(Hash) /\ Len(c) \in Nat /\ Len(c) >= 1
      BY ChainProperties, PeriodAssumption
    <3>4. <<h>> \in Seq(Hash) /\ Len(<<h>>) = 1 /\ <<h>>[1] = h
      OBVIOUS
    <3>5. Len(d) = 1 + Len(c) /\ \A i \in 1 .. 1 + Len(c) : d[i] = IF i <= 1 THEN <<h>>[i] ELSE c[i - 1]
      BY <3>3, <3>4, Joined
    <3> HIDE DEF d
    <3>6. d[1] = h /\ Last(d) = Last(c)
      BY <3>3, <3>4, <3>5 DEF Last
    <3>7. \A i \in 1 .. Len(d) : d[i] \in Known'
      BY <1>3, <3>1, <3>3, <3>4, <3>5, <3>6
    <3> QED BY <2>2, <3>1, <3>2, <3>6, <3>7
  <2> QED BY <1>3, <2>1, <2>2
<1>6. TipMostWork' /\ (trunk[1] = Genesis)'
  <2>1. tip_hash \in Known /\ trunk[1] = Genesis
    BY TrunkEnds DEF CacheInv
  <2>2. \A x \in Known : headers[x].log2work <= headers[tip_hash].log2work
    BY DEF CacheInv, TipMostWork
  <2>3. \A x \in Known : headers[x].log2work \in Int
    BY DifficultyAssumption DEF CacheOK, StoredHeader
  <2>4. headers'[h].log2work \in Int
    BY <1>2, <1>3, DifficultyAssumption DEF StoredHeader
  <2>5. CASE AddSide(h)
    <3>1. trunk' = trunk /\ headers'[h].log2work <= headers[tip_hash].log2work
      BY <2>5, NewTip
    <3>2. tip_hash' = tip_hash /\ headers'[tip_hash] = headers[tip_hash]
      BY <1>3, <2>1, <3>1 DEF tip_hash
    <3> QED BY <1>3, <2>1, <2>2, <3>1, <3>2 DEF TipMostWork
  <2>6. CASE MovesTip(h)
    <3>1. /\ tip_hash' = h
          /\ trunk'[1] = Genesis
          /\ headers'[h].log2work > headers[tip_hash].log2work
      BY <2>6, NewTip DEF tip_hash
    <3>2. \A x \in Known : headers'[x].log2work <= headers'[h].log2work
      BY <1>3, <2>1, <2>2, <2>3, <2>4, <3>1
    <3> QED BY <1>3, <2>4, <3>1, <3>2 DEF TipMostWork
  <2> QED BY <2>5, <2>6
<1> QED BY <1>4, <1>5, <1>6 DEF CacheInv

\* Putting an added header, with the tip of the cache, keeps the invariants of
\* the store.
LEMMA PutKeepsStore ==
    ASSUME OneRoot, WalksComplete, CacheOK, CacheInv, PhaseInv, DbAhead,
           IsStore(db), SoundStore(db), IsStore(disk), SoundStore(disk),
           phase = "up", phase' = phase, disk' = disk, trunk # <<>>,
           NEW h \in Hash,
           \/ AddSide(h) /\ Put(h, headers'[h], db.tip)
           \/ MovesTip(h) /\ Put(h, headers'[h], h)
    PROVE  SoundStore(db') /\ PhaseInv' /\ DbAhead'
<1>1. Accept(h) /\ Genesis \in Known
  BY OnlyAccepts
<1>2. /\ h \notin Known /\ Prev(h) \in Known
      /\ stored_header(h) \in StoredHeader
      /\ total_work(h) \in 0 .. MAX_WORK - 1
      /\ Insert(h, stored_header(h))
  BY <1>1, AcceptProperties
<1>3. /\ Known' = Known \cup {h}
      /\ headers'[h] = stored_header(h)
      /\ \A x \in Known : headers'[x] = headers[x]
  BY <1>2, InsertProperties
<1>4. /\ tip_hash \in Known
      /\ db.tip = tip_hash /\ db.tip # NoHash
      /\ \A x \in Known : x \in DOMAIN db.headers /\ db.headers[x] = headers[x]
      /\ \A x \in DOMAIN db.headers :
            x \in Known \/ (x \in DOMAIN disk.headers /\ db.headers[x] = disk.headers[x])
  BY TrunkEnds, HashAssumption DEF PhaseInv, Running, CacheOK
<1> DEFINE D == DOMAIN db.headers
           new == db'.headers
<1>5. /\ DOMAIN new = D \cup {h}
      /\ new[h] = stored_header(h)
      /\ \A x \in D : x # h => new[x] = db.headers[x]
      /\ AddSide(h) => db'.tip = db.tip
      /\ MovesTip(h) => db'.tip = h
  <2>1. DOMAIN new = D \cup {h} /\ new[h] = headers'[h] /\ \A x \in D : x # h => new[x] = db.headers[x]
    BY DEF Put
  <2>2. AddSide(h) => ~MovesTip(h)
    BY OnlyAccepts DEF MovesTip, AddSide, AddExtend, AddReorg
  <2> QED BY <1>3, <2>1, <2>2 DEF Put
<1>6. h \in D => db.headers[h] = stored_header(h)
  <2> SUFFICES ASSUME h \in D PROVE db.headers[h] = stored_header(h)
    OBVIOUS
  <2>1. h # Genesis /\ db.headers[Prev(h)] = headers[Prev(h)]
    BY <1>1, <1>2, <1>4
  <2> QED BY <2>1, Zenon DEF SoundStore, Sound, stored_header, total_work
<1>7. \A x \in D : new[x] = db.headers[x]
  BY <1>5, <1>6
<1>8. Sound(new)
  <2> SUFFICES ASSUME NEW x \in D \cup {h}
               PROVE  \/ x = Genesis /\ new[x] = [height |-> 0, log2work |-> RoundWork(HeaderWork(x))]
                      \/ /\ Prev(x) \in D \cup {h}
                         /\ HeaderWork(x) + new[Prev(x)].log2work < MAX_WORK
                         /\ new[x] = [height   |-> new[Prev(x)].height + 1,
                                      log2work |-> RoundWork(HeaderWork(x) + new[Prev(x)].log2work)]
    BY <1>5 DEF Sound
  <2>1. CASE x \in D
    BY <1>7, <2>1, Zenon DEF SoundStore, Sound
  <2>2. CASE x = h
    <3>1. total_work(h) < MAX_WORK
      BY <1>2, DifficultyAssumption
    <3>2. Prev(h) \in D /\ new[Prev(h)] = headers[Prev(h)]
      BY <1>2, <1>4, <1>7
    <3> QED BY <1>5, <2>2, <3>1, <3>2 DEF stored_header, total_work
  <2> QED BY <2>1, <2>2
<1>9. /\ db.tip \in D
      /\ new[db.tip] = headers[tip_hash]
      /\ \A x \in D : new[x].log2work <= headers[tip_hash].log2work
  BY <1>4, <1>7 DEF SoundStore
<1>10. /\ \A x \in D \cup {h} : new[x].log2work \in Int
       /\ headers[tip_hash].log2work \in Int
  <2>1. \A x \in D : new[x] \in StoredHeader
    BY <1>7 DEF IsStore
  <2>2. new[h] \in StoredHeader /\ headers[tip_hash] \in StoredHeader
    BY <1>2, <1>4, <1>5 DEF CacheOK
  <2> QED BY <2>1, <2>2, DifficultyAssumption DEF StoredHeader
<1>11. /\ db'.tip = tip_hash'
       /\ db'.tip # NoHash
       /\ db'.tip \in DOMAIN new
       /\ \A x \in DOMAIN new : new[x].log2work <= new[db'.tip].log2work
       /\ new[db'.tip].log2work >= headers[tip_hash].log2work
  <2>1. CASE AddSide(h)
    <3>1. trunk' = trunk /\ new[h].log2work <= headers[tip_hash].log2work
      BY <1>3, <1>5, <2>1, NewTip
    <3>2. db'.tip = db.tip /\ tip_hash' = tip_hash
      BY <1>5, <2>1, <3>1 DEF tip_hash
    <3> QED BY <1>4, <1>5, <1>9, <1>10, <3>1, <3>2
  <2>2. CASE MovesTip(h)
    <3>1. tip_hash' = h /\ new[h].log2work > headers[tip_hash].log2work
      BY <1>3, <1>5, <2>2, NewTip DEF tip_hash
    <3>2. db'.tip = h /\ h # NoHash
      BY <1>5, <2>2, HashAssumption
    <3>3. \A x \in D \cup {h} : new[x].log2work <= new[h].log2work
      BY <1>9, <1>10, <3>1
    <3> QED BY <1>5, <1>10, <3>1, <3>2, <3>3
  <2> QED BY <2>1, <2>2
<1>12. SoundStore(db')
  BY <1>8, <1>11 DEF SoundStore
<1>13. DbAhead'
  <2>1. disk.tip # NoHash => headers[tip_hash].log2work >= disk.headers[disk.tip].log2work
    BY <1>4 DEF DbAhead
  <2>2. ASSUME disk.tip # NoHash
        PROVE  new[db'.tip].log2work >= disk.headers[disk.tip].log2work
    <3>1. disk.headers[disk.tip].log2work <= headers[tip_hash].log2work
      BY <2>1, <2>2
    <3>2. disk.headers[disk.tip].log2work \in Int
      BY <2>2, DifficultyAssumption DEF IsStore, SoundStore, StoredHeader
    <3> QED BY <1>5, <1>10, <1>11, <3>1, <3>2
  <2> QED BY <1>11, <2>2 DEF DbAhead
<1>14. PhaseInv'
  <2>1. \A x \in Known' : x \in DOMAIN new /\ new[x] = headers'[x]
    BY <1>3, <1>4, <1>5, <1>7
  <2>2. \A x \in DOMAIN new :
           x \in Known' \/ (x \in DOMAIN disk.headers /\ new[x] = disk.headers[x])
    BY <1>3, <1>4, <1>5, <1>7
  <2> QED BY <1>11, <2>1, <2>2 DEF PhaseInv, Running
<1> QED BY <1>12, <1>13, <1>14

\* Loading leaves the chain of the stored tip, in order, on the trunk.
LEMMA LoadLinked ==
    ASSUME LoadHeaders
    PROVE  Linked(Reverse(trunk')) /\ Last(trunk') = db.tip
<1>1. PICK c \in StoredChains : trunk' = Reverse(c)
  BY DEF LoadHeaders
<1>2. c \in Chains /\ c[1] = db.tip
  BY <1>1 DEF StoredChains
<1>3. c \in Seq(Hash) /\ Len(c) \in Nat /\ Len(c) >= 1 /\ Linked(c)
  BY <1>2, ChainProperties, PeriodAssumption
<1> DEFINE n == Len(c)
           t == trunk'
<1>4. t \in Seq(Hash) /\ Len(t) = n /\ \A i \in 1 .. n : t[i] = c[(n - i) + 1]
  BY <1>1, <1>3, ReverseProperties
<1> HIDE DEF t
<1>5. Len(Reverse(t)) = n /\ \A i \in 1 .. n : Reverse(t)[i] = t[(n - i) + 1]
  BY <1>4, ReverseProperties
<1>6. \A i \in 1 .. n : (n - i) + 1 \in 1 .. n /\ (n - ((n - i) + 1)) + 1 = i
  BY <1>3
<1>7. \A i \in 1 .. n : Reverse(t)[i] = c[i]
  BY <1>4, <1>5, <1>6, Zenon
<1>8. ASSUME NEW i \in 1 .. n - 1 PROVE Prev(Reverse(t)[i]) = Reverse(t)[i + 1]
  <2>1. i \in 1 .. n /\ i + 1 \in 1 .. n
    BY <1>3
  <2> QED BY <1>3, <1>7, <2>1 DEF Linked
<1>9. Linked(Reverse(t))
  BY <1>5, <1>8 DEF Linked
<1>10. t[n] = c[1]
  <2>1. n \in 1 .. n /\ (n - n) + 1 = 1
    BY <1>3
  <2> QED BY <1>4, <2>1
<1> QED BY <1>2, <1>4, <1>9, <1>10 DEF t, Last

\* Loading the stored chain establishes the invariant of the cache.
LEMMA LoadKeeps ==
    ASSUME IsStore(db), SoundStore(db), db = disk, LoadHeaders
    PROVE  CacheInv' /\ PhaseInv'
<1>1. PICK c \in StoredChains :
         trunk' = Reverse(c) /\ headers' = [h \in Range(c) |-> db.headers[h]]
  BY DEF LoadHeaders
<1>2. /\ c \in Chains
      /\ c[1] = db.tip
      /\ \A i \in 1 .. Len(c) : c[i] \in DOMAIN db.headers
      /\ Prev(Last(c)) \notin DOMAIN db.headers
  BY <1>1 DEF StoredChains
<1>3. c \in Seq(Hash) /\ Len(c) \in Nat /\ Len(c) >= 1 /\ Linked(c)
  BY <1>2, ChainProperties, PeriodAssumption
<1> DEFINE n == Len(c)
<1>4. Range(c) = {c[i] : i \in 1 .. n}
  BY <1>3, RangeOfSeq
<1>5. Known' = Range(c) /\ \A x \in Range(c) : headers'[x] = db.headers[x]
  BY <1>1 DEF Known
<1>6. Len(trunk') = n /\ \A i \in 1 .. n : trunk'[i] = c[(n - i) + 1]
  BY <1>1, <1>3, ReverseProperties
<1>7. c[n] = Genesis
  <2>1. c[n] \in DOMAIN db.headers /\ Prev(c[n]) \notin DOMAIN db.headers
    BY <1>2, <1>3 DEF Last
  <2> QED BY <2>1, Zenon DEF SoundStore, Sound
<1>8. trunk'[1] = Genesis /\ Last(trunk') = db.tip
  <2>1. 1 \in 1 .. n /\ n \in 1 .. n /\ (n - 1) + 1 = n /\ (n - n) + 1 = 1
    BY <1>3
  <2> QED BY <1>2, <1>6, <1>7, <2>1 DEF Last
<1>9. Sound(headers)'
  <2> SUFFICES ASSUME NEW x \in Known'
               PROVE  \/ x = Genesis /\ headers'[x] = [height |-> 0, log2work |-> RoundWork(HeaderWork(x))]
                      \/ /\ Prev(x) \in Known'
                         /\ HeaderWork(x) + headers'[Prev(x)].log2work < MAX_WORK
                         /\ headers'[x] = [height   |-> headers'[Prev(x)].height + 1,
                                           log2work |-> RoundWork(HeaderWork(x) + headers'[Prev(x)].log2work)]
    BY DEF Sound, Known
  <2>1. PICK i \in 1 .. n : x = c[i]
    BY <1>4, <1>5
  <2>2. CASE i = n
    <3>1. x \in DOMAIN db.headers /\ Prev(x) \notin DOMAIN db.headers
      BY <1>2, <1>3, <2>1, <2>2 DEF Last
    <3> QED BY <1>5, <3>1, Zenon DEF SoundStore, Sound
  <2>3. CASE i # n
    <3>1. i \in 1 .. n - 1 /\ i + 1 \in 1 .. n
      BY <1>3, <2>1, <2>3
    <3>2. Prev(x) = c[i + 1] /\ Prev(x) \in Known'
      BY <1>3, <1>4, <1>5, <2>1, <3>1 DEF Linked
    <3>3. x \in DOMAIN db.headers /\ headers'[x] = db.headers[x] /\ headers'[Prev(x)] = db.headers[Prev(x)]
      BY <1>2, <1>5, <2>1, <3>2
    <3> QED BY <3>2, <3>3 DEF SoundStore, Sound
  <2> QED BY <2>2, <2>3
<1>10. RootPaths'
  <2> SUFFICES ASSUME NEW x \in Known'
               PROVE  \E d \in Chains : /\ d[1] = x
                                        /\ Last(d) = Genesis
                                        /\ \A i \in 1 .. Len(d) : d[i] \in Known'
    BY DEF RootPaths
  <2>1. PICK m \in 1 .. n : x = c[m]
    BY <1>4, <1>5
  <2> DEFINE d == SubSeq(c, m, n)
  <2>2. m \in 1 .. Len(c) /\ n \in m .. Len(c)
    BY <1>3, <2>1
  <2>3. /\ d \in Chains
        /\ Len(d) = n - m + 1
        /\ \A i \in 1 .. n - m + 1 : d[i] = c[m + i - 1]
        /\ Last(d) = c[n]
    BY <1>2, <2>2, SubChain
  <2> HIDE DEF d
  <2>4. d[1] = x
    BY <1>3, <2>1, <2>2, <2>3
  <2>5. \A i \in 1 .. Len(d) : m + i - 1 \in 1 .. n
    BY <1>3, <2>2, <2>3
  <2>6. \A i \in 1 .. Len(d) : d[i] \in Known'
    BY <1>4, <1>5, <2>3, <2>5
  <2> QED BY <1>7, <2>3, <2>4, <2>6
<1>11. db.tip # NoHash /\ tip_hash' = db.tip /\ db.tip \in Known'
  <2>1. c[1] \in Hash /\ c[1] \in Known'
    BY <1>3, <1>4, <1>5, SeqElement
  <2> QED BY <1>2, <1>8, <2>1, HashAssumption DEF tip_hash
<1>12. TipMostWork'
  <2>1. \A x \in Known' : x \in DOMAIN db.headers /\ headers'[x] = db.headers[x]
    BY <1>2, <1>4, <1>5
  <2> QED BY <1>11, <2>1 DEF TipMostWork, SoundStore
<1>13. PhaseInv'
  <2>1. phase' = "up" /\ db' = db /\ disk' = disk
    BY DEF LoadHeaders, storeVars
  <2>2. \A x \in Known' : x \in DOMAIN db.headers /\ headers'[x] = db.headers[x]
    BY <1>2, <1>4, <1>5
  <2> QED BY <1>11, <2>1, <2>2 DEF PhaseInv, Running
<1> QED BY <1>8, <1>9, <1>10, <1>12, <1>13 DEF CacheInv

-----------------------------------------------------------------------------
(***************************************************************************)
(* The inductive invariant holds.                                          *)
(***************************************************************************)
LEMMA InitInv == Init => IInv
<1> SUFFICES ASSUME Init PROVE IInv
  OBVIOUS
<1>1. Known = {} /\ headers \in [Known -> StoredHeader]
  BY DEF Init, EmptyCache, Known
<1>2. trunk = <<>> /\ trunk \in Seq(Known)
  BY EmptySeq DEF Init, EmptyCache
<1>3. IsStore(db) /\ disk = db /\ DOMAIN db.headers = {} /\ db.tip = NoHash
  BY DEF Init, IsStore
<1>4. TypeOK
  BY <1>1, <1>2, <1>3 DEF TypeOK, Init
<1>5. SoundStore(db) /\ SoundStore(disk)
  BY <1>3 DEF SoundStore, Sound
<1> QED BY <1>1, <1>2, <1>3, <1>4, <1>5
        DEF IInv, CacheInv, PhaseInv, DbAhead, Init, Running

\* Storing the genesis header: the first batch of init_headers.
LEMMA StoreGenesisKeeps ==
    ASSUME IInv, StoreGenesis
    PROVE  CacheInv' /\ PhaseInv' /\ SoundStore(db') /\ SoundStore(disk') /\ DbAhead'
<1> DEFINE gen == [height |-> 0, log2work |-> RoundWork(HeaderWork(Genesis))]
<1>1. /\ phase = "down" /\ phase' = "genesis"
      /\ db.tip = NoHash
      /\ headers' = [x \in Known \cup {Genesis} |-> IF x = Genesis THEN gen ELSE headers[x]]
      /\ trunk' = Append(trunk, Genesis)
      /\ disk' = db'
  BY DEF StoreGenesis, InsertGenesis, Insert
<1>2. trunk = <<>> /\ Known = {} /\ DOMAIN db.headers \subseteq {Genesis}
  BY <1>1 DEF IInv, TypeOK, SoundStore, PhaseInv
<1>3. Known' = {Genesis} /\ headers'[Genesis] = gen
  BY <1>1, <1>2 DEF Known
<1>4. /\ db'.tip = NoHash
      /\ DOMAIN db'.headers = {Genesis}
      /\ db'.headers[Genesis] = headers'[Genesis]
  BY <1>1, <1>2 DEF StoreGenesis, Put
<1>5. trunk' = <<Genesis>> /\ Len(trunk') = 1 /\ trunk'[1] = Genesis
  BY <1>1, <1>2
<1>6. Sound(headers') /\ Sound(db'.headers)
  BY <1>3, <1>4 DEF Sound, Known
<1>7. RootPaths'
  <2> DEFINE c == [i \in 1 .. 1 |-> Genesis]
  <2>1. c \in [1 .. 1 -> Hash] /\ 1 \in 1 .. MaxChain /\ Len(c) = 1 /\ c[1] = Genesis
    BY HashAssumption, PeriodAssumption
  <2>2. Linked(c)
    BY <2>1 DEF Linked
  <2> HIDE DEF c
  <2>3. c \in Chains /\ Last(c) = Genesis
    BY <2>1, <2>2 DEF Chains, Last
  <2> QED BY <1>3, <2>1, <2>3 DEF RootPaths
<1>8. TipMostWork'
  <2>1. tip_hash' = Genesis
    BY <1>5 DEF tip_hash, Last
  <2>2. headers'[Genesis].log2work \in Int
    <3>1. HeaderWork(Genesis) \in 0 .. MAX_WORK - 1
      BY WorkAssumption, DifficultyAssumption, HashAssumption DEF StoreGenesis, InsertGenesis
    <3> QED BY <1>3, <3>1, KeptWorkAssumption, DifficultyAssumption DEF RoundWork
  <2> QED BY <1>3, <2>1, <2>2 DEF TipMostWork
<1>9. CacheInv'
  BY <1>5, <1>6, <1>7, <1>8 DEF CacheInv
<1>10. PhaseInv'
  BY <1>1, <1>3, <1>4, <1>5 DEF PhaseInv, Running
<1>11. SoundStore(db') /\ SoundStore(disk') /\ DbAhead'
  BY <1>1, <1>4, <1>6 DEF SoundStore, DbAhead
<1> QED BY <1>9, <1>10, <1>11

\* Storing it as the tip: the second batch.
LEMMA StoreGenesisTipKeeps ==
    ASSUME IInv, StoreGenesisTip
    PROVE  CacheInv' /\ PhaseInv' /\ SoundStore(db') /\ SoundStore(disk') /\ DbAhead'
<1>1. /\ phase = "genesis" /\ phase' = "up"
      /\ db' = [db EXCEPT !.tip = Genesis]
      /\ disk' = db'
      /\ headers' = headers /\ trunk' = trunk
  BY DEF StoreGenesisTip, cacheVars
<1>2. /\ trunk = <<Genesis>> /\ Known = {Genesis}
      /\ db.tip = NoHash
      /\ Genesis \in DOMAIN db.headers /\ db.headers[Genesis] = headers[Genesis]
      /\ CacheInv
      /\ db = [headers |-> db.headers, tip |-> db.tip]
  BY <1>1 DEF IInv, PhaseInv, TypeOK, IsStore
<1>3. db'.headers = db.headers /\ db'.tip = Genesis
  BY <1>1, <1>2
<1>4. DOMAIN db.headers = {Genesis} /\ Sound(db.headers) /\ headers[Genesis] \in StoredHeader
  BY <1>2 DEF IInv, SoundStore, TypeOK
<1>5. tip_hash' = Genesis /\ Genesis # NoHash
  BY <1>1, <1>2, HashAssumption DEF tip_hash, Last
<1>6. CacheInv'
  BY <1>1, <1>2 DEF CacheInv, RootPaths, TipMostWork, tip_hash, Known
<1>7. PhaseInv'
  BY <1>1, <1>2, <1>3, <1>4, <1>5 DEF PhaseInv, Running, Known
<1>8. SoundStore(db')
  <2>1. db.headers[Genesis].log2work <= db.headers[Genesis].log2work
    BY <1>2, <1>4, DifficultyAssumption DEF StoredHeader
  <2> QED BY <1>3, <1>4, <1>5, <2>1 DEF SoundStore
<1>9. DbAhead'
  <2>1. db.headers[Genesis].log2work >= db.headers[Genesis].log2work
    BY <1>2, <1>4, DifficultyAssumption DEF StoredHeader
  <2> QED BY <1>1, <1>3, <2>1, <1>5 DEF DbAhead
<1> QED BY <1>1, <1>6, <1>7, <1>8, <1>9

\* add_header keeps the inductive invariant, with one root, walks that are long
\* enough and a put that succeeds.
LEMMA AddInv ==
    ASSUME OneRoot, WalksComplete, IInv, phase = "up", NEW h \in Hash,
           \/ AddRejected(h) \/ AddLost(h) \/ AddBranch(h) \/ AddTip(h) \/ AddPanics(h)
    PROVE  CacheInv' /\ PhaseInv' /\ SoundStore(db') /\ SoundStore(disk') /\ DbAhead'
<1>0. /\ CacheOK /\ CacheInv /\ PhaseInv /\ DbAhead
      /\ IsStore(db) /\ IsStore(disk) /\ SoundStore(db) /\ SoundStore(disk)
      /\ trunk # <<>>
  BY DEF IInv, TypeOK, CacheOK
<1>1. CASE AddRejected(h)
  <2>1. UNCHANGED chainVars
    BY <1>1 DEF AddRejected, Rejects, IgnoreKnown, RejectUnconnected,
                RejectProofOfWork, cacheVars, chainVars
  <2> QED BY <1>0, <2>1
          DEF chainVars, CacheInv, RootPaths, TipMostWork, tip_hash, Known,
              PhaseInv, Running, DbAhead
<1>2. CASE AddLost(h)
  <2>1. Prev(h) \in Known /\ PathsToTrunk(h) = {}
    BY <1>0, <1>2, AcceptProperties DEF AddLost, AddPathLost
  <2> QED BY <1>0, <2>1, PathFound
<1>3. CASE AddBranch(h)
  <2>1. AddSide(h) /\ Put(h, headers'[h], db.tip) /\ disk' = disk /\ phase' = phase
    BY <1>3 DEF AddBranch
  <2>2. CacheInv'
    BY <1>0, <2>1, AddKeepsCache
  <2> QED BY <1>0, <2>1, <2>2, PutKeepsStore
<1>4. CASE AddTip(h)
  <2>1. MovesTip(h) /\ Put(h, headers'[h], h) /\ disk' = disk /\ phase' = phase
    BY <1>4 DEF AddTip
  <2>2. CacheInv'
    BY <1>0, <2>1, AddKeepsCache
  <2> QED BY <1>0, <2>1, <2>2, PutKeepsStore
<1>5. CASE AddPanics(h)
  <2>1. /\ headers' = headers /\ trunk' = trunk /\ db' = db /\ disk' = disk
        /\ phase' = "poisoned"
    BY <1>5 DEF AddPanics
  <2>2. CacheInv'
    BY <1>0, <2>1 DEF CacheInv, RootPaths, TipMostWork, tip_hash, Known
  <2>3. PhaseInv'
    BY <1>0, <2>1 DEF PhaseInv, Running, tip_hash, Known
  <2> QED BY <1>0, <2>1, <2>2, <2>3 DEF DbAhead
<1> QED BY <1>1, <1>2, <1>3, <1>4, <1>5

\* So does every step that is not a put that fails.
LEMMA StepInv ==
    ASSUME OneRoot, WalksComplete, IInv, TypeOK', [Next]_chainVars,
           \A h \in Hash : add_header(h) =>
               \/ AddRejected(h) \/ AddLost(h) \/ AddBranch(h) \/ AddTip(h) \/ AddPanics(h)
    PROVE  IInv'
<1>0. /\ TypeOK /\ CacheOK /\ CacheInv /\ PhaseInv /\ DbAhead
      /\ IsStore(db) /\ IsStore(disk) /\ SoundStore(db) /\ SoundStore(disk)
      /\ trunk = <<>> <=> phase = "down"
  BY DEF IInv, TypeOK, CacheOK
<1> DEFINE Goal == CacheInv' /\ PhaseInv' /\ SoundStore(db') /\ SoundStore(disk') /\ DbAhead'
<1> SUFFICES Goal
  BY Zenon DEF IInv, SoundStore, Sound
<1>1. CASE LoadHeaders
  <2>1. phase = "down" /\ db = disk /\ db' = db /\ disk' = disk
    BY <1>0, <1>1 DEF LoadHeaders, storeVars, PhaseInv
  <2>2. CacheInv' /\ PhaseInv'
    BY <1>0, <1>1, <2>1, LoadKeeps
  <2> QED BY <1>0, <2>1, <2>2 DEF DbAhead
<1>2. CASE StoreGenesis
  BY <1>2, StoreGenesisKeeps
<1>3. CASE StoreGenesisTip
  BY <1>3, StoreGenesisTipKeeps
<1>4. CASE batch
  <2>1. /\ phase = "up" /\ phase' = phase
        /\ disk' = db /\ db' = db
        /\ headers' = headers /\ trunk' = trunk
    BY <1>4 DEF batch
  <2>2. CacheInv'
    BY <1>0, <2>1 DEF CacheInv, RootPaths, TipMostWork, tip_hash, Known
  <2>3. PhaseInv'
    BY <1>0, <2>1 DEF PhaseInv, Running, tip_hash, Known
  <2>4. DbAhead'
    <3>1. db.tip # NoHash =>
             db.headers[db.tip].log2work >= db.headers[db.tip].log2work
      BY <1>0, DifficultyAssumption DEF SoundStore, IsStore, StoredHeader
    <3> QED BY <2>1, <3>1 DEF DbAhead
  <2> QED BY <1>0, <2>1, <2>2, <2>3, <2>4
<1>5. ASSUME NEW h \in Hash, add_header(h) PROVE Goal
  <2>1. /\ phase = "up"
        /\ AddRejected(h) \/ AddLost(h) \/ AddBranch(h) \/ AddTip(h) \/ AddPanics(h)
    BY <1>5 DEF add_header
  <2> QED BY <2>1, AddInv
<1>6. CASE Crash
  <2>1. /\ trunk' = <<>> /\ Known' = {}
        /\ db' = disk /\ disk' = disk /\ phase' = "down"
    BY <1>6 DEF Crash, Known
  <2>2. DbAhead'
    <3>1. disk.tip # NoHash =>
             disk.headers[disk.tip].log2work >= disk.headers[disk.tip].log2work
      BY <1>0, DifficultyAssumption DEF SoundStore, IsStore, StoredHeader
    <3> QED BY <2>1, <3>1 DEF DbAhead
  <2> QED BY <1>0, <2>1, <2>2 DEF CacheInv, PhaseInv, Running
<1>7. CASE UNCHANGED chainVars
  BY <1>0, <1>7 DEF chainVars, CacheInv, RootPaths, TipMostWork, tip_hash, Known,
                    PhaseInv, Running, DbAhead
<1> QED BY <1>1, <1>2, <1>3, <1>4, <1>5, <1>6, <1>7 DEF Next

\* Where puts never fail, every step keeps it.
LEMMA NextInv ==
    ASSUME Sane, IInv, TypeOK', [Next]_chainVars
    PROVE  IInv'
<1>1. \A h \in Hash : add_header(h) =>
          \/ AddRejected(h) \/ AddLost(h) \/ AddBranch(h) \/ AddTip(h) \/ AddPanics(h)
  BY DEF add_header, AddPutFails, Sane
<1> QED BY <1>1, StepInv DEF Sane

\* What every theorem below rests on: cache, store and durable store are sound
\* and agree, in every state that add_header, batch, crashes and restarts reach.
THEOREM Invariance ==
    ASSUME Sane
    PROVE  Spec => []IInv
<1>1. Init => IInv
  BY InitInv
<1>2. TypeOK' /\ IInv /\ [Next]_chainVars => IInv'
  BY NextInv
<1>3. Spec => []TypeOK
  BY TypeCorrect
<1> QED BY <1>1, <1>2, <1>3, PTL DEF Spec

-----------------------------------------------------------------------------
(***************************************************************************)
(* The theorems.                                                           *)
(***************************************************************************)

\* The tip of HeaderCache has most work, whatever branches were added in
\* whatever order and however often the node was restarted.
THEOREM TipHasMostWork ==
    ASSUME Sane
    PROVE  Spec => []TipMostWork
<1>1. IInv => TipMostWork
  BY DEF IInv, CacheInv, TipMostWork
<1> QED BY <1>1, Invariance, PTL

\* What a restart finds, whenever the crash came: a stored tip with most work
\* of the stored headers, and all its ancestors.
THEOREM StoreHasMostWork ==
    ASSUME Sane
    PROVE  Spec => []StoreMostWork
<1>1. ASSUME NEW s, SoundStore(s) PROVE MostWorkOf(s)
  BY <1>1, Zenon DEF SoundStore, Sound, MostWorkOf
<1>2. IInv => StoreMostWork
  BY <1>1 DEF IInv, StoreMostWork
<1> QED BY <1>2, Invariance, PTL

\* Where no block's work is lost in rounding, parents are known, one lower and
\* with less work than their children.
LEMMA InvAncestry ==
    ASSUME WorkResolved, IInv
    PROVE  AncestryKnown
<1> SUFFICES ASSUME NEW h \in Known
             PROVE  \/ Prev(h) = NoHash /\ headers[h].height = 0
                    \/ /\ Prev(h) \in Known
                       /\ headers[h].height = headers[Prev(h)].height + 1
                       /\ headers[h].log2work > headers[Prev(h)].log2work
  BY DEF AncestryKnown
<1>1. h \in Hash /\ headers \in [Known -> StoredHeader] /\ Sound(headers)
  BY DEF IInv, TypeOK, CacheInv, PhaseInv
<1>2. CASE h = Genesis /\ headers[h] = [height |-> 0, log2work |-> RoundWork(HeaderWork(h))]
  BY <1>2, HeaderAssumption DEF Prev
<1>3. CASE /\ Prev(h) \in Known
           /\ HeaderWork(h) + headers[Prev(h)].log2work < MAX_WORK
           /\ headers[h] = [height   |-> headers[Prev(h)].height + 1,
                            log2work |-> RoundWork(HeaderWork(h) + headers[Prev(h)].log2work)]
  <2> DEFINE w == headers[Prev(h)].log2work
  <2>1. w \in 0 .. MAX_WORK - 1 /\ HeaderWork(h) \in Nat
    BY <1>1, <1>3, WorkAssumption DEF StoredHeader
  <2>2. HeaderWork(h) + w = w + HeaderWork(h)
    BY <2>1, DifficultyAssumption
  <2>3. RoundWork(w + HeaderWork(h)) > w
    BY <1>1, <1>3, <2>1, <2>2 DEF WorkResolved
  <2> QED BY <1>3, <2>2, <2>3
<1> QED BY <1>1, <1>2, <1>3 DEF Sound, Known

-----------------------------------------------------------------------------
(***************************************************************************)
(* Ancestors.                                                              *)
(***************************************************************************)

\* Along a chain from a known header all are known, each one lower than the one
\* before it and with less work than the first.
LEMMA ChainWork ==
    ASSUME CacheOK, AncestryKnown, NEW c \in Chains, c[1] \in Known,
           NEW i \in 1 .. Len(c)
    PROVE  /\ c[i] \in Known
           /\ headers[c[1]].height = headers[c[i]].height + (i - 1)
           /\ i > 1 => headers[c[1]].log2work > headers[c[i]].log2work
<1> DEFINE P(j) == /\ c[j] \in Known
                   /\ headers[c[1]].height = headers[c[j]].height + (j - 1)
                   /\ j > 1 => headers[c[1]].log2work > headers[c[j]].log2work
           B == {j \in 1 .. Len(c) : ~P(j)}
<1>1. c \in Seq(Hash) /\ Len(c) \in Nat /\ Len(c) >= 1 /\ Linked(c)
  BY ChainProperties, PeriodAssumption
<1>2. \A h \in Known : headers[h].height \in Int /\ headers[h].log2work \in Int
  BY DifficultyAssumption DEF CacheOK, StoredHeader
<1>3. P(1)
  BY <1>2
<1>4. ASSUME NEW j \in 1 .. Len(c) - 1, P(j) PROVE P(j + 1)
  <2>1. j \in 1 .. Len(c) /\ j + 1 \in 1 .. Len(c) /\ j + 1 > 1 /\ j \in Int
    BY <1>1
  <2>2. Prev(c[j]) = c[j + 1] /\ c[j + 1] \in Hash /\ c[j + 1] # NoHash
    BY <1>1, <2>1, SeqElement, HashAssumption DEF Linked
  <2>3. /\ c[j + 1] \in Known
        /\ headers[c[j]].height = headers[c[j + 1]].height + 1
        /\ headers[c[j]].log2work > headers[c[j + 1]].log2work
    BY <1>4, <2>2 DEF AncestryKnown
  <2>4. headers[c[1]].height = headers[c[j + 1]].height + ((j + 1) - 1)
    <3> DEFINE a == headers[c[1]].height
               b == headers[c[j]].height
               d == headers[c[j + 1]].height
    <3>1. a = b + (j - 1) /\ b = d + 1 /\ d \in Int
      BY <1>2, <1>4, <2>3
    <3> HIDE DEF a, b, d
    <3>2. a = d + ((j + 1) - 1)
      BY <2>1, <3>1
    <3> QED BY <3>2 DEF a, d
  <2>5. headers[c[1]].log2work > headers[c[j + 1]].log2work
    <3>1. CASE j = 1
      BY <2>3, <3>1
    <3>2. CASE j > 1
      BY <1>2, <1>4, <2>3, <3>2
    <3> QED BY <2>1, <3>1, <3>2
  <2> QED BY <2>3, <2>4, <2>5
<1> HIDE DEF P
<1>5. B = {}
  <2> SUFFICES ASSUME B # {} PROVE FALSE
    OBVIOUS
  <2>1. PICK m \in B : \A k \in B : m <= k
    <3>1. B \in SUBSET Nat
      BY <1>1
    <3> HIDE DEF B
    <3> QED BY <3>1, LeastNat
  <2>2. m \in 1 .. Len(c) /\ m # 1 /\ m - 1 \in 1 .. Len(c) /\ m - 1 \notin B
    BY <1>1, <1>3, <2>1
  <2>3. P(m - 1) /\ m - 1 \in 1 .. Len(c) - 1 /\ (m - 1) + 1 = m
    BY <1>1, <2>2
  <2>4. P(m)
    BY <1>4, <2>3
  <2> QED BY <2>1, <2>4
<1>6. P(i)
  BY <1>5
<1> QED BY <1>6 DEF P

-----------------------------------------------------------------------------
(***************************************************************************)
(* The header that moves the tip, and the headers that follow the tip.     *)
(***************************************************************************)

\* The header that moves the tip is the new tip.
LEMMA MovedTip ==
    ASSUME CacheOK, NEW h \in Hash, MovesTip(h)
    PROVE  Last(trunk') = h
<1>1. CASE AddReorg(h)
  BY <1>1, ReorgTrunk, Zenon
<1>2. CASE trunk' = Append(trunk, h)
  <2>1. trunk \in Seq(Hash)
    BY SeqGrows DEF CacheOK
  <2>2. Len(trunk') = Len(trunk) + 1 /\ trunk'[Len(trunk) + 1] = h
    BY <1>2, <2>1, Appended
  <2> QED BY <2>2 DEF Last
<1> QED BY <1>1, <1>2 DEF MovesTip, AddExtend, InsertGenesis

\* A sequence read backwards has the same elements.
LEMMA ReversedRange ==
    ASSUME NEW S, NEW c \in Seq(S)
    PROVE  Range(Reverse(c)) = Range(c)
<1>1. /\ Reverse(c) \in Seq(S) /\ Len(Reverse(c)) = Len(c) /\ Len(c) \in Nat
      /\ \A i \in 1 .. Len(c) : Reverse(c)[i] = c[(Len(c) - i) + 1]
  BY ReverseProperties
<1>2. Range(c) = {c[i] : i \in 1 .. Len(c)} /\ Range(Reverse(c)) = {Reverse(c)[i] : i \in 1 .. Len(c)}
  BY <1>1, RangeOfSeq
<1>3. ASSUME NEW i \in 1 .. Len(c)
      PROVE  /\ (Len(c) - i) + 1 \in 1 .. Len(c)
             /\ c[i] = Reverse(c)[(Len(c) - i) + 1]
  <2>1. (Len(c) - i) + 1 \in 1 .. Len(c) /\ (Len(c) - ((Len(c) - i) + 1)) + 1 = i
    BY <1>1
  <2> QED BY <1>1, <2>1, Zenon
<1> QED BY <1>1, <1>2, <1>3, Zenon

\* h comes after a on a chain.
Descends(a, h) == \E c \in Chains : Len(c) > 1 /\ c[1] = h /\ Last(c) = a

\* The headers of a message follow each other.
InOrder(hs) == \A i \in 1 .. Len(hs) - 1 : Descends(hs[i], hs[i + 1])

\* No descendant of the tip is known: it would have more work.
LEMMA TipHasNoDescendant ==
    ASSUME WorkResolved, IInv, trunk # <<>>, NEW h, Descends(tip_hash, h)
    PROVE  h \notin Known
<1> SUFFICES ASSUME h \in Known PROVE FALSE
  OBVIOUS
<1>1. PICK c \in Chains : Len(c) > 1 /\ c[1] = h /\ Last(c) = tip_hash
  BY DEF Descends
<1>2. AncestryKnown /\ CacheOK /\ TipMostWork /\ tip_hash \in Known
  BY InvAncestry, TrunkEnds DEF IInv, TypeOK, CacheOK, CacheInv, TipMostWork
<1>3. Len(c) \in Nat /\ Len(c) \in 1 .. Len(c)
  BY ChainProperties, PeriodAssumption
<1>4. headers[c[1]].log2work > headers[c[Len(c)]].log2work
  BY <1>1, <1>2, <1>3, ChainWork
<1>5. headers[h].log2work > headers[tip_hash].log2work
  BY <1>1, <1>4 DEF Last
<1>6. headers[h].log2work \in Int /\ headers[tip_hash].log2work \in Int
  BY <1>2, DifficultyAssumption DEF CacheOK, StoredHeader
<1> QED BY <1>2, <1>5, <1>6 DEF TipMostWork

\* A descendant of the tip that is added moves the tip.
LEMMA DescendantMovesTip ==
    ASSUME WorkResolved, IInv, trunk # <<>>, NEW h \in Hash, Descends(tip_hash, h)
    PROVE  ~AddSide(h)
<1> SUFFICES ASSUME AddSide(h) PROVE FALSE
  OBVIOUS
<1>1. PICK c \in Chains : Len(c) > 1 /\ c[1] = h /\ Last(c) = tip_hash
  BY DEF Descends
<1>2. AncestryKnown /\ CacheOK /\ tip_hash \in Known
  BY InvAncestry, TrunkEnds DEF IInv, TypeOK, CacheOK
<1>3. Len(c) \in Nat /\ Linked(c)
  BY ChainProperties, PeriodAssumption
<1>4. /\ Prev(h) \in Known /\ total_work(h) \in 0 .. MAX_WORK - 1
      /\ headers[tip_hash].log2work >= stored_header(h).log2work
  <2>1. Accept(h) /\ ~MoreWork(h)
    BY DEF AddSide
  <2>2. Prev(h) \in Known /\ total_work(h) \in 0 .. MAX_WORK - 1 /\ stored_header(h) \in StoredHeader
    BY <1>2, <2>1, AcceptProperties
  <2>3. headers[tip_hash].log2work \in Int /\ stored_header(h).log2work \in Int
    BY <1>2, <2>2, DifficultyAssumption DEF CacheOK, StoredHeader
  <2> QED BY <2>1, <2>2, <2>3 DEF MoreWork
<1> DEFINE d == SubSeq(c, 2, Len(c))
           w == headers[Prev(h)].log2work
<1>5. /\ d \in Chains /\ Len(d) = Len(c) - 1 /\ d[1] = c[2] /\ Last(d) = tip_hash
  <2>1. 2 \in 1 .. Len(c) /\ Len(c) \in 2 .. Len(c) /\ 1 \in 1 .. Len(c) - 2 + 1
    BY <1>1, <1>3
  <2>2. /\ d \in Chains /\ Len(d) = Len(c) - 2 + 1 /\ Last(d) = c[Len(c)]
        /\ \A i \in 1 .. Len(c) - 2 + 1 : d[i] = c[2 + i - 1]
    BY <2>1, SubChain
  <2> HIDE DEF d
  <2> QED BY <1>1, <1>3, <2>1, <2>2 DEF Last
<1>6. c[2] = Prev(h)
  <2>1. 1 \in 1 .. Len(c) - 1
    BY <1>1, <1>3
  <2> QED BY <1>1, <1>3, <2>1 DEF Linked
<1> HIDE DEF d
<1>7. w \in 0 .. MAX_WORK - 1 /\ w >= headers[tip_hash].log2work
  <2>1. w \in 0 .. MAX_WORK - 1 /\ headers[tip_hash].log2work \in Int /\ w \in Int
    BY <1>2, <1>4, DifficultyAssumption DEF CacheOK, StoredHeader
  <2>2. CASE Len(d) = 1
    <3>1. Prev(h) = tip_hash
      BY <1>5, <1>6, <2>2, Zenon DEF Last
    <3> HIDE DEF w
    <3> QED BY <2>1, <3>1 DEF w
  <2>3. CASE Len(d) > 1
    <3>1. Len(d) \in 1 .. Len(d)
      BY <1>3, <1>5, <2>3
    <3>2. headers[d[1]].log2work > headers[d[Len(d)]].log2work
      BY <1>2, <1>4, <1>5, <1>6, <2>3, <3>1, ChainWork
    <3> QED BY <1>5, <1>6, <2>1, <3>2 DEF Last
  <2> QED BY <1>1, <1>3, <1>5, <2>2, <2>3
<1>8. HeaderWork(h) \in Nat /\ total_work(h) = w + HeaderWork(h) /\ w + HeaderWork(h) < MAX_WORK
  <2>1. HeaderWork(h) \in Nat /\ MAX_WORK \in Int
    BY WorkAssumption, DifficultyAssumption
  <2> QED BY <1>4, <1>7, <2>1 DEF total_work
<1>9. stored_header(h).log2work > w
  BY <1>7, <1>8 DEF WorkResolved, stored_header
<1>10. stored_header(h).log2work \in Int /\ headers[tip_hash].log2work \in Int
  BY <1>2, <1>4, DifficultyAssumption, KeptWorkAssumption
  DEF CacheOK, StoredHeader, stored_header, RoundWork
<1> QED BY <1>4, <1>7, <1>9, <1>10

\* What a peer answers follows its chain.
LEMMA ChainInOrder ==
    ASSUME NEW c \in Chains, NEW m \in Nat \ {0}, NEW n \in Nat, n <= Len(c)
    PROVE  InOrder(SubSeq(Reverse(c), m, n))
<1> DEFINE r == Reverse(c)
           s == SubSeq(r, m, n)
           l == Len(c)
<1>1. c \in Seq(Hash) /\ l \in Nat /\ Linked(c)
  BY ChainProperties, PeriodAssumption
<1>2. r \in Seq(Hash) /\ Len(r) = l /\ \A i \in 1 .. l : r[i] = c[(l - i) + 1]
  BY <1>1, ReverseProperties
<1> HIDE DEF r
<1>3. /\ Len(s) = IF m <= n THEN n - m + 1 ELSE 0
      /\ \A i \in 1 .. n - m + 1 : s[i] = r[m + i - 1]
  <2>1. \A i \in m .. n : r[i] \in Hash
    BY <1>1, <1>2, SeqElement
  <2> QED BY <1>1, <1>2, <2>1, PartOfSeq
<1> HIDE DEF s
<1>4. ASSUME NEW i \in 1 .. Len(s) - 1 PROVE Descends(s[i], s[i + 1])
  <2> DEFINE k == (l - (m + i)) + 1
             d == SubSeq(c, k, k + 1)
  <2>1. /\ m <= n /\ i \in 1 .. n - m + 1 /\ i + 1 \in 1 .. n - m + 1
        /\ m + i - 1 \in 1 .. l /\ m + (i + 1) - 1 \in 1 .. l /\ m + (i + 1) - 1 = m + i
        /\ k \in 1 .. l /\ k + 1 \in k .. l /\ (l - (m + i - 1)) + 1 = k + 1
        /\ (k + 1) - k + 1 = 2 /\ 1 \in 1 .. 2 /\ k + 1 - 1 = k
    BY <1>1, <1>3
  <2>2. s[i] = c[k + 1] /\ s[i + 1] = c[k]
    <3>1. s[i] = r[m + i - 1] /\ s[i + 1] = r[m + (i + 1) - 1]
      BY <1>3, <2>1, Zenon
    <3>2. r[m + i - 1] = c[(l - (m + i - 1)) + 1] /\ r[m + i] = c[(l - (m + i)) + 1]
      BY <1>2, <2>1, Zenon
    <3> QED BY <2>1, <3>1, <3>2, Zenon
  <2> HIDE DEF k
  <2>3. /\ d \in Chains /\ Len(d) = (k + 1) - k + 1 /\ Last(d) = c[k + 1]
        /\ \A j \in 1 .. (k + 1) - k + 1 : d[j] = c[k + j - 1]
    BY <2>1, SubChain, Zenon
  <2> HIDE DEF d
  <2>4. Len(d) > 1 /\ d[1] = c[k]
    BY <2>1, <2>3
  <2> QED BY <2>2, <2>3, <2>4 DEF Descends
<1> QED BY <1>4 DEF InOrder, s, r

\* The rest of headers that follow each other.
LEMMA TailInOrder ==
    ASSUME NEW s \in Seq(Hash), s # <<>>, InOrder(s)
    PROVE  /\ InOrder(Tail(s))
           /\ Tail(s) # <<>> => Descends(Head(s), Head(Tail(s)))
<1>1. Len(s) \in Nat /\ Len(s) >= 1
  BY EmptySeq
<1>2. /\ Tail(s) \in Seq(Hash) /\ Len(Tail(s)) = Len(s) - 1
      /\ \A i \in 1 .. Len(s) - 1 : Tail(s)[i] = s[i + 1]
  BY HeadTail
<1>3. InOrder(Tail(s))
  <2> SUFFICES ASSUME NEW i \in 1 .. Len(Tail(s)) - 1
               PROVE  Descends(Tail(s)[i], Tail(s)[i + 1])
    BY DEF InOrder
  <2>1. i \in 1 .. Len(s) - 1 /\ i + 1 \in 1 .. Len(s) - 1
    BY <1>1, <1>2
  <2> QED BY <1>2, <2>1 DEF InOrder
<1>4. ASSUME Tail(s) # <<>> PROVE Descends(Head(s), Head(Tail(s)))
  <2>1. 1 \in 1 .. Len(s) - 1
    BY <1>1, <1>2, <1>4, EmptySeq
  <2>2. Head(s) = s[1] /\ Head(Tail(s)) = s[1 + 1]
    BY <1>2, <2>1
  <2> QED BY <2>1, <2>2 DEF InOrder
<1> QED BY <1>3, <1>4

=============================================================================
