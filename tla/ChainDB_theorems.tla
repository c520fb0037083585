-------------------------- MODULE ChainDB_theorems --------------------------
(***************************************************************************)
(* ChainDB implements MostWork, for every tree of headers; the trunk,      *)
(* which MostWork leaves out, stays on the best chain; what a restart      *)
(* finds; and how cache and store agree when puts fail.                    *)
(***************************************************************************)
EXTENDS ChainDB_proofs, ChainDBMostWork


\* Loading the stored chain is Restart: some of the saved headers are kept.
LEMMA LoadIsRestart ==
    ASSUME IInv, IInv', LoadHeaders
    PROVE  Abstract!Restart
<1>1. /\ db' = db /\ disk' = disk /\ phase = "down" /\ phase' = "up" /\ db = disk
      /\ ~Running /\ Running'
  BY DEF LoadHeaders, storeVars, IInv, PhaseInv, Running
<1>2. /\ tip_hash' \in Known' /\ db.tip = tip_hash' /\ tip_hash' # NoHash
      /\ \A h \in Known' : h \in DOMAIN disk.headers /\ headers'[h] = disk.headers[h]
  <2>1. CacheOK' /\ trunk' # <<>> /\ PhaseInv'
    BY <1>1 DEF IInv, TypeOK, CacheOK
  <2>2. tip_hash' \in Known' /\ Known' \subseteq Hash
    <3>1. trunk' \in Seq(Known') /\ Len(trunk') \in Nat /\ Len(trunk') >= 1
      BY <2>1, SeqIsFunction, EmptySeq DEF CacheOK
    <3>2. trunk'[Len(trunk')] \in Known'
      BY <3>1, SeqElement
    <3> QED BY <2>1, <3>2 DEF CacheOK, tip_hash, Last
  <2> QED BY <1>1, <2>1, <2>2, HashAssumption DEF PhaseInv
<1>3. AbsSaved' = AbsSaved
  BY <1>1 DEF AbsSaved
<1>4. AbsTip = NoHash /\ AbsSaved.tip # NoHash /\ AbsTip' = AbsSaved.tip
  BY <1>1, <1>2 DEF AbsTip, AbsSaved, Running
<1>5. /\ Known' \in SUBSET DOMAIN AbsSaved.work
      /\ AbsSaved.tip \in Known'
      /\ AbsWork' = [h \in Known' |-> AbsSaved.work[h]]
  BY <1>1, <1>2 DEF AbsWork, AbsSaved, Running
<1> QED BY <1>3, <1>4, <1>5 DEF Abstract!Restart

\* Storing genesis as the tip is Begin.
LEMMA GenesisIsBegin ==
    ASSUME IInv, StoreGenesisTip
    PROVE  Abstract!Begin(Genesis)
<1>1. /\ phase = "genesis" /\ phase' = "up" /\ disk' = [db EXCEPT !.tip = Genesis]
      /\ headers' = headers /\ trunk' = trunk
      /\ db = disk /\ trunk = <<Genesis>> /\ Known = {Genesis} /\ db.tip = NoHash
      /\ Genesis \in DOMAIN db.headers
      /\ db.headers[Genesis] = headers[Genesis]
      /\ DOMAIN db.headers \subseteq {Genesis}
      /\ Genesis # NoHash
  BY HashAssumption DEF StoreGenesisTip, cacheVars, IInv, PhaseInv, SoundStore
<1>2. disk'.tip = Genesis /\ disk'.headers = db.headers /\ Known' = {Genesis}
  <2>1. db = [headers |-> db.headers, tip |-> db.tip]
    BY DEF IInv, TypeOK, IsStore
  <2> QED BY <1>1, <2>1 DEF Known
<1>3. AbsTip = NoHash /\ AbsSaved.tip = NoHash
  BY <1>1 DEF AbsTip, AbsSaved
<1>4. tip_hash' = Genesis
  BY <1>1 DEF tip_hash, Last
<1>5. AbsTip' = Genesis /\ AbsWork' = [h \in {Genesis} |-> headers'[h].log2work]
  BY <1>1, <1>2, <1>4 DEF AbsTip, AbsWork
<1>6. AbsSaved' = [work |-> AbsWork', tip |-> Genesis]
  <2>1. DOMAIN disk'.headers = {Genesis}
    BY <1>1, <1>2
  <2> QED BY <1>1, <1>2, <1>5, <2>1 DEF AbsSaved
<1> QED BY <1>3, <1>5, <1>6 DEF Abstract!Begin

\* batch is Save.
LEMMA BatchIsSave ==
    ASSUME IInv, batch
    PROVE  Abstract!Save
<1>1. /\ phase = "up" /\ phase' = "up" /\ Running /\ disk' = db /\ trunk # <<>>
      /\ headers' = headers /\ trunk' = trunk
  BY DEF batch, IInv, TypeOK, Running
<1>2. AbsWork' = AbsWork /\ AbsTip' = AbsTip
  BY <1>1 DEF AbsWork, AbsTip, Known, tip_hash
<1>3. /\ tip_hash \in Known /\ Known \subseteq Hash /\ Genesis \in Known
      /\ db.tip = tip_hash /\ db.tip # NoHash
      /\ \A h \in Known : h \in DOMAIN db.headers /\ db.headers[h] = headers[h]
      /\ \A h \in DOMAIN db.headers :
            h \in Known \/ (h \in DOMAIN disk.headers /\ db.headers[h] = disk.headers[h])
  <2>1. CacheOK /\ PhaseInv /\ trunk[1] = Genesis
    BY <1>1 DEF IInv, TypeOK, CacheOK, CacheInv
  <2>2. tip_hash \in Known /\ Known \subseteq Hash /\ Genesis \in Known
    BY <1>1, <2>1, TrunkEnds DEF CacheOK
  <2> QED BY <1>1, <2>1, <2>2, HashAssumption DEF PhaseInv
<1> DEFINE old == DOMAIN db.headers \ Known
<1>4. /\ old \subseteq DOMAIN AbsSaved.work
      /\ \A h \in old : AbsSaved.work[h] = db.headers[h].log2work
  <2>1. disk.tip # NoHash \/ old = {}
    BY <1>3 DEF IInv, SoundStore
  <2> QED BY <1>3, <2>1 DEF AbsSaved
<1>5. DOMAIN db.headers = Known \cup old
  BY <1>3
<1>6. AbsWork = [h \in Known |-> headers[h].log2work] /\ AbsTip = tip_hash
  BY <1>1 DEF AbsWork, AbsTip
<1>7. AbsSaved' = [work |-> [h \in DOMAIN db.headers |-> db.headers[h].log2work], tip |-> tip_hash]
  BY <1>1, <1>3 DEF AbsSaved
<1>8. [h \in DOMAIN db.headers |-> db.headers[h].log2work]
        = [h \in DOMAIN AbsWork \cup old |->
              IF h \in DOMAIN AbsWork THEN AbsWork[h] ELSE AbsSaved.work[h]]
  BY <1>3, <1>4, <1>5, <1>6
<1>9. old \in SUBSET DOMAIN AbsSaved.work /\ AbsTip # NoHash
  BY <1>3, <1>4, <1>6
<1> QED BY <1>2, <1>6, <1>7, <1>8, <1>9, Zenon DEF Abstract!Save

\* A header that is added is learnt, and becomes the tip if it has more work.
LEMMA AddIsLearn ==
    ASSUME OneRoot, IInv, phase = "up", phase' = phase, disk' = disk,
           NEW h \in Hash, AddSide(h) \/ MovesTip(h)
    PROVE  Abstract!Learn(h)
<1>1. CacheOK /\ CacheInv /\ trunk # <<>> /\ Running /\ Running'
  BY DEF IInv, TypeOK, CacheOK, Running
<1>2. tip_hash \in Known /\ Known \subseteq Hash /\ tip_hash # NoHash
  BY <1>1, TrunkEnds, HashAssumption DEF CacheOK
<1>3. Accept(h)
  BY <1>1, OnlyAccepts
<1>4. /\ h \notin Known
      /\ stored_header(h) \in StoredHeader
      /\ Insert(h, stored_header(h))
  BY <1>1, <1>3, AcceptProperties
<1>5. Known' = Known \cup {h} /\ \A x \in Known : headers'[x] = headers[x]
  BY <1>4 DEF Insert, Known
<1>6. AbsSaved' = AbsSaved
  BY DEF AbsSaved
<1>7. AbsWork = [x \in Known |-> headers[x].log2work] /\ AbsTip = tip_hash
  BY <1>1 DEF AbsWork, AbsTip, Running
<1>8. AbsWork' = [x \in Known' |-> headers'[x].log2work] /\ AbsTip' = tip_hash'
  BY <1>1 DEF AbsWork, AbsTip, Running
<1>9. /\ headers'[h].log2work \in Int /\ headers[tip_hash].log2work \in Int
  BY <1>1, <1>2, <1>4, DifficultyAssumption DEF Insert, StoredHeader, CacheOK
<1>10. tip_hash' = IF headers'[h].log2work > headers[tip_hash].log2work THEN h ELSE tip_hash
  <2>1. CASE AddSide(h)
    BY <1>1, <1>9, <2>1, NewTip DEF tip_hash
  <2>2. CASE MovesTip(h)
    BY <1>1, <2>2, NewTip DEF tip_hash
  <2> QED BY <2>1, <2>2
<1>11. /\ DOMAIN AbsWork = Known /\ DOMAIN AbsWork' = Known \cup {h}
       /\ \A x \in Known : AbsWork'[x] = AbsWork[x]
       /\ AbsWork'[h] = headers'[h].log2work /\ AbsWork[tip_hash] = headers[tip_hash].log2work
  BY <1>2, <1>5, <1>7, <1>8
<1> QED BY <1>2, <1>4, <1>6, <1>7, <1>8, <1>10, <1>11 DEF Abstract!Learn

\* Every step of ChainDB is a step of MostWork, or leaves its state alone.
LEMMA StepRefines ==
    ASSUME Sane, IInv, IInv', [Next]_chainVars
    PROVE  [Abstract!Next]_Abstract!vars
<1> DEFINE Same == AbsWork' = AbsWork /\ AbsTip' = AbsTip /\ AbsSaved' = AbsSaved
<1>0. Same => UNCHANGED Abstract!vars
  BY DEF Abstract!vars
<1>1. CASE LoadHeaders
  BY <1>1, LoadIsRestart DEF Abstract!Next
<1>2. CASE StoreGenesis
  <2>1. /\ phase = "down" /\ phase' = "genesis" /\ db = disk /\ db.tip = NoHash
        /\ disk'.tip = NoHash
    BY <1>2 DEF StoreGenesis, Put, IInv, PhaseInv
  <2> QED BY <1>0, <2>1 DEF AbsWork, AbsTip, AbsSaved
<1>3. CASE StoreGenesisTip
  BY <1>3, GenesisIsBegin, HashAssumption DEF Abstract!Next
<1>4. CASE batch
  BY <1>4, BatchIsSave DEF Abstract!Next
<1>5. ASSUME NEW h \in Hash, add_header(h) PROVE [Abstract!Next]_Abstract!vars
  <2>0. phase = "up" /\ trunk # <<>> /\ CacheOK /\ CacheInv
    BY <1>5 DEF add_header, IInv, TypeOK, CacheOK
  <2>1. CASE AddRejected(h)
    <3>1. UNCHANGED chainVars
      BY <2>1 DEF AddRejected, Rejects, IgnoreKnown, RejectUnconnected,
                  RejectProofOfWork, cacheVars, chainVars
    <3> QED BY <1>0, <3>1 DEF chainVars, AbsWork, AbsTip, AbsSaved, Known, tip_hash
  <2>2. CASE AddLost(h)
    <3>1. Prev(h) \in Known /\ PathsToTrunk(h) = {}
      BY <2>0, <2>2, AcceptProperties DEF AddLost, AddPathLost
    <3> QED BY <2>0, <3>1, PathFound
  <2>3. CASE AddBranch(h) \/ AddTip(h)
    <3>1. (AddSide(h) \/ MovesTip(h)) /\ disk' = disk /\ phase' = phase
      BY <2>3 DEF AddBranch, AddTip
    <3> QED BY <2>0, <3>1, AddIsLearn DEF Sane, Abstract!Next
  <2>4. CASE AddPutFails(h)
    BY <2>4 DEF AddPutFails, Sane
  <2>5. CASE AddPanics(h)
    <3>1. headers' = headers /\ trunk' = trunk /\ disk' = disk /\ phase' = "poisoned"
      BY <2>5 DEF AddPanics
    <3> QED BY <1>0, <2>0, <3>1 DEF AbsWork, AbsTip, AbsSaved, Known, tip_hash
  <2> QED BY <1>5, <2>1, <2>2, <2>3, <2>4, <2>5 DEF add_header
<1>6. CASE Crash
  <2>1. phase' = "down" /\ disk' = disk /\ phase \in {"genesis", "up", "poisoned"}
    BY <1>6 DEF Crash, IInv, TypeOK
  <2>2. AbsWork' = Abstract!Nothing /\ AbsTip' = NoHash /\ AbsSaved' = AbsSaved
    BY <2>1 DEF AbsWork, AbsTip, AbsSaved, Abstract!Nothing
  <2>3. CASE phase = "genesis"
    BY <1>0, <2>2, <2>3 DEF AbsWork, AbsTip, Abstract!Nothing
  <2>4. CASE phase # "genesis"
    <3>1. tip_hash # NoHash
      BY <2>1, TrunkEnds, HashAssumption DEF IInv, TypeOK, CacheOK
    <3>2. AbsTip # NoHash
      BY <2>1, <2>4, <3>1 DEF AbsTip
    <3> QED BY <2>2, <3>2 DEF Abstract!Crash, Abstract!Next
  <2> QED BY <2>3, <2>4
<1>7. CASE UNCHANGED chainVars
  BY <1>0, <1>7 DEF chainVars, AbsWork, AbsTip, AbsSaved, Known, tip_hash
<1> QED BY <1>1, <1>2, <1>3, <1>4, <1>5, <1>6, <1>7 DEF Next

\* ChainDB implements MostWork: whatever is added, batched and lost in crashes,
\* the tip is the first learnt of the headers with most work, and a restart goes
\* back to the last batch.
THEOREM Refinement ==
    ASSUME Sane
    PROVE  Spec => ImplementsMostWork
<1>1. Init => Abstract!Init
  BY DEF Init, EmptyCache, Abstract!Init, Abstract!Nothing, AbsWork, AbsTip, AbsSaved
<1>2. IInv /\ IInv' /\ [Next]_chainVars => [Abstract!Next]_Abstract!vars
  BY StepRefines
<1> QED BY <1>1, <1>2, Invariance, PTL DEF Spec, ImplementsMostWork, Abstract!Spec

-----------------------------------------------------------------------------
(***************************************************************************)
(* The trunk.  On its way from genesis to the tip it may repeat a header   *)
(* or leave one out after a reorganisation, but it never leaves the best   *)
(* chain.                                                                  *)
(***************************************************************************)

\* Two walks from the same header meet the same headers.
LEMMA OneWalk ==
    ASSUME NEW c \in Chains, NEW d \in Chains, c[1] = d[1],
           NEW i \in 1 .. Len(c), i <= Len(d)
    PROVE  c[i] = d[i]
<1> DEFINE B == {j \in 1 .. Len(c) : j <= Len(d) /\ c[j] # d[j]}
<1>1. Len(c) \in Nat /\ Len(d) \in Nat /\ Linked(c) /\ Linked(d)
  BY ChainProperties, PeriodAssumption
<1>2. B = {}
  <2> SUFFICES ASSUME B # {} PROVE FALSE
    OBVIOUS
  <2>1. PICK m \in B : \A k \in B : m <= k
    <3>1. B \in SUBSET Nat
      BY <1>1
    <3> HIDE DEF B
    <3> QED BY <3>1, LeastNat
  <2>2. m \in 1 .. Len(c) /\ m <= Len(d) /\ c[m] # d[m] /\ m # 1
    BY <2>1
  <2>3. /\ m - 1 \in 1 .. Len(c) /\ m - 1 <= Len(d) /\ m - 1 \notin B
        /\ m - 1 \in 1 .. Len(c) - 1 /\ m - 1 \in 1 .. Len(d) - 1 /\ (m - 1) + 1 = m
    BY <1>1, <2>1, <2>2
  <2>4. c[m - 1] = d[m - 1]
    BY <2>3
  <2>5. Prev(c[m - 1]) = c[m] /\ Prev(d[m - 1]) = d[m]
    BY <1>1, <2>3 DEF Linked
  <2> QED BY <2>2, <2>4, <2>5
<1> QED BY <1>2

\* A walk may start one header earlier.
LEMMA Prepend ==
    ASSUME WalksComplete, NEW c \in Chains, NEW h \in Hash, Prev(h) = c[1]
    PROVE  \E d \in Chains : /\ d[1] = h /\ Last(d) = Last(c)
                             /\ \A i \in 1 .. Len(d) : d[i] = h \/ \E j \in 1 .. Len(c) : d[i] = c[j]
<1> DEFINE d == <<h>> \o c
<1>1. d \in Chains
  BY DEF WalksComplete
<1>2. c \in Seq(Hash) /\ Len(c) \in Nat /\ Len(c) >= 1
  BY ChainProperties, PeriodAssumption
<1>3. <<h>> \in Seq(Hash) /\ Len(<<h>>) = 1 /\ <<h>>[1] = h
  OBVIOUS
<1>4. Len(d) = 1 + Len(c) /\ \A i \in 1 .. 1 + Len(c) : d[i] = IF i <= 1 THEN <<h>>[i] ELSE c[i - 1]
  BY <1>2, <1>3, Joined
<1> HIDE DEF d
<1>5. d[1] = h /\ Last(d) = Last(c)
  BY <1>2, <1>3, <1>4 DEF Last
<1>6. ASSUME NEW i \in 1 .. Len(d) PROVE d[i] = h \/ \E j \in 1 .. Len(c) : d[i] = c[j]
  <2>1. i = 1 \/ (i - 1 \in 1 .. Len(c) /\ d[i] = c[i - 1])
    BY <1>2, <1>4
  <2> QED BY <1>5, <2>1
<1> QED BY <1>1, <1>5, <1>6

\* A header alone is a walk.
LEMMA SingleWalk ==
    ASSUME NEW h \in Hash
    PROVE  \E c \in Chains : c[1] = h /\ Len(c) = 1
<1> DEFINE c == [i \in 1 .. 1 |-> h]
<1>1. c \in [1 .. 1 -> Hash] /\ 1 \in 1 .. MaxChain /\ Len(c) = 1 /\ c[1] = h
  BY PeriodAssumption
<1>2. Linked(c)
  BY <1>1 DEF Linked
<1> HIDE DEF c
<1>3. c \in Chains
  BY <1>1, <1>2 DEF Chains
<1> QED BY <1>1, <1>3

\* IsAncestor is reflexive.
LEMMA SelfAncestor ==
    ASSUME NEW h \in Hash
    PROVE  IsAncestor(h, h)
BY SingleWalk DEF IsAncestor, Last

\* The ancestors of a parent are ancestors of its children.
LEMMA ParentAncestor ==
    ASSUME WalksComplete, NEW h \in Hash, NEW a, IsAncestor(a, Prev(h))
    PROVE  IsAncestor(a, h)
BY Prepend DEF IsAncestor

\* Of two neighbours in a chain, the later one is an ancestor of the earlier one.
LEMMA NeighbourAncestor ==
    ASSUME NEW c \in Chains, NEW k \in 1 .. Len(c) - 1
    PROVE  IsAncestor(c[k + 1], c[k])
<1> DEFINE d == SubSeq(c, k, k + 1)
<1>1. Len(c) \in Nat
  BY ChainProperties, PeriodAssumption
<1>2. k \in 1 .. Len(c) /\ k + 1 \in k .. Len(c) /\ 1 \in 1 .. (k + 1) - k + 1 /\ k + 1 - 1 = k
  BY <1>1
<1>3. /\ d \in Chains /\ Last(d) = c[k + 1]
      /\ \A j \in 1 .. (k + 1) - k + 1 : d[j] = c[k + j - 1]
  BY <1>2, SubChain
<1> HIDE DEF d
<1>4. d[1] = c[k]
  BY <1>2, <1>3
<1> QED BY <1>3, <1>4 DEF IsAncestor

\* IsAncestor is transitive.
LEMMA AncestorTransitive ==
    ASSUME WalksComplete, NEW a, NEW b, NEW h, IsAncestor(a, b), IsAncestor(b, h)
    PROVE  IsAncestor(a, h)
<1>1. PICK e \in Chains : e[1] = h /\ Last(e) = b
  BY DEF IsAncestor
<1>2. e \in Seq(Hash) /\ Len(e) \in Nat /\ Len(e) >= 1 /\ Linked(e)
  BY ChainProperties, PeriodAssumption
<1> DEFINE B == {j \in 1 .. Len(e) : ~IsAncestor(a, e[j])}
<1>3. B = {}
  <2> SUFFICES ASSUME B # {} PROVE FALSE
    OBVIOUS
  <2> DEFINE m == Max(B)
  <2>1. m \in B /\ \A k \in B : k <= m
    <3>1. B \in SUBSET (0 .. Len(e))
      BY <1>2
    <3> HIDE DEF B
    <3> QED BY <1>2, <3>1, MaxNat, Zenon
  <2> HIDE DEF m
  <2>2. m \in 1 .. Len(e) /\ m # Len(e)
    BY <1>1, <2>1 DEF Last
  <2>3. m \in 1 .. Len(e) - 1 /\ m + 1 \in 1 .. Len(e) /\ m + 1 \notin B
    BY <1>2, <2>1, <2>2
  <2>4. IsAncestor(a, Prev(e[m])) /\ e[m] \in Hash
    BY <1>2, <2>2, <2>3, SeqElement DEF Linked
  <2> QED BY <2>1, <2>4, ParentAncestor
<1>4. 1 \in 1 .. Len(e)
  BY <1>2
<1> QED BY <1>1, <1>3, <1>4

\* h has the target that a child of its parent must have on the main network, a
\* walk back to genesis giving the height and one over a period its start.
TargetDue(h) ==
    \E c \in Chains :
        /\ c[1] = Prev(h) /\ Last(c) = Genesis
        /\ IF Len(c) % DIFFCHANGE_INTERVAL = 0
           THEN \E d \in Chains :
                   /\ d[1] = Prev(h) /\ Len(d) = DIFFCHANGE_INTERVAL
                   /\ HeaderTarget(h) =
                         Retarget(HeaderTarget(Prev(h)),
                                  ClampedTimespan(Header[Last(d)].time, Header[Prev(h)].time))
           ELSE HeaderTarget(h) = HeaderTarget(Prev(h))

\* The length of a walk from a known header to genesis is its height plus one.
LEMMA WalkHeight ==
    ASSUME WorkResolved, IInv, NEW p \in Known, NEW c \in Chains, c[1] = p, Last(c) = Genesis
    PROVE  Len(c) = headers[p].height + 1 /\ headers[p].height \in Nat
<1>1. AncestryKnown /\ CacheOK
  BY InvAncestry DEF IInv, TypeOK, CacheOK
<1>2. Len(c) \in Nat /\ Len(c) \in 1 .. Len(c)
  BY ChainProperties, PeriodAssumption
<1>3. Genesis \in Known /\ headers[p].height = headers[Genesis].height + (Len(c) - 1)
  BY <1>1, <1>2, ChainWork DEF Last
<1>4. headers[Genesis].height = 0
  <2>1. Prev(Genesis) = NoHash /\ NoHash \notin Known
    BY <1>1, HeaderAssumption, HashAssumption DEF Prev, CacheOK
  <2> QED BY <1>1, <1>3, <2>1 DEF AncestryKnown
<1>5. headers[p].height \in Nat
  BY <1>1 DEF CacheOK, StoredHeader
<1> QED BY <1>2, <1>3, <1>4, <1>5

\* A child of the tip would have more work than the tip.
LEMMA InvFastPath ==
    ASSUME WorkResolved, IInv
    PROVE  FastPathUnused
<1> SUFFICES ASSUME trunk # <<>>, NEW h \in Known, Prev(h) = tip_hash PROVE FALSE
  BY DEF FastPathUnused
<1>1. AncestryKnown /\ TipMostWork /\ tip_hash \in Known /\ Known \subseteq Hash
  BY InvAncestry, TrunkEnds DEF IInv, CacheInv, TipMostWork, TypeOK, CacheOK
<1>2. headers[h].log2work > headers[tip_hash].log2work
  BY <1>1, HashAssumption DEF AncestryKnown
<1>3. headers[h].log2work \in Int /\ headers[tip_hash].log2work \in Int
  BY <1>1, DifficultyAssumption DEF IInv, TypeOK, StoredHeader
<1> QED BY <1>1, <1>2, <1>3 DEF TipMostWork

\* The retarget code's short cut (line 199) is dead: the tip has no child.
THEOREM FastPathIsUnused ==
    ASSUME Sane, WorkResolved
    PROVE  Spec => []FastPathUnused
<1>1. IInv => FastPathUnused
  BY InvFastPath
<1> QED BY <1>1, Invariance, PTL

\* A header that is accepted has the target that is due: the short cut of the
\* retarget code is not taken.
LEMMA AcceptDue ==
    ASSUME WorkResolved, ~Testnet, IInv, trunk # <<>>, NEW h \in Hash, Accept(h)
    PROVE  TargetDue(h)
<1> DEFINE p == Prev(h)
<1>1. p \in Known /\ HeaderTarget(h) \in required_work(p, h)
  BY DEF Accept, Validated, Connects, spv_validate
<1>2. ~FastPath(p)
  BY <1>1, InvFastPath DEF FastPathUnused, FastPath
<1>3. PICK c \in Chains : c[1] = p /\ Last(c) = Genesis
  BY <1>1 DEF IInv, CacheInv, RootPaths
<1>4. ChangesDifficulty(p) <=> Len(c) % DIFFCHANGE_INTERVAL = 0
  BY <1>1, <1>3, WalkHeight DEF ChangesDifficulty
<1> HIDE DEF p
<1>5. CASE ChangesDifficulty(p)
  <2>1. PICK s \in PeriodStart(p) :
           HeaderTarget(h) = Retarget(HeaderTarget(p), ClampedTimespan(Header[s].time, Header[p].time))
    BY <1>1, <1>5 DEF required_work
  <2>2. PICK d \in Chains : d[1] = p /\ Len(d) = DIFFCHANGE_INTERVAL /\ s = Last(d)
    BY <1>2, <2>1 DEF PeriodStart
  <2> QED BY <1>3, <1>4, <1>5, <2>1, <2>2 DEF TargetDue, p
<1>6. CASE ~ChangesDifficulty(p)
  <2>1. HeaderTarget(h) = HeaderTarget(p)
    BY <1>1, <1>6 DEF required_work
  <2> QED BY <1>3, <1>4, <1>6, <2>1 DEF TargetDue, p
<1> QED BY <1>5, <1>6

\* So two children of a known header have the same target.
LEMMA SiblingsDue ==
    ASSUME WorkResolved, IInv, NEW p \in Known, NEW x, NEW y,
           Prev(x) = p, Prev(y) = p, TargetDue(x), TargetDue(y)
    PROVE  HeaderTarget(x) = HeaderTarget(y)
<1> DEFINE Due(h, c) ==
             IF Len(c) % DIFFCHANGE_INTERVAL = 0
             THEN \E d \in Chains :
                     /\ d[1] = p /\ Len(d) = DIFFCHANGE_INTERVAL
                     /\ HeaderTarget(h) =
                           Retarget(HeaderTarget(p),
                                    ClampedTimespan(Header[Last(d)].time, Header[p].time))
             ELSE HeaderTarget(h) = HeaderTarget(p)
<1>1. PICK b \in Chains : b[1] = p /\ Last(b) = Genesis /\ Due(x, b)
  BY DEF TargetDue
<1>2. PICK c \in Chains : c[1] = p /\ Last(c) = Genesis /\ Due(y, c)
  BY DEF TargetDue
<1>3. Len(b) = Len(c)
  BY <1>1, <1>2, WalkHeight
<1>4. CASE Len(c) % DIFFCHANGE_INTERVAL = 0
  <2>1. PICK d \in Chains :
           /\ d[1] = p /\ Len(d) = DIFFCHANGE_INTERVAL
           /\ HeaderTarget(x) = Retarget(HeaderTarget(p),
                                    ClampedTimespan(Header[Last(d)].time, Header[p].time))
    BY <1>1, <1>3, <1>4
  <2>2. PICK e \in Chains :
           /\ e[1] = p /\ Len(e) = DIFFCHANGE_INTERVAL
           /\ HeaderTarget(y) = Retarget(HeaderTarget(p),
                                    ClampedTimespan(Header[Last(e)].time, Header[p].time))
    BY <1>2, <1>4
  <2>3. DIFFCHANGE_INTERVAL \in 1 .. Len(d) /\ DIFFCHANGE_INTERVAL <= Len(e)
    BY <2>1, <2>2, PeriodAssumption
  <2>4. Last(d) = Last(e)
    BY <2>1, <2>2, <2>3, OneWalk DEF Last
  <2> QED BY <2>1, <2>2, <2>4
<1>5. CASE Len(c) % DIFFCHANGE_INTERVAL # 0
  BY <1>1, <1>2, <1>3, <1>5
<1> QED BY <1>4, <1>5

\* Each header of t is an ancestor of the next one.
Ascending(t) == \A i \in 1 .. Len(t) - 1 : IsAncestor(t[i], t[i + 1])

\* What holds of the trunk: each header on it is an ancestor of the next one, and
\* if none is on it twice, its parent.  All headers stored have the target due.
TrunkInv ==
    /\ Ascending(trunk)
    /\ TrunkUnlessRepeated
    /\ \A h \in (DOMAIN db.headers \cup DOMAIN disk.headers) \ {Genesis} : TargetDue(h)

\* All headers on the trunk are ancestors of the tip.
LEMMA TrunkAncestors ==
    ASSUME WalksComplete, CacheOK, trunk # <<>>, TrunkInv, NEW i \in 1 .. Len(trunk)
    PROVE  IsAncestor(trunk[i], tip_hash)
<1> DEFINE B == {j \in 1 .. Len(trunk) : ~IsAncestor(trunk[j], tip_hash)}
<1>1. Len(trunk) \in Nat /\ tip_hash \in Hash
  BY TrunkEnds DEF CacheOK
<1>2. B = {}
  <2> SUFFICES ASSUME B # {} PROVE FALSE
    OBVIOUS
  <2> DEFINE m == Max(B)
  <2>1. m \in B /\ \A k \in B : k <= m
    <3>1. B \in SUBSET (0 .. Len(trunk))
      BY <1>1
    <3> HIDE DEF B
    <3> QED BY <1>1, <3>1, MaxNat, Zenon
  <2> HIDE DEF m
  <2>2. m \in 1 .. Len(trunk) /\ m # Len(trunk)
    BY <1>1, <2>1, SelfAncestor DEF tip_hash, Last
  <2>3. m \in 1 .. Len(trunk) - 1 /\ m + 1 \in 1 .. Len(trunk) /\ m + 1 \notin B
    BY <1>1, <2>1, <2>2
  <2>4. IsAncestor(trunk[m + 1], tip_hash) /\ IsAncestor(trunk[m], trunk[m + 1])
    BY <2>3 DEF TrunkInv, Ascending
  <2> QED BY <2>1, <2>4, AncestorTransitive
<1> QED BY <1>2


\* A header that goes on top of the trunk is a child of the tip: a sibling of an
\* ancestor of the tip has no more work than the tip.
LEMMA ExtendsTip ==
    ASSUME WalksComplete, WorkResolved, ~Testnet, IInv, TrunkInv, phase = "up",
           NEW h \in Hash, AddExtend(h)
    PROVE  Prev(h) = tip_hash
<1> DEFINE p == Prev(h)
<1>1. Accept(h) /\ MoreWork(h) /\ OnTrunk(p)
  BY DEF AddExtend
<1>2. CacheOK /\ trunk # <<>> /\ AncestryKnown
  BY InvAncestry DEF IInv, TypeOK, CacheOK
<1>3. p \in Known /\ h \notin Known /\ tip_hash \in Known /\ TargetDue(h)
  BY <1>1, <1>2, AcceptProperties, AcceptDue, TrunkEnds
<1>4. PICK i \in 1 .. Len(trunk) : trunk[i] = p
  <2>1. Range(trunk) = {trunk[i] : i \in 1 .. Len(trunk)}
    BY <1>2, RangeOfSeq DEF CacheOK, Range
  <2> QED BY <1>1, <2>1 DEF OnTrunk
<1>5. PICK c \in Chains : c[1] = tip_hash /\ Last(c) = p
  BY <1>2, <1>4, TrunkAncestors DEF IsAncestor
<1>6. Len(c) \in Nat /\ Len(c) >= 1 /\ Linked(c)
  BY <1>5, ChainProperties, PeriodAssumption
<1>7. CASE Len(c) = 1
  BY <1>5, <1>7 DEF Last
<1>8. CASE Len(c) # 1
  <2> DEFINE k == Len(c) - 1
             x == c[k]
  <2>1. k \in 1 .. Len(c) /\ k \in 1 .. Len(c) - 1 /\ k + 1 = Len(c)
    <3> DEFINE n == Len(c)
    <3>1. n \in Nat /\ n >= 1 /\ n # 1
      BY <1>6, <1>8
    <3> HIDE DEF n
    <3>2. n - 1 \in 1 .. n /\ n - 1 \in 1 .. n - 1 /\ (n - 1) + 1 = n
      BY <3>1
    <3> QED BY <3>2 DEF n
  <2>2. Prev(x) = p
    BY <1>5, <1>6, <2>1 DEF Linked, Last
  <2>3. x \in Known
    BY <1>2, <1>3, <1>5, <2>1, ChainWork
  <2>4. x # Genesis
    BY <1>2, <1>3, <2>2, HeaderAssumption, HashAssumption DEF CacheOK, Prev
  <2>5. x \in DOMAIN db.headers
    BY <2>3 DEF IInv, PhaseInv, Running
  <2>6. TargetDue(x)
    BY <2>4, <2>5 DEF TrunkInv
  <2> HIDE DEF x, k, p
  <2>7. HeaderTarget(x) = HeaderTarget(h)
    BY <1>3, <2>2, <2>6, SiblingsDue DEF p
  <2>8. headers[x].log2work = RoundWork(HeaderWork(x) + headers[p].log2work)
    BY <1>2, <2>2, <2>3, <2>4 DEF IInv, CacheInv, Sound, Known
  <2>9. stored_header(h).log2work = RoundWork(HeaderWork(h) + headers[p].log2work)
    BY DEF stored_header, total_work, p
  <2>10. stored_header(h).log2work = headers[x].log2work
    BY <2>7, <2>8, <2>9 DEF HeaderWork
  <2>11. headers[x].log2work <= headers[tip_hash].log2work
    BY <1>2, <2>3 DEF IInv, CacheInv, TipMostWork
  <2>12. headers[x].log2work \in Int /\ headers[tip_hash].log2work \in Int
    BY <1>2, <1>3, <2>3, DifficultyAssumption DEF CacheOK, StoredHeader
  <2> QED BY <1>1, <2>10, <2>11, <2>12 DEF MoreWork
<1> QED BY <1>7, <1>8

\* The trunk after a reorganisation along c: cut after the fork, then the walk
\* back from the fork, which is on it a second time, up to the new tip.
LEMMA ReorgShape ==
    ASSUME CacheOK, NEW h \in Hash, AddReorg(h)
    PROVE  \E c \in PathsToTrunk(h), p \in 1 .. Len(trunk) :
              /\ trunk[p] = Last(c)
              /\ Len(c) \in Nat /\ Len(c) >= 2
              /\ Len(trunk') = p + Len(c)
              /\ \A i \in 1 .. p : trunk'[i] = trunk[i]
              /\ \A m \in 1 .. Len(c) - 1 : trunk'[p + m] = c[(Len(c) - m) + 1]
              /\ trunk'[p + Len(c)] = h
<1>1. PICK c \in PathsToTrunk(h) :
         trunk' = SubSeq(trunk, 1, pos_on_trunk(Last(c))) \o path_to_new_tip(c, h)
  BY Zenon DEF AddReorg
<1>2. c \in Chains /\ c[1] = Prev(h) /\ OnTrunk(Last(c)) /\ ~OnTrunk(c[1])
  BY <1>1 DEF PathsToTrunk, AddReorg
<1> DEFINE p == pos_on_trunk(Last(c))
           s == SubSeq(trunk, 1, p)
           t == Tail(c)
           r == Reverse(t)
           a == Append(r, h)
<1>3. trunk \in Seq(Known) /\ Len(trunk) \in Nat /\ \A i \in 1 .. Len(trunk) : trunk[i] \in Known
  BY SeqIsFunction, SeqElement DEF CacheOK
<1>4. p \in 1 .. Len(trunk) /\ trunk[p] = Last(c)
  BY <1>2, <1>3, PosOnTrunk
<1>5. c \in Seq(Hash) /\ Len(c) \in Nat /\ Len(c) >= 1 /\ c # <<>>
  BY <1>2, ChainProperties, PeriodAssumption
<1>6. Len(c) >= 2
  BY <1>2, <1>5 DEF Last
<1>7. s \in Seq(Known) /\ Len(s) = p /\ \A i \in 1 .. p : s[i] = trunk[i]
  <2>1. p \in Int /\ \A i \in 1 .. p : trunk[i] \in Known
    BY <1>3, <1>4
  <2> HIDE DEF p
  <2>2. /\ s \in Seq(Known)
        /\ Len(s) = IF 1 <= p THEN p - 1 + 1 ELSE 0
        /\ \A i \in 1 .. p - 1 + 1 : s[i] = trunk[1 + i - 1]
    BY <2>1, PartOfSeq
  <2> QED BY <1>3, <1>4, <2>2
<1>8. t \in Seq(Hash) /\ Len(t) = Len(c) - 1 /\ \A i \in 1 .. Len(c) - 1 : t[i] = c[i + 1]
  BY <1>5, HeadTail
<1>9. r \in Seq(Hash) /\ Len(r) = Len(c) - 1
      /\ \A i \in 1 .. Len(c) - 1 : r[i] = c[(Len(c) - i) + 1]
  <2> HIDE DEF t
  <2>1. r \in Seq(Hash) /\ Len(r) = Len(t) /\ \A i \in 1 .. Len(t) : r[i] = t[(Len(t) - i) + 1]
    BY <1>8, ReverseProperties
  <2> HIDE DEF r
  <2>2. ASSUME NEW i \in 1 .. Len(c) - 1 PROVE r[i] = c[(Len(c) - i) + 1]
    <3>1. r[i] = t[((Len(c) - 1) - i) + 1] /\ ((Len(c) - 1) - i) + 1 \in 1 .. Len(c) - 1
      BY <1>5, <1>8, <2>1, <2>2
    <3>2. (((Len(c) - 1) - i) + 1) + 1 = (Len(c) - i) + 1
      BY <1>5, <2>2
    <3> QED BY <1>8, <3>1, <3>2
  <2> QED BY <1>8, <2>1, <2>2
<1> HIDE DEF r, s, p, t
<1>10. /\ a \in Seq(Hash) /\ Len(a) = Len(c) /\ a[Len(c)] = h
       /\ \A i \in 1 .. Len(c) - 1 : a[i] = r[i]
  BY <1>5, <1>9, Appended
<1>11. trunk' = s \o a
  BY <1>1 DEF path_to_new_tip, s, r, t, p
<1> HIDE DEF a
<1>12. s \in Seq(Hash)
  BY <1>7, SeqGrows DEF CacheOK
<1>13. /\ Len(trunk') = p + Len(c)
       /\ \A i \in 1 .. p + Len(c) : trunk'[i] = IF i <= p THEN s[i] ELSE a[i - p]
  <2>1. a \in Seq(Hash) /\ Len(a) = Len(c) /\ Len(s) = p
    BY <1>7, <1>10
  <2>2. /\ Len(s \o a) = Len(s) + Len(a)
        /\ \A i \in 1 .. Len(s) + Len(a) :
              (s \o a)[i] = IF i <= Len(s) THEN s[i] ELSE a[i - Len(s)]
    BY <1>12, <2>1, Joined, Zenon
  <2> QED BY <1>11, <2>1, <2>2
<1>14. p \in Nat /\ p >= 1
  BY <1>3, <1>4
<1>15. \A i \in 1 .. p : trunk'[i] = trunk[i]
  BY <1>5, <1>7, <1>13, <1>14
<1>16. \A m \in 1 .. Len(c) : trunk'[p + m] = a[m]
  <2> SUFFICES ASSUME NEW m \in 1 .. Len(c) PROVE trunk'[p + m] = a[m]
    OBVIOUS
  <2>1. p + m \in 1 .. p + Len(c) /\ ~(p + m <= p) /\ (p + m) - p = m
    BY <1>5, <1>14
  <2> QED BY <1>13, <2>1
<1>17. \A m \in 1 .. Len(c) - 1 : trunk'[p + m] = c[(Len(c) - m) + 1]
  BY <1>5, <1>9, <1>10, <1>16
<1>18. trunk'[p + Len(c)] = h
  BY <1>5, <1>10, <1>16
<1> QED BY <1>1, <1>4, <1>5, <1>6, <1>13, <1>15, <1>17, <1>18, Zenon

\* A reversed sequence is linked if each element is the parent of the next one.
LEMMA LinkedSteps ==
    ASSUME NEW S, NEW t \in Seq(S)
    PROVE  Linked(Reverse(t)) <=> \A i \in 1 .. Len(t) - 1 : Prev(t[i + 1]) = t[i]
<1> DEFINE n == Len(t)
           r == Reverse(t)
<1>1. n \in Nat
  BY SeqIsFunction
<1>2. Len(r) = n /\ \A i \in 1 .. n : r[i] = t[(n - i) + 1]
  BY ReverseProperties
<1>3. \A i \in 1 .. n - 1 : r[i] = t[(n - i) + 1] /\ r[i + 1] = t[n - i]
  <2> SUFFICES ASSUME NEW i \in 1 .. n - 1
               PROVE  r[i] = t[(n - i) + 1] /\ r[i + 1] = t[n - i]
    BY Zenon
  <2>1. i \in 1 .. n /\ i + 1 \in 1 .. n /\ (n - (i + 1)) + 1 = n - i
    BY <1>1
  <2> QED BY <1>2, <2>1
<1> HIDE DEF n, r
<1>4. ASSUME Linked(r), NEW i \in 1 .. n - 1 PROVE Prev(t[i + 1]) = t[i]
  <2>1. n - i \in 1 .. n - 1 /\ (n - (n - i)) + 1 = i + 1 /\ n - (n - i) = i
    BY <1>1
  <2>2. Prev(r[n - i]) = r[(n - i) + 1]
    BY <1>2, <1>4, <2>1 DEF Linked
  <2>3. r[n - i] = t[(n - (n - i)) + 1] /\ r[(n - i) + 1] = t[n - (n - i)]
    BY <1>3, <2>1
  <2> QED BY <2>1, <2>2, <2>3
<1>5. ASSUME \A i \in 1 .. n - 1 : Prev(t[i + 1]) = t[i] PROVE Linked(r)
  <2> SUFFICES ASSUME NEW i \in 1 .. n - 1 PROVE Prev(r[i]) = r[i + 1]
    BY <1>2 DEF Linked
  <2>1. n - i \in 1 .. n - 1
    BY <1>1
  <2> QED BY <1>3, <1>5, <2>1
<1> QED BY <1>4, <1>5 DEF n, r


\* Extending the trunk keeps what holds of it.
LEMMA ExtendTrunk ==
    ASSUME WalksComplete, WorkResolved, ~Testnet, IInv, TrunkInv, phase = "up",
           NEW h \in Hash, AddExtend(h)
    PROVE  Ascending(trunk') /\ TrunkUnlessRepeated'
<1> DEFINE n == Len(trunk)
           t == trunk'
<1>1. /\ trunk \in Seq(Hash) /\ trunk # <<>> /\ n \in Nat /\ n >= 1
      /\ tip_hash \in Hash /\ tip_hash = trunk[n]
  BY TrunkEnds, SeqGrows DEF IInv, TypeOK, CacheOK, tip_hash, Last
<1>2. Prev(h) = trunk[n]
  BY <1>1, ExtendsTip
<1>3. /\ t \in Seq(Hash) /\ Len(t) = n + 1 /\ t[n + 1] = h
      /\ \A i \in 1 .. n : t[i] = trunk[i]
  BY <1>1, Appended DEF AddExtend
<1>4. DOMAIN t = 1 .. n + 1 /\ DOMAIN trunk = 1 .. n
  BY <1>1, <1>3, SeqIsFunction
<1> HIDE DEF t, n
<1>5. ASSUME NEW i \in 1 .. n, i # n PROVE i \in 1 .. n - 1 /\ i + 1 \in 1 .. n
  BY <1>1, <1>5
<1>6. \A i \in 1 .. Len(t) - 1 : i \in 1 .. n
  BY <1>1, <1>3
<1>7. Ascending(t)
  <2> SUFFICES ASSUME NEW i \in 1 .. n PROVE IsAncestor(t[i], t[i + 1])
    BY <1>6 DEF Ascending
  <2>1. CASE i = n
    BY <1>1, <1>2, <1>3, <2>1, SelfAncestor, ParentAncestor
  <2>2. CASE i # n
    BY <1>3, <1>5, <2>2 DEF TrunkInv, Ascending, n
  <2> QED BY <2>1, <2>2
<1>8. ASSUME IsInjective(t) PROVE Linked(Reverse(t)) /\ t[1] = Genesis
  <2>1. \A i \in 1 .. n : i \in 1 .. n + 1
    BY <1>1
  <2>2. IsInjective(trunk)
    BY <1>3, <1>4, <1>8, <2>1 DEF IsInjective
  <2>3. Linked(Reverse(trunk)) /\ trunk[1] = Genesis
    BY <1>1, <2>2 DEF TrunkInv, TrunkUnlessRepeated, TrunkIsChain
  <2>4. \A i \in 1 .. n - 1 : Prev(trunk[i + 1]) = trunk[i]
    BY <1>1, <2>3, LinkedSteps DEF n
  <2>5. ASSUME NEW i \in 1 .. n PROVE Prev(t[i + 1]) = t[i]
    <3>1. CASE i = n
      BY <1>2, <1>3, <3>1
    <3>2. CASE i # n
      BY <1>3, <1>5, <2>4, <3>2
    <3> QED BY <3>1, <3>2
  <2>6. Linked(Reverse(t))
    BY <1>3, <1>6, <2>5, LinkedSteps
  <2> QED BY <1>1, <1>3, <2>3, <2>6
<1> QED BY <1>7, <1>8 DEF t, TrunkUnlessRepeated, TrunkIsChain

\* So does a reorganisation, which leaves the fork on the trunk twice.
LEMMA ReorgKeepsTrunk ==
    ASSUME WalksComplete, IInv, TrunkInv, NEW h \in Hash, AddReorg(h)
    PROVE  Ascending(trunk') /\ TrunkUnlessRepeated'
<1> DEFINE t == trunk'
<1>1. CacheOK
  BY DEF IInv, TypeOK, CacheOK
<1>2. PICK c \in PathsToTrunk(h), p \in 1 .. Len(trunk) :
         /\ trunk[p] = Last(c)
         /\ Len(c) \in Nat /\ Len(c) >= 2
         /\ Len(t) = p + Len(c)
         /\ \A i \in 1 .. p : t[i] = trunk[i]
         /\ \A m \in 1 .. Len(c) - 1 : t[p + m] = c[(Len(c) - m) + 1]
         /\ t[p + Len(c)] = h
  BY <1>1, ReorgShape
<1>3. c \in Chains /\ c[1] = Prev(h)
  BY DEF PathsToTrunk
<1>4. t \in Seq(Known \cup {h})
  BY <1>1, ReorgTrunk
<1> DEFINE n == Len(c)
<1>5. DOMAIN t = 1 .. p + n
  BY <1>2, <1>4, SeqIsFunction
<1>6. p \in Nat /\ p >= 1 /\ p \in 1 .. p /\ n \in Nat /\ n >= 2 /\ 1 \in 1 .. n - 1
  BY <1>1, <1>2, SeqIsFunction DEF CacheOK
<1>7. trunk[p] \in Hash
  BY <1>1, SeqElement, SeqIsFunction DEF CacheOK
<1> HIDE DEF t
<1>8. t[p] = trunk[p] /\ t[p + 1] = trunk[p]
  <2>1. (n - 1) + 1 = n
    BY <1>6
  <2> QED BY <1>2, <1>6, <2>1 DEF Last
<1>9. ~IsInjective(t)
  <2>1. p \in 1 .. p + n /\ p + 1 \in 1 .. p + n /\ p # p + 1
    BY <1>6
  <2> QED BY <1>5, <1>8, <2>1 DEF IsInjective
<1>10. Ascending(t)
  <2> SUFFICES ASSUME NEW i \in 1 .. (p + n) - 1 PROVE IsAncestor(t[i], t[i + 1])
    BY <1>2 DEF Ascending
  <2>1. CASE i < p
    <3>1. i \in 1 .. p /\ i + 1 \in 1 .. p /\ i \in 1 .. Len(trunk) - 1
      BY <1>1, <1>6, <2>1, SeqIsFunction DEF CacheOK
    <3> QED BY <1>2, <3>1 DEF TrunkInv, Ascending
  <2>2. CASE i = p
    BY <1>7, <1>8, <2>2, SelfAncestor
  <2>3. CASE i > p /\ i < (p + n) - 1
    <3> DEFINE m == i - p
               k == n - m
    <3>1. /\ m \in 1 .. n - 1 /\ m + 1 \in 1 .. n - 1 /\ p + m = i /\ p + (m + 1) = i + 1
          /\ k \in 1 .. n - 1 /\ (n - m) + 1 = k + 1 /\ (n - (m + 1)) + 1 = k
      BY <1>6, <2>3
    <3> HIDE DEF m, k
    <3>2. t[p + m] = c[(n - m) + 1] /\ t[p + (m + 1)] = c[(n - (m + 1)) + 1]
      BY <1>2, <3>1
    <3>3. t[i] = c[k + 1] /\ t[i + 1] = c[k]
      BY <3>1, <3>2
    <3> QED BY <1>3, <3>1, <3>3, NeighbourAncestor, Zenon
  <2>4. CASE i > p /\ i = (p + n) - 1
    <3> DEFINE m == n - 1
    <3>1. m \in 1 .. n - 1 /\ p + m = i /\ i + 1 = p + n /\ (n - m) + 1 = 1 + 1
      BY <1>6, <2>4
    <3> HIDE DEF m
    <3>2. t[p + m] = c[(n - m) + 1]
      BY <1>2, <3>1, Zenon
    <3>3. t[i] = c[1 + 1] /\ t[i + 1] = h
      BY <1>2, <3>1, <3>2, Zenon
    <3>4. IsAncestor(c[1 + 1], Prev(h))
      BY <1>3, <1>6, NeighbourAncestor
    <3> QED BY <3>3, <3>4, ParentAncestor
  <2>5. \/ i < p \/ i = p
        \/ i > p /\ i < (p + n) - 1
        \/ i > p /\ i = (p + n) - 1
    BY <1>6
  <2> QED BY <2>1, <2>2, <2>3, <2>4, <2>5
<1> QED BY <1>9, <1>10 DEF t, TrunkUnlessRepeated

\* A linked trunk is a special case.
LEMMA ChainAscends ==
    ASSUME WalksComplete, NEW t \in Seq(Hash), Linked(Reverse(t))
    PROVE  Ascending(t)
<1>1. Len(t) \in Nat
  BY SeqIsFunction
<1> SUFFICES ASSUME NEW i \in 1 .. Len(t) - 1 PROVE IsAncestor(t[i], t[i + 1])
  BY DEF Ascending
<1>2. i \in 1 .. Len(t) /\ i + 1 \in 1 .. Len(t)
  BY <1>1
<1>3. t[i] \in Hash /\ t[i + 1] \in Hash /\ Prev(t[i + 1]) = t[i]
  BY <1>2, SeqElement, LinkedSteps
<1> QED BY <1>3, SelfAncestor, ParentAncestor


\* And so is a trunk with at most one header.
LEMMA ShortTrunk ==
    ASSUME NEW t \in Seq(Hash), Len(t) = 0 \/ Len(t) = 1
    PROVE  Linked(Reverse(t)) /\ Ascending(t)
<1>1. 1 .. Len(t) - 1 = {}
  OBVIOUS
<1>2. Linked(Reverse(t))
  BY <1>1, LinkedSteps
<1>3. Ascending(t)
  BY <1>1 DEF Ascending
<1> QED BY <1>2, <1>3

\* Every step keeps what holds of the trunk and of the targets.
LEMMA NextTrunk ==
    ASSUME Sane, WorkResolved, ~Testnet, IInv, IInv', TrunkInv, [Next]_chainVars
    PROVE  TrunkInv'
<1> DEFINE Stored == DOMAIN db.headers \cup DOMAIN disk.headers
           Due == \A h \in Stored' \ {Genesis} : TargetDue(h)
<1>0. \A h \in Stored \ {Genesis} : TargetDue(h)
  BY DEF TrunkInv
<1>1. ASSUME trunk' = trunk PROVE Ascending(trunk') /\ TrunkUnlessRepeated'
  BY <1>1 DEF TrunkInv, Ascending, TrunkUnlessRepeated, TrunkIsChain
<1>2. ASSUME Stored' \subseteq Stored PROVE Due
  BY <1>0, <1>2
<1>3. WalksComplete /\ OneRoot /\ ~PutMayFail
  BY DEF Sane
<1>4. CASE LoadHeaders
  <2>1. Linked(Reverse(trunk')) /\ db' = db /\ disk' = disk /\ phase' = "up"
    BY <1>4, LoadLinked DEF LoadHeaders, storeVars
  <2>2. trunk' \in Seq(Hash) /\ trunk'[1] = Genesis
    <3>1. trunk' # <<>> /\ trunk' \in Seq(Known') /\ Known' \subseteq Hash /\ CacheInv'
      BY <2>1 DEF IInv, TypeOK
    <3> QED BY <3>1, SeqGrows DEF CacheInv
  <2>3. Ascending(trunk')
    BY <1>3, <2>1, <2>2, ChainAscends
  <2>4. TrunkUnlessRepeated'
    BY <2>1, <2>2 DEF TrunkUnlessRepeated, TrunkIsChain
  <2> QED BY <1>2, <2>1, <2>3, <2>4 DEF TrunkInv
<1>5. CASE StoreGenesis
  <2>1. DOMAIN db'.headers = DOMAIN db.headers \cup {Genesis} /\ disk' = db' /\ phase' = "genesis"
    BY <1>5 DEF StoreGenesis, Put
  <2>2. Due
    BY <1>0, <2>1
  <2>3. trunk' = <<Genesis>>
    BY <2>1 DEF IInv, PhaseInv
  <2> DEFINE t == <<Genesis>>
  <2>4. t \in Seq(Hash) /\ Len(t) = 1 /\ t[1] = Genesis
    BY HashAssumption
  <2> HIDE DEF t
  <2>5. Linked(Reverse(t)) /\ Ascending(t)
    BY <2>4, ShortTrunk
  <2>6. trunk' = t
    BY <2>3 DEF t
  <2> QED BY <2>2, <2>4, <2>5, <2>6 DEF TrunkInv, TrunkUnlessRepeated, TrunkIsChain
<1>6. CASE StoreGenesisTip
  <2>1. trunk' = trunk /\ disk' = db' /\ db' = [db EXCEPT !.tip = Genesis]
    BY <1>6 DEF StoreGenesisTip, cacheVars
  <2>2. db'.headers = db.headers
    BY <2>1 DEF IInv, TypeOK, IsStore
  <2> QED BY <1>1, <1>2, <2>1, <2>2 DEF TrunkInv
<1>7. CASE batch
  BY <1>1, <1>2, <1>7 DEF batch, TrunkInv
<1>8. ASSUME NEW h \in Hash, add_header(h) PROVE TrunkInv'
  <2>1. phase = "up" /\ CacheOK /\ CacheInv /\ trunk # <<>>
    BY <1>8 DEF add_header, IInv, TypeOK, CacheOK
  <2>2. CASE AddRejected(h) \/ AddLost(h) \/ AddPanics(h)
    <3>1. trunk' = trunk /\ db' = db /\ disk' = disk
      BY <2>2 DEF AddRejected, Rejects, IgnoreKnown, RejectUnconnected, RejectProofOfWork,
                  cacheVars, AddLost, AddPathLost, AddPanics
    <3> QED BY <1>1, <1>2, <3>1 DEF TrunkInv
  <2>3. CASE AddBranch(h) \/ AddTip(h)
    <3>1. Accept(h) /\ ~InsertGenesis(h)
      BY <1>3, <2>1, <2>3, OnlyAccepts DEF AddBranch, AddTip
    <3>2. TargetDue(h)
      BY <2>1, <3>1, AcceptDue
    <3>3. DOMAIN db'.headers = DOMAIN db.headers \cup {h} /\ disk' = disk
      BY <2>3 DEF AddBranch, AddTip, Put
    <3>4. Due
      BY <1>0, <3>2, <3>3
    <3>5. Ascending(trunk') /\ TrunkUnlessRepeated'
      <4>1. CASE AddSide(h)
        BY <1>1, <4>1 DEF AddSide
      <4>2. CASE AddExtend(h)
        BY <1>3, <2>1, <4>2, ExtendTrunk
      <4>3. CASE AddReorg(h)
        BY <1>3, <4>3, ReorgKeepsTrunk
      <4> QED BY <2>3, <3>1, <4>1, <4>2, <4>3 DEF AddBranch, AddTip, MovesTip
    <3> QED BY <3>4, <3>5 DEF TrunkInv
  <2> QED BY <1>3, <1>8, <2>2, <2>3 DEF add_header, AddPutFails
<1>9. CASE Crash
  <2>1. trunk' = <<>> /\ db' = disk /\ disk' = disk
    BY <1>9 DEF Crash
  <2> DEFINE t == <<>>
  <2>2. t \in Seq(Hash) /\ Len(t) = 0
    BY EmptySeq
  <2>3. trunk' = t
    BY <2>1
  <2> HIDE DEF t
  <2>4. Linked(Reverse(t)) /\ Ascending(t)
    BY <2>2, ShortTrunk, Zenon
  <2>5. TrunkUnlessRepeated' /\ Ascending(trunk')
    BY <2>1, <2>3, <2>4 DEF TrunkUnlessRepeated, TrunkIsChain
  <2> QED BY <1>2, <2>1, <2>5 DEF TrunkInv
<1>10. CASE UNCHANGED chainVars
  BY <1>1, <1>2, <1>10 DEF chainVars, TrunkInv
<1> QED BY <1>4, <1>5, <1>6, <1>7, <1>8, <1>9, <1>10 DEF Next

\* Initially there is no trunk and nothing is stored.
LEMMA InitTrunk == Init => TrunkInv
<1> SUFFICES ASSUME Init PROVE TrunkInv
  OBVIOUS
<1>1. trunk = <<>> /\ DOMAIN db.headers = {} /\ disk = db
  BY DEF Init, EmptyCache
<1> DEFINE t == <<>>
<1>2. t \in Seq(Hash) /\ Len(t) = 0 /\ trunk = t
  BY <1>1, EmptySeq
<1> HIDE DEF t
<1>3. Linked(Reverse(t)) /\ Ascending(t)
  BY <1>2, ShortTrunk, Zenon
<1> QED BY <1>1, <1>2, <1>3 DEF TrunkInv, TrunkUnlessRepeated, TrunkIsChain

\* On the main network (without the 20 minute rule) the trunk of add_header and
\* init_headers keeps its invariant.
THEOREM TrunkInvariance ==
    ASSUME Sane, WorkResolved, ~Testnet
    PROVE  Spec => []TrunkInv
<1>1. Init => TrunkInv
  BY InitTrunk
<1>2. IInv /\ IInv' /\ TrunkInv /\ [Next]_chainVars => TrunkInv'
  BY NextTrunk
<1> QED BY <1>1, <1>2, Invariance, PTL DEF Spec

\* Whatever reorganisations happened, the trunk holds ancestors of the tip only,
\* ordered by height: add_header_to_tree leaves nothing of an abandoned branch.
THEOREM TrunkStaysOnBestChain ==
    ASSUME Sane, WorkResolved, ~Testnet
    PROVE  Spec => []TrunkOnBestChain
<1>1. IInv /\ TrunkInv => TrunkOnBestChain
  <2> SUFFICES ASSUME IInv, TrunkInv PROVE TrunkOnBestChain
    OBVIOUS
  <2>1. CacheOK /\ AncestryKnown /\ WalksComplete
    BY InvAncestry DEF Sane, IInv, TypeOK, CacheOK
  <2>2. Len(trunk) \in Nat /\ \A i \in 1 .. Len(trunk) : trunk[i] \in Known
    BY <2>1, SeqIsFunction, SeqElement DEF CacheOK
  <2>3. ASSUME NEW i \in 1 .. Len(trunk) PROVE IsAncestor(trunk[i], tip_hash)
    <3>1. trunk # <<>>
      BY <2>2, <2>3
    <3> QED BY <2>1, <3>1, TrunkAncestors
  <2>4. ASSUME NEW i \in 1 .. Len(trunk) - 1
        PROVE  headers[trunk[i]].height <= headers[trunk[i + 1]].height
    <3>1. i \in 1 .. Len(trunk) /\ i + 1 \in 1 .. Len(trunk)
      BY <2>2
    <3>2. PICK c \in Chains : c[1] = trunk[i + 1] /\ Last(c) = trunk[i]
      BY <2>4 DEF TrunkInv, Ascending, IsAncestor
    <3>3. Len(c) \in Nat /\ Len(c) >= 1 /\ Len(c) \in 1 .. Len(c)
      BY ChainProperties, PeriodAssumption
    <3> DEFINE a == headers[trunk[i + 1]].height
               b == headers[trunk[i]].height
    <3>4. a = b + (Len(c) - 1)
      BY <2>1, <2>2, <3>1, <3>2, <3>3, ChainWork DEF Last
    <3>5. a \in Nat /\ b \in Nat
      BY <2>1, <2>2, <3>1 DEF CacheOK, StoredHeader
    <3> HIDE DEF a, b
    <3>6. b <= a
      BY <3>3, <3>4, <3>5
    <3> QED BY <3>6 DEF a, b
  <2> QED BY <2>3, <2>4 DEF TrunkOnBestChain
<1> QED BY <1>1, Invariance, TrunkInvariance, PTL

\* The trunk is the whole chain from genesis to the tip unless a header is on it
\* twice, which only the path a reorganisation pushes causes.
THEOREM TrunkIsChainUnlessRepeated ==
    ASSUME Sane, WorkResolved, ~Testnet
    PROVE  Spec => []TrunkUnlessRepeated
<1>1. TrunkInv => TrunkUnlessRepeated
  BY DEF TrunkInv
<1> QED BY <1>1, TrunkInvariance, PTL

-----------------------------------------------------------------------------
(***************************************************************************)
(* What else follows from the invariant of ChainDB_proofs.                 *)
(***************************************************************************)

\* ChainDB::add_header keeps cache and store in agreement.
THEOREM CacheIsStored ==
    ASSUME Sane
    PROVE  Spec => []CacheStored
<1>1. IInv => CacheStored
  BY DEF IInv, PhaseInv, Running, CacheStored
<1> QED BY <1>1, Invariance, PTL

\* The walks of add_header_to_tree never leave the cache.
THEOREM AncestryIsKnown ==
    ASSUME Sane, WorkResolved
    PROVE  Spec => []AncestryKnown
<1>1. IInv => AncestryKnown
  BY InvAncestry
<1> QED BY <1>1, Invariance, PTL

\* init_headers rebuilds the chain from genesis to the tip of the last batch.
THEOREM RestartRebuildsChain ==
    ASSUME Sane
    PROVE  Spec => RestartRebuilds
<1> DEFINE A == phase = "down" /\ phase' = "up" =>
                   /\ Linked(Reverse(trunk'))
                   /\ Prev(trunk'[1]) = NoHash
                   /\ Last(trunk') = disk.tip
<1>1. ASSUME IInv, TypeOK', [Next]_chainVars, phase = "down", phase' = "up"
      PROVE  /\ Linked(Reverse(trunk'))
             /\ Prev(trunk'[1]) = NoHash
             /\ Last(trunk') = disk.tip
  <2>1. LoadHeaders
    BY <1>1 DEF Next, chainVars, StoreGenesis, StoreGenesisTip, batch, add_header, Crash
  <2>2. IsStore(db) /\ SoundStore(db) /\ db = disk
    BY <1>1 DEF IInv, TypeOK, PhaseInv
  <2>3. CacheInv' /\ Linked(Reverse(trunk')) /\ Last(trunk') = db.tip
    BY <2>1, <2>2, LoadKeeps, LoadLinked
  <2>4. trunk' # <<>>
    BY <1>1 DEF TypeOK
  <2>5. trunk'[1] = Genesis
    BY <2>3, <2>4 DEF CacheInv
  <2> QED BY <2>2, <2>3, <2>5, HeaderAssumption DEF Prev
<1>2. IInv /\ TypeOK' /\ [Next]_chainVars => [A]_chainVars
  BY <1>1
<1> QED BY <1>2, Invariance, TypeCorrect, PTL DEF Spec, RestartRebuilds

\* Whatever puts failed before, a restart ends with a linked trunk up to the tip
\* of the last batch: this needs none of the hypotheses.
THEOREM RestartIsLinked == Spec => RestartLinked
<1> DEFINE Down == phase = "down" => db = disk
           A == phase = "down" /\ phase' = "up" =>
                   Linked(Reverse(trunk')) /\ Last(trunk') = disk.tip
<1>1. Init => Down
  BY DEF Init
<1>2. ASSUME Down, [Next]_chainVars PROVE Down'
  <2>1. CASE phase' # "down"
    BY <2>1
  <2>2. CASE phase' = "down"
    <3>1. Crash \/ UNCHANGED chainVars
      BY <1>2, <2>2 DEF Next, LoadHeaders, StoreGenesis, StoreGenesisTip, batch,
                        add_header, AddRejected, AddLost, AddBranch, AddTip,
                        AddPutFails, AddPanics
    <3> QED BY <1>2, <3>1 DEF Crash, chainVars
  <2> QED BY <2>1, <2>2
<1>3. ASSUME Down, [Next]_chainVars, phase = "down", phase' = "up"
      PROVE  Linked(Reverse(trunk')) /\ Last(trunk') = disk.tip
  <2>1. LoadHeaders
    BY <1>3 DEF Next, chainVars, StoreGenesis, StoreGenesisTip, batch, add_header, Crash
  <2> QED BY <1>3, <2>1, LoadLinked
<1>4. Down /\ [Next]_chainVars => [A]_chainVars
  BY <1>3
<1>5. Down /\ [Next]_chainVars => Down'
  BY <1>2
<1> QED BY <1>1, <1>4, <1>5, PTL DEF Spec, RestartLinked

\* The durable tip never loses work.
THEOREM DurableTipNeverGoesBack ==
    ASSUME Sane
    PROVE  Spec => DurableTipAdvances
<1> DEFINE A == disk.tip # NoHash =>
                   /\ disk'.tip \in DOMAIN disk'.headers
                   /\ disk'.headers[disk'.tip].log2work >= disk.headers[disk.tip].log2work
<1>1. ASSUME IInv, [Next]_chainVars, disk.tip # NoHash
      PROVE  /\ disk'.tip \in DOMAIN disk'.headers
             /\ disk'.headers[disk'.tip].log2work >= disk.headers[disk.tip].log2work
  <2>1. /\ SoundStore(db) /\ SoundStore(disk) /\ DbAhead /\ PhaseInv
        /\ IsStore(db) /\ IsStore(disk)
    BY <1>1 DEF IInv, TypeOK
  <2>2. disk' = disk \/ disk' = db
    <3>1. phase \in {"down", "genesis"} => db = disk
      BY <2>1 DEF PhaseInv
    <3>2. ~StoreGenesis
      BY <1>1, <3>1 DEF StoreGenesis
    <3>3. ~StoreGenesisTip
      BY <1>1, <2>1, <3>1 DEF StoreGenesisTip, PhaseInv
    <3>4. ASSUME NEW h \in Hash, add_header(h) PROVE disk' = disk
      BY <3>4 DEF add_header, AddRejected, AddLost, AddBranch, AddTip, AddPutFails, AddPanics
    <3> QED BY <1>1, <3>2, <3>3, <3>4
            DEF Next, chainVars, storeVars, LoadHeaders, batch, Crash
  <2>3. CASE disk' = disk
    <3>1. disk.tip \in DOMAIN disk.headers
      BY <1>1, <2>1 DEF SoundStore
    <3>2. disk.headers[disk.tip].log2work \in Int
      BY <2>1, <3>1, DifficultyAssumption DEF IsStore, StoredHeader
    <3> QED BY <2>3, <3>1, <3>2
  <2>4. CASE disk' = db
    BY <1>1, <2>1, <2>4 DEF SoundStore, DbAhead
  <2> QED BY <2>2, <2>3, <2>4
<1>2. IInv /\ [Next]_chainVars => [A]_chainVars
  BY <1>1
<1> QED BY <1>2, Invariance, PTL DEF Spec, DurableTipAdvances

\* Every reachable state satisfies the inductive invariant that TLC checks.
THEOREM InvariantHolds ==
    ASSUME Sane, WorkResolved
    PROVE  Spec => []InductiveInvariant
<1>1. IInv => InductiveInvariant
  BY DEF InductiveInvariant
<1> QED BY <1>1, Invariance, PTL

-----------------------------------------------------------------------------
(***************************************************************************)
(* Cache and store when puts fail, and whatever headers exist.  A header   *)
(* may then be in the store and not in the cache, or the reverse, and be   *)
(* put again long after: what keeps the two in agreement is that a header  *)
(* can only ever get one record, since that of its parent does not change. *)
(***************************************************************************)

\* The record of every header in f is the one that follows from its parent's.
OneRecord(f) ==
    \A h \in DOMAIN f :
        IF Prev(h) = NoHash
        THEN f[h] = [height |-> 0, log2work |-> RoundWork(HeaderWork(h))]
        ELSE /\ Prev(h) \in DOMAIN f
             /\ f[h] = [height   |-> f[Prev(h)].height + 1,
                        log2work |-> RoundWork(HeaderWork(h) + f[Prev(h)].log2work)]

PartOf(f, g) == DOMAIN f \subseteq DOMAIN g /\ \A h \in DOMAIN f : f[h] = g[h]

\* All records ever computed: cache, store and durable store are parts of it.
OneHistory(all) ==
    /\ OneRecord(all)
    /\ PartOf(headers, all) /\ PartOf(db.headers, all) /\ PartOf(disk.headers, all)

RecordInv ==
    /\ \E all : OneHistory(all)
    /\ db.tip # NoHash => db.tip \in DOMAIN db.headers
    /\ disk.tip # NoHash => disk.tip \in DOMAIN disk.headers
    /\ phase = "genesis" => Genesis \in DOMAIN db.headers

\* A header that is added gets the record it had before, if it had one.
LEMMA AddsRecord ==
    ASSUME CacheOK, NEW all, OneRecord(all), PartOf(headers, all), NEW h \in Hash,
           AddSide(h) \/ AddPathLost(h) \/ MovesTip(h)
    PROVE  \E new : OneRecord(new) /\ PartOf(all, new) /\ PartOf(headers', new)
<1> DEFINE new == [x \in DOMAIN all \cup {h} |-> IF x = h THEN headers'[h] ELSE all[x]]
<1>1. /\ DOMAIN new = DOMAIN all \cup {h}
      /\ new[h] = headers'[h]
      /\ \A x \in DOMAIN all : x # h => new[x] = all[x]
  OBVIOUS
<1> HIDE DEF new
<1>2. CASE Accept(h)
  <2>1. /\ h \notin Known /\ Prev(h) \in Known /\ Prev(h) # NoHash
        /\ Known' = Known \cup {h}
        /\ headers'[h] = stored_header(h)
        /\ \A x \in Known : headers'[x] = headers[x]
    BY <1>2, AcceptProperties, InsertProperties, HashAssumption DEF CacheOK
  <2>2. Prev(h) \in DOMAIN all /\ all[Prev(h)] = headers[Prev(h)]
    BY <2>1 DEF PartOf, Known
  <2>3. headers'[h] = [height   |-> all[Prev(h)].height + 1,
                       log2work |-> RoundWork(HeaderWork(h) + all[Prev(h)].log2work)]
    BY <2>1, <2>2 DEF stored_header, total_work
  <2>4. h \in DOMAIN all => all[h] = headers'[h]
    BY <2>1, <2>3 DEF OneRecord
  <2>5. \A x \in DOMAIN all : new[x] = all[x]
    BY <1>1, <2>4
  <2>6. OneRecord(new)
    BY <1>1, <2>1, <2>2, <2>3, <2>5, Zenon DEF OneRecord
  <2>7. PartOf(all, new) /\ PartOf(headers', new)
    BY <1>1, <2>1, <2>5 DEF PartOf, Known
  <2> QED BY <2>6, <2>7
<1>3. CASE InsertGenesis(h)
  <2> DEFINE s == [height |-> 0, log2work |-> RoundWork(HeaderWork(h))]
  <2>1. HeaderWork(h) \in 0 .. MAX_WORK - 1
    BY <1>3, WorkAssumption, DifficultyAssumption DEF InsertGenesis
  <2>2. Insert(h, s) /\ s \in StoredHeader /\ h \notin Known /\ Prev(h) = NoHash
    BY <1>3, <2>1, KeptWorkAssumption DEF InsertGenesis, StoredHeader, RoundWork
  <2> HIDE DEF s
  <2>3. Known' = Known \cup {h} /\ headers'[h] = s /\ \A x \in Known : headers'[x] = headers[x]
    BY <2>2, InsertProperties
  <2>4. h \in DOMAIN all => all[h] = s
    BY <2>2 DEF OneRecord, s
  <2>5. \A x \in DOMAIN all : new[x] = all[x]
    BY <1>1, <2>3, <2>4
  <2>6. OneRecord(new)
    BY <1>1, <2>2, <2>3, <2>5, Zenon DEF OneRecord, s
  <2>7. PartOf(all, new) /\ PartOf(headers', new)
    BY <1>1, <2>3, <2>5 DEF PartOf, Known
  <2> QED BY <2>6, <2>7
<1> QED BY <1>2, <1>3 DEF AddSide, AddPathLost, MovesTip, AddExtend, AddReorg

\* Putting the record of the cache keeps the store a part of the history.
LEMMA PutsRecord ==
    ASSUME NEW new, PartOf(headers', new), PartOf(db.headers, new),
           NEW h \in Known', NEW tip, Put(h, headers'[h], tip)
    PROVE  /\ PartOf(db'.headers, new)
           /\ DOMAIN db'.headers = DOMAIN db.headers \cup {h}
           /\ db'.tip = tip
BY Zenon DEF Put, PartOf, Known

\* A step keeps one record for each header.
LEMMA RecordKept ==
    ASSUME TypeOK, RecordInv, [Next]_chainVars
    PROVE  RecordInv'
<1>0. CacheOK
  BY DEF TypeOK, CacheOK
<1>1. PICK all : OneHistory(all)
  BY DEF RecordInv
<1>2. CASE LoadHeaders
  <2>1. PICK c \in StoredChains : headers' = [h \in Range(c) |-> db.headers[h]]
    BY <1>2 DEF LoadHeaders
  <2>2. c \in Seq(Hash) /\ \A i \in 1 .. Len(c) : c[i] \in DOMAIN db.headers
    BY <2>1, ChainProperties DEF StoredChains
  <2>3. Range(c) \subseteq DOMAIN db.headers
    BY <2>2, RangeOfSeq
  <2>4. PartOf(headers', all)
    BY <1>1, <2>1, <2>3 DEF OneHistory, PartOf
  <2> QED BY <1>1, <1>2, <2>4 DEF LoadHeaders, storeVars, RecordInv, OneHistory
<1>3. CASE StoreGenesis
  <2>1. /\ MovesTip(Genesis) /\ Genesis \in Hash
        /\ Put(Genesis, headers'[Genesis], db.tip)
        /\ db.tip = NoHash /\ disk' = db'
    BY <1>3, HashAssumption DEF StoreGenesis, MovesTip
  <2>2. Genesis \in Known'
    BY <1>0, <2>1, AddTypes
  <2>3. PICK new : OneRecord(new) /\ PartOf(all, new) /\ PartOf(headers', new)
    BY <1>0, <1>1, <2>1, AddsRecord DEF OneHistory
  <2>4. PartOf(db.headers, new)
    BY <1>1, <2>3 DEF OneHistory, PartOf
  <2>5. PartOf(db'.headers, new) /\ Genesis \in DOMAIN db'.headers /\ db'.tip = NoHash
    BY <2>1, <2>2, <2>3, <2>4, PutsRecord
  <2> QED BY <2>1, <2>3, <2>5 DEF RecordInv, OneHistory
<1>4. CASE StoreGenesisTip
  <2>1. /\ db'.headers = db.headers /\ db'.tip = Genesis /\ disk' = db'
        /\ headers' = headers /\ phase' = "up" /\ Genesis \in DOMAIN db.headers
    <3>1. IsStore(db)
      BY Zenon DEF TypeOK
    <3> QED BY <1>4, <3>1 DEF StoreGenesisTip, cacheVars, RecordInv, IsStore
  <2> QED BY <1>1, <2>1 DEF RecordInv, OneHistory
<1>5. CASE batch
  BY <1>1, <1>5 DEF batch, RecordInv, OneHistory
<1>6. ASSUME NEW h \in Hash, add_header(h) PROVE RecordInv'
  <2>0. phase = "up" /\ disk' = disk /\ phase' \in {"up", "poisoned"}
    BY <1>6, Zenon DEF add_header, AddRejected, AddLost, AddBranch, AddTip, AddPutFails, AddPanics
  <2>1. CASE headers' = headers /\ db' = db
    BY <1>1, <2>0, <2>1 DEF RecordInv, OneHistory
  <2>2. CASE /\ AddSide(h) \/ AddPathLost(h) \/ MovesTip(h)
             /\ db' = db \/ Put(h, headers'[h], db.tip) \/ Put(h, headers'[h], h)
    <3>1. h \in Known'
      BY <1>0, <2>2, AddTypes
    <3>2. PICK new : OneRecord(new) /\ PartOf(all, new) /\ PartOf(headers', new)
      BY <1>0, <1>1, <2>2, AddsRecord DEF OneHistory
    <3>3. PartOf(db.headers, new) /\ PartOf(disk.headers, new)
      BY <1>1, <3>2 DEF OneHistory, PartOf
    <3>4. /\ PartOf(db'.headers, new)
          /\ db'.tip # NoHash => db'.tip \in DOMAIN db'.headers
      <4>1. CASE db' = db
        BY <3>3, <4>1 DEF RecordInv
      <4>2. CASE Put(h, headers'[h], db.tip)
        <5>1. DOMAIN db'.headers = DOMAIN db.headers \cup {h}
          BY <4>2, PutAdds, Zenon
        <5>2. db'.tip = db.tip
          BY <4>2 DEF Put
        <5>3. PartOf(db'.headers, new)
          BY <3>1, <3>2, <3>3, <4>2, PutsRecord
        <5> QED BY <5>1, <5>2, <5>3 DEF RecordInv
      <4>3. CASE Put(h, headers'[h], h)
        BY <3>1, <3>2, <3>3, <4>3, PutsRecord
      <4> QED BY <2>2, <4>1, <4>2, <4>3
    <3> QED BY <2>0, <3>2, <3>3, <3>4 DEF RecordInv, OneHistory
  <2> QED BY <1>6, <2>1, <2>2, Zenon
          DEF add_header, AddRejected, Rejects, IgnoreKnown, RejectUnconnected,
              RejectProofOfWork, cacheVars, AddLost, AddBranch, AddTip, AddPutFails, AddPanics
<1>7. CASE Crash
  <2>1. PartOf(headers', all)
    BY <1>7 DEF Crash, PartOf
  <2> QED BY <1>1, <1>7, <2>1 DEF Crash, RecordInv, OneHistory
<1>8. CASE UNCHANGED chainVars
  BY <1>1, <1>8 DEF chainVars, RecordInv, OneHistory
<1> QED BY <1>2, <1>3, <1>4, <1>5, <1>6, <1>7, <1>8 DEF Next

\* The walk that init_headers would make from header h.
WalkOf(c, h) ==
    /\ c[1] = h
    /\ \A i \in 1 .. Len(c) : c[i] \in DOMAIN db.headers
    /\ Prev(Last(c)) \notin DOMAIN db.headers

\* From a stored header there is no more than one walk: if one ended before the
\* other, the other would go on to a header that is not stored.
LEMMA OneWalkOf ==
    ASSUME NEW c \in Chains, NEW d \in Chains, NEW h, WalkOf(c, h), WalkOf(d, h)
    PROVE  Len(c) >= Len(d) /\ \A i \in 1 .. Len(d) : c[i] = d[i]
<1>1. /\ c \in Seq(Hash) /\ Len(c) \in Nat /\ Len(c) >= 1
      /\ d \in Seq(Hash) /\ Len(d) \in Nat /\ Len(d) >= 1 /\ Linked(d)
  BY ChainProperties, PeriodAssumption
<1>2. ASSUME Len(c) < Len(d) PROVE FALSE
  <2>1. Len(c) \in 1 .. Len(c) /\ Len(c) \in 1 .. Len(d) - 1 /\ Len(c) + 1 \in 1 .. Len(d)
    BY <1>1, <1>2
  <2>2. c[Len(c)] = d[Len(c)]
    BY <1>2, <2>1, OneWalk DEF WalkOf
  <2>3. Prev(d[Len(c)]) = d[Len(c) + 1]
    BY <1>1, <2>1 DEF Linked
  <2> QED BY <2>1, <2>2, <2>3 DEF WalkOf, Last
<1>3. ASSUME NEW i \in 1 .. Len(d), Len(c) >= Len(d) PROVE c[i] = d[i]
  BY <1>1, <1>3, OneWalk DEF WalkOf
<1> QED BY <1>1, <1>2, <1>3

\* From every stored header there is a walk, for heights descend along it.
LEMMA SomeWalkOf ==
    ASSUME WalksComplete, TypeOK, RecordInv, NEW h \in DOMAIN db.headers
    PROVE  \E c \in Chains : WalkOf(c, h)
<1> DEFINE D == DOMAIN db.headers
           B == {x \in D : ~ \E c \in Chains : WalkOf(c, x)}
           H == {db.headers[x].height : x \in B}
<1>1. D \subseteq Hash /\ \A x \in D : db.headers[x].height \in Nat
  <2>1. IsStore(db)
    BY Zenon DEF TypeOK
  <2> QED BY <2>1 DEF IsStore, StoredHeader
<1>2. \A x \in D : Prev(x) \in D => db.headers[x].height = db.headers[Prev(x)].height + 1
  <2>1. PICK all : OneRecord(all) /\ PartOf(db.headers, all)
    BY DEF RecordInv, OneHistory
  <2> SUFFICES ASSUME NEW x \in D, Prev(x) \in D
               PROVE  db.headers[x].height = db.headers[Prev(x)].height + 1
    OBVIOUS
  <2>2. Prev(x) # NoHash
    BY <1>1, HashAssumption
  <2>3. x \in DOMAIN all /\ db.headers[x] = all[x] /\ db.headers[Prev(x)] = all[Prev(x)]
    BY <2>1 DEF PartOf
  <2> QED BY <2>1, <2>2, <2>3 DEF OneRecord
<1>3. SUFFICES ASSUME B # {} PROVE FALSE
  OBVIOUS
<1>4. H \in SUBSET Nat /\ H # {}
  BY <1>1, <1>3
<1>5. PICK x \in B : \A y \in B : db.headers[x].height <= db.headers[y].height
  <2> HIDE DEF B
  <2>1. PICK m \in H : \A k \in H : m <= k
    <3> HIDE DEF H
    <3> QED BY <1>4, LeastNat
  <2> QED BY <2>1
<1>6. x \in D /\ x \in Hash /\ db.headers[x].height \in Nat
  BY <1>1, <1>5
<1>7. CASE Prev(x) \notin D
  <2>1. PICK c \in Chains : c[1] = x /\ Len(c) = 1
    BY <1>6, SingleWalk
  <2> QED BY <1>5, <1>6, <1>7, <2>1 DEF WalkOf, Last
<1>8. CASE Prev(x) \in D
  <2>1. Prev(x) \notin B
    BY <1>1, <1>2, <1>5, <1>6, <1>8
  <2>2. PICK c \in Chains : WalkOf(c, Prev(x))
    BY <1>8, <2>1
  <2>3. PICK d \in Chains : /\ d[1] = x /\ Last(d) = Last(c)
                            /\ \A i \in 1 .. Len(d) : d[i] = x \/ \E j \in 1 .. Len(c) : d[i] = c[j]
    BY <1>6, <2>2, Prepend DEF WalkOf
  <2>4. WalkOf(d, x)
    BY <1>6, <2>2, <2>3 DEF WalkOf
  <2> QED BY <1>5, <2>4
<1> QED BY <1>7, <1>8

\* So a stored tip has one chain to be read back.
LEMMA OneStoredChain ==
    ASSUME WalksComplete, TypeOK, RecordInv, db.tip # NoHash
    PROVE  \E c \in Chains : StoredChains = {c}
<1>1. PICK c \in Chains : WalkOf(c, db.tip)
  BY SomeWalkOf DEF RecordInv
<1>2. ASSUME NEW d \in StoredChains PROVE d = c
  <2>1. d \in Chains /\ WalkOf(d, db.tip)
    BY DEF StoredChains, WalkOf
  <2>2. c \in Seq(Hash) /\ Len(c) \in Nat /\ d \in Seq(Hash) /\ Len(d) \in Nat
    BY <1>1, <2>1, ChainProperties, PeriodAssumption
  <2>3. Len(c) = Len(d) /\ \A i \in 1 .. Len(d) : c[i] = d[i]
    BY <1>1, <2>1, <2>2, OneWalkOf
  <2> QED BY <2>2, <2>3
<1>3. c \in StoredChains
  BY <1>1 DEF StoredChains, WalkOf
<1> QED BY <1>2, <1>3

\* Whatever headers exist and whatever puts fail, a restart finds exactly one chain
\* to read back from the stored tip, and cache and store never disagree on a header
\* both have, through any number of crashes and restarts.
THEOREM StoreNeverDisagrees ==
    ASSUME WalksComplete
    PROVE  Spec => []StoreAgrees
<1>1. ASSUME Init PROVE RecordInv
  <2>1. OneHistory(headers) /\ db.tip = NoHash /\ disk.tip = NoHash /\ phase = "down"
    BY <1>1 DEF Init, EmptyCache, OneHistory, OneRecord, PartOf
  <2> QED BY <2>1 DEF RecordInv
<1>2. TypeOK /\ RecordInv /\ [Next]_chainVars => RecordInv'
  BY RecordKept
<1>3. TypeOK /\ RecordInv => StoreAgrees
  <2>1. RecordInv => \A h \in Known \cap DOMAIN db.headers : db.headers[h] = headers[h]
    BY DEF RecordInv, OneHistory, PartOf, Known
  <2> QED BY <2>1, OneStoredChain DEF StoreAgrees
<1> QED BY <1>1, <1>2, <1>3, TypeCorrect, PTL DEF Spec

=============================================================================
