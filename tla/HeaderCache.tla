----------------------------- MODULE HeaderCache -----------------------------
(***************************************************************************)
(* headercache.rs: the headers a murmel node knows, and the trunk.         *)
(*                                                                         *)
(*   headers  the HashMap of cached headers: for each known header id, the *)
(*            height and the total work stored with it;                    *)
(*   trunk    the Vec of ids, genesis first, tip last.                     *)
(*                                                                         *)
(* A header is a constant: its id determines its content.  Header maps an  *)
(* id to the fields the code looks at, `value' being the id read as a      *)
(* number for the proof of work.                                           *)
(***************************************************************************)
EXTENDS Difficulty, Sequences

CONSTANTS
    Hash,                 \* ids of the headers that exist
    NoHash,               \* the zero hash, Sha256dHash::default()
    Header,               \* Header[h]: content of the header with id h
    Genesis,              \* id of the network's genesis header
    Testnet,              \* is the network Network::Testnet ?
    DIFFCHANGE_INTERVAL,  \* blocks of a difficulty period
    TARGET_BLOCK_SPACING, \* seconds between blocks
    MaxChain              \* bound: longest chain of headers walked

ASSUME HashAssumption == Genesis \in Hash /\ NoHash \notin Hash

ASSUME HeaderAssumption ==
    /\ Header \in [Hash -> [prev : Hash \cup {NoHash}, time : 0 .. TIME - 1,
                            bits : Bits, value : Nat]]
    /\ Header[Genesis].prev = NoHash

ASSUME PeriodAssumption ==
    /\ Testnet \in BOOLEAN
    /\ DIFFCHANGE_INTERVAL \in Nat \ {0}
    /\ TARGET_BLOCK_SPACING \in Nat
    /\ MaxChain \in Nat \ {0}

VARIABLES headers, trunk

cacheVars == <<headers, trunk>>

-----------------------------------------------------------------------------
(***************************************************************************)
(* Walks along prev_blockhash.  A loop of the code that follows parents is *)
(* the choice of the one sequence c of Chains it visits.                   *)
(***************************************************************************)
Prev(h) == Header[h].prev
HeaderTarget(h) == Target(Header[h].bits)
HeaderWork(h) == Work(HeaderTarget(h))

\* It follows from the assumptions of Difficulty (Sequential_proofs, WorkIsNumber).
ASSUME WorkAssumption == \A h \in Hash : HeaderWork(h) \in Nat

\* Two operators of SequencesExt.  That module brings Bags along, whose definitions
\* would be part of every obligation of the proofs and double their time.
Last(s) == s[Len(s)]
Reverse(s) == [i \in 1 .. Len(s) |-> s[(Len(s) - i) + 1]]

Linked(c) == \A i \in 1 .. Len(c) - 1 : Prev(c[i]) = c[i + 1]

Chains == UNION {{c \in [1 .. n -> Hash] : Linked(c)} : n \in 1 .. MaxChain}

-----------------------------------------------------------------------------
Known == DOMAIN headers

StoredHeader == [height : Nat, log2work : 0 .. MAX_WORK - 1]

tip_hash == Last(trunk)

OnTrunk(h) == h \in Range(trunk)

\* Mutant: the position after it.
pos_on_trunk_plus_one(h) == Max({i \in 1 .. Len(trunk) : trunk[i] = h}) + 1

\* The last position of h on the trunk (1-based), if it is there.
pos_on_trunk(h) == Max({i \in 1 .. Len(trunk) : trunk[i] = h})

Insert(h, stored) ==
    headers' = [x \in Known \cup {h} |-> IF x = h THEN stored ELSE headers[x]]

-----------------------------------------------------------------------------
(***************************************************************************)
(* The target a child of p must have.  The operators below return a set:   *)
(* the singleton of their result, or {} where the code gives up with       *)
(* UnconnectedHeader because an ancestor is not in the cache.              *)
(***************************************************************************)
ChangesDifficulty(p) == (headers[p].height + 1) % DIFFCHANGE_INTERVAL = 0

\* The short cut of line 199: taken when p's parent is the tip.
FastPath(p) == Prev(p) = tip_hash
FastPathPanics(p) == FastPath(p) /\ Len(trunk) < DIFFCHANGE_INTERVAL + 2

PeriodStart(p) ==
    IF FastPath(p)
    THEN {trunk[Len(trunk) - DIFFCHANGE_INTERVAL - 1]}
    ELSE {Last(c) : c \in {c \in Chains : /\ c[1] = p
                                          /\ Len(c) = DIFFCHANGE_INTERVAL
                                          /\ \A i \in 2 .. Len(c) : c[i] \in Known}}

\* Testnet: the target of the nearest ancestor the 20 minute rule spared.
RealTarget(p) ==
    LET Stop(s) == \/ headers[s].height % DIFFCHANGE_INTERVAL = 0
                   \/ Prev(s) = NoHash
                   \/ HeaderTarget(s) # MAX_TARGET
    IN  {HeaderTarget(Last(c)) :
            c \in {c \in Chains : /\ c[1] = p
                                  /\ \A i \in 1 .. Len(c) : c[i] \in Known
                                  /\ \A i \in 1 .. Len(c) - 1 : ~Stop(c[i])
                                  /\ Stop(Last(c))}}

required_work(p, h) ==
    IF ChangesDifficulty(p)
    THEN {Retarget(HeaderTarget(p), ClampedTimespan(Header[s].time, Header[p].time)) :
            s \in PeriodStart(p)}
    ELSE IF ~Testnet THEN {HeaderTarget(p)}
    ELSE IF Header[h].time > (Header[p].time + 2 * TARGET_BLOCK_SPACING) % TIME
    THEN {MAX_TARGET}
    ELSE RealTarget(p)

-----------------------------------------------------------------------------
(***************************************************************************)
(* add_header(h), one action per outcome.                                  *)
(***************************************************************************)

\* Ok(None): already known.
IgnoreKnown(h) == h \in Known /\ UNCHANGED cacheVars

\* h gets as far as add_header_to_tree.
Connects(h) == h \notin Known /\ Prev(h) \in Known

IndexPanics(h) ==
    Connects(h) /\ ChangesDifficulty(Prev(h)) /\ FastPathPanics(Prev(h))

\* Err(UnconnectedHeader) before anything was changed.
RejectUnconnected(h) ==
    /\ h \notin Known
    /\ Prev(h) # NoHash
    /\ Prev(h) \in Known => ~IndexPanics(h) /\ required_work(Prev(h), h) = {}
    /\ UNCHANGED cacheVars

total_work(h) == HeaderWork(h) + headers[Prev(h)].log2work

\* The assertion in log2, evaluated before the proof of work is checked.
WorkPanics(h) ==
    /\ Connects(h)
    /\ ~IndexPanics(h)
    /\ required_work(Prev(h), h) # {}
    /\ total_work(h) >= MAX_WORK

\* h is dated and connected: spv_validate decides.
Validated(h) ==
    Connects(h) /\ ~IndexPanics(h) /\ total_work(h) < MAX_WORK

spv_validate(h, required) ==
    HeaderTarget(h) = required /\ Header[h].value <= HeaderTarget(h)

\* Err(SpvBadProofOfWork).
RejectProofOfWork(h) ==
    /\ Validated(h)
    /\ \E required \in required_work(Prev(h), h) : ~spv_validate(h, required)
    /\ UNCHANGED cacheVars

stored_header(h) ==
    [height   |-> headers[Prev(h)].height + 1,
     log2work |-> RoundWork(total_work(h))]

\* The header is valid: whatever follows, it is now in the cache.
Accept(h) ==
    /\ Validated(h)
    /\ \E required \in required_work(Prev(h), h) : spv_validate(h, required)
    /\ Insert(h, stored_header(h))

\* Mutants: compare lengths; compare the work of single blocks; prefer the newest.
LongerChain(h) == headers[tip_hash].height < stored_header(h).height
MoreBlockWork(h) == HeaderWork(tip_hash) < HeaderWork(h)
NotLessWork(h) == headers[tip_hash].log2work <= stored_header(h).log2work

MoreWork(h) == headers[tip_hash].log2work < stored_header(h).log2work

\* Not more work than the tip: h goes on a side branch.
AddSide(h) == Accept(h) /\ ~MoreWork(h) /\ UNCHANGED trunk

\* More work, and the parent is on the trunk: the trunk is extended as it is.
AddExtend(h) ==
    /\ Accept(h)
    /\ MoreWork(h)
    /\ OnTrunk(Prev(h))
    /\ trunk' = Append(trunk, h)

\* The walk of lines 275-287 from h's parent back to the trunk.
PathsToTrunk(h) ==
    {c \in Chains : /\ c[1] = Prev(h)
                    /\ \A i \in 1 .. Len(c) - 1 : c[i] \in Known /\ ~OnTrunk(c[i])
                    /\ OnTrunk(Last(c))}

\* Mutant: only the new tip.
path_of_tip(c, h) == <<h>>

\* What that loop collects: it steps to the parent before it pushes.
path_to_new_tip(c, h) == Append(Reverse(Tail(c)), h)

\* What a reorganisation to h along c removes from the trunk, tip first.
unwinds(c) == Reverse(SubSeq(trunk, pos_on_trunk(Last(c)) + 1, Len(trunk)))

\* More work on another branch: cut the trunk at the fork and extend it.
AddReorg(h) ==
    /\ Accept(h)
    /\ MoreWork(h)
    /\ ~OnTrunk(Prev(h))
    /\ \E c \in PathsToTrunk(h) :
          trunk' = SubSeq(trunk, 1, pos_on_trunk(Last(c))) \o path_to_new_tip(c, h)

\* Err(UnconnectedHeader) after h was inserted: its branch is rooted elsewhere.
AddPathLost(h) ==
    /\ Accept(h)
    /\ MoreWork(h)
    /\ ~OnTrunk(Prev(h))
    /\ PathsToTrunk(h) = {}
    /\ UNCHANGED trunk

\* The branch "insert genesis": any unknown header without a parent.
InsertGenesis(h) ==
    /\ h \notin Known
    /\ Prev(h) = NoHash
    /\ HeaderWork(h) < MAX_WORK
    /\ Insert(h, [height |-> 0, log2work |-> RoundWork(HeaderWork(h))])
    /\ trunk' = Append(trunk, h)

GenesisPanics(h) ==
    h \notin Known /\ Prev(h) = NoHash /\ HeaderWork(h) >= MAX_WORK

Rejects(h) == IgnoreKnown(h) \/ RejectUnconnected(h) \/ RejectProofOfWork(h)

MovesTip(h) == AddExtend(h) \/ AddReorg(h) \/ InsertGenesis(h)

Panics(h) == IndexPanics(h) \/ WorkPanics(h) \/ GenesisPanics(h)

=============================================================================
