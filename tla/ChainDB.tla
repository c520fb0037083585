------------------------------- MODULE ChainDB -------------------------------
(***************************************************************************)
(* chaindb.rs: the header cache in front of a persistent store.            *)
(*                                                                         *)
(*   db     what the store answers: the headers put, keyed by their id,    *)
(*          and the id stored under HEADER_TIP_KEY (NoHash if none);       *)
(*   disk   the content of the store as of its last batch: what is left    *)
(*          after a crash;                                                 *)
(*   phase  "down", "genesis" (init_headers between its two batches),      *)
(*          "up", or "poisoned" (a panic under the write lock: every later *)
(*          lock().unwrap() panics too).                                   *)
(*                                                                         *)
(* The store is the hammersbald library: puts are seen at once by gets,    *)
(* and batch makes everything put so far permanent, in one step.           *)
(***************************************************************************)
EXTENDS HeaderCache

CONSTANT
    PutMayFail  \* may a put into the store return an error ?

ASSUME PutAssumption == PutMayFail \in BOOLEAN

VARIABLES db, disk, phase

storeVars == <<db, disk>>
chainVars == <<headers, trunk, db, disk, phase>>

IsStore(s) ==
    /\ s = [headers |-> s.headers, tip |-> s.tip]
    /\ DOMAIN s.headers \subseteq Hash
    /\ s.headers \in [DOMAIN s.headers -> StoredHeader]
    /\ s.tip \in Hash \cup {NoHash}

EmptyCache == headers = [h \in {} |-> NoHash] /\ trunk = <<>>

Init ==
    /\ EmptyCache
    /\ db = [headers |-> [h \in {} |-> NoHash], tip |-> NoHash]
    /\ disk = db
    /\ phase = "down"

-----------------------------------------------------------------------------
(***************************************************************************)
(* The store: put_hash_keyed, store_header_tip and batch.                  *)
(***************************************************************************)
Put(h, stored, tip) ==
    db' = [headers |-> [x \in DOMAIN db.headers \cup {h} |->
                            IF x = h THEN stored ELSE db.headers[x]],
           tip |-> tip]

batch ==
    /\ phase = "up"
    /\ disk' = db
    /\ UNCHANGED <<headers, trunk, db, phase>>

-----------------------------------------------------------------------------
(***************************************************************************)
(* init_headers.                                                           *)
(***************************************************************************)

\* The walk from the stored tip: it ends at a root, or where a parent is
\* not in the store.
StoredChains ==
    {c \in Chains : /\ c[1] = db.tip
                    /\ \A i \in 1 .. Len(c) : c[i] \in DOMAIN db.headers
                    /\ Prev(Last(c)) \notin DOMAIN db.headers}

\* Mutant: the chain is left in the order it was read.
LoadUnreversed ==
    /\ phase = "down"
    /\ \E c \in StoredChains :
          /\ trunk' = c
          /\ headers' = [h \in Range(c) |-> db.headers[h]]
    /\ phase' = "up"
    /\ UNCHANGED storeVars

\* A tip is stored: read its chain back, unchecked, and reverse it.
LoadHeaders ==
    /\ phase = "down"
    /\ \E c \in StoredChains :
          /\ trunk' = Reverse(c)
          /\ headers' = [h \in Range(c) |-> db.headers[h]]
    /\ phase' = "up"
    /\ UNCHANGED storeVars

\* No tip is stored: put the genesis header and batch ...
StoreGenesis ==
    /\ phase = "down"
    /\ db.tip = NoHash
    /\ InsertGenesis(Genesis)
    /\ Put(Genesis, headers'[Genesis], db.tip)
    /\ disk' = db'
    /\ phase' = "genesis"

\* ... then store it as the tip, and batch again.
StoreGenesisTip ==
    /\ phase = "genesis"
    /\ db' = [db EXCEPT !.tip = Genesis]
    /\ disk' = db'
    /\ phase' = "up"
    /\ UNCHANGED cacheVars

-----------------------------------------------------------------------------
(***************************************************************************)
(* add_header: the cache first, then the store.                            *)
(***************************************************************************)

\* Ok(None), or an error of the cache that changed nothing.
AddRejected(h) == Rejects(h) /\ UNCHANGED <<db, disk, phase>>

\* An error of the cache after it inserted the header.
AddLost(h) == AddPathLost(h) /\ UNCHANGED <<db, disk, phase>>

\* Mutant: headers of side branches are stored as the tip.
AddBranchAsTip(h) == AddSide(h) /\ Put(h, headers'[h], h) /\ UNCHANGED <<disk, phase>>

\* Ok(Some(stored, None, None)): the stored tip stays.
AddBranch(h) ==
    /\ AddSide(h)
    /\ Put(h, headers'[h], db.tip)
    /\ UNCHANGED <<disk, phase>>

\* Mutant: the height is stored as the cache had it before.
AddTipAtParent(h) ==
    /\ MovesTip(h)
    /\ Put(h, [headers'[h] EXCEPT !.height = headers[tip_hash].height], h)
    /\ UNCHANGED <<disk, phase>>

\* Ok(Some(stored, unwinds, Some(forward))): the new tip is stored as well.
AddTip(h) ==
    /\ MovesTip(h)
    /\ Put(h, headers'[h], h)
    /\ UNCHANGED <<disk, phase>>

\* put_hash_keyed fails, or store_header_tip after it: the cache keeps what
\* the store did not get.
AddPutFails(h) ==
    /\ PutMayFail
    /\ \/ (AddSide(h) \/ MovesTip(h)) /\ UNCHANGED db
       \/ MovesTip(h) /\ Put(h, headers'[h], db.tip)
    /\ UNCHANGED <<disk, phase>>

\* A panic while the write lock is held.
AddPanics(h) ==
    /\ Panics(h)
    /\ phase' = "poisoned"
    /\ UNCHANGED <<headers, trunk, db, disk>>

add_header(h) ==
    /\ phase = "up"
    /\ \/ AddRejected(h)
       \/ AddLost(h)
       \/ AddBranch(h)
       \/ AddTip(h)
       \/ AddPutFails(h)
       \/ AddPanics(h)

-----------------------------------------------------------------------------
\* The process ends, at any point: memory and unbatched puts are gone.
Crash ==
    /\ phase # "down"
    /\ headers' = [h \in {} |-> NoHash]
    /\ trunk' = <<>>
    /\ db' = disk
    /\ phase' = "down"
    /\ UNCHANGED disk

Next ==
    \/ LoadHeaders
    \/ StoreGenesis
    \/ StoreGenesisTip
    \/ batch
    \/ \E h \in Hash : add_header(h)
    \/ Crash

Spec == Init /\ [][Next]_chainVars

-----------------------------------------------------------------------------
(***************************************************************************)
(* Properties.                                                             *)
(***************************************************************************)

\* Every variable has the type of the code's data.
TypeOK ==
    /\ Known \subseteq Hash
    /\ headers \in [Known -> StoredHeader]
    /\ trunk \in Seq(Known)
    /\ IsStore(db) /\ IsStore(disk)
    /\ phase \in {"down", "genesis", "up", "poisoned"}
    /\ trunk = <<>> <=> phase = "down"

\* tip() returns a known header with most work: no header that was accepted,
\* on whatever branch and in whatever order, has more work than the tip.
TipMostWork ==
    trunk # <<>> => \A h \in Known : headers[h].log2work <= headers[tip_hash].log2work

\* The parent of every known header is known, one lower, and with less work:
\* the walks of add_header_to_tree never meet a gap in the cache.
AncestryKnown ==
    \A h \in Known :
        \/ Prev(h) = NoHash /\ headers[h].height = 0
        \/ /\ Prev(h) \in Known
           /\ headers[h].height = headers[Prev(h)].height + 1
           /\ headers[h].log2work > headers[Prev(h)].log2work

\* No known header is a child of the tip: the short cut of the retarget code
\* (headercache.rs 199-200), whose index would be wrong, is never taken.
FastPathUnused == trunk # <<>> => \A h \in Known : Prev(h) # tip_hash

IsAncestor(a, h) == \E c \in Chains : c[1] = h /\ Last(c) = a

\* The trunk holds ancestors of the tip only, ordered by height: however many
\* reorganisations happened, no header of an abandoned branch is left on it.
TrunkOnBestChain ==
    /\ \A i \in 1 .. Len(trunk) : IsAncestor(trunk[i], tip_hash)
    /\ \A i \in 1 .. Len(trunk) - 1 : headers[trunk[i]].height <= headers[trunk[i + 1]].height

\* The trunk is the chain from genesis to the tip: each header on it is the parent
\* of the next one, as the comments on trunk and pos_on_trunk say.
TrunkIsChain == Linked(Reverse(trunk)) /\ (trunk # <<>> => trunk[1] = Genesis)

\* As long as no header is on the trunk twice (which a reorganisation causes),
\* the trunk is the chain from genesis to the tip.
TrunkUnlessRepeated == IsInjective(trunk) => TrunkIsChain

\* Cache and store agree while the node is up: every known header was put, with
\* the height and work the cache has, and the stored tip is the cache's tip.
CacheStored ==
    phase = "up" =>
        /\ \A h \in Known : h \in DOMAIN db.headers /\ db.headers[h] = headers[h]
        /\ db.tip = tip_hash

MostWorkOf(s) ==
    s.tip # NoHash =>
        /\ s.tip \in DOMAIN s.headers
        /\ \A h \in DOMAIN s.headers :
              /\ s.headers[h].log2work <= s.headers[s.tip].log2work
              /\ h = Genesis \/ Prev(h) \in DOMAIN s.headers

\* Whatever was batched before a crash, a restart finds a tip that has most work
\* of all stored headers, and every ancestor of every stored header.
StoreMostWork == MostWorkOf(db) /\ MostWorkOf(disk)

\* Even if puts fail, init_headers finds one chain, and no other, to walk from the
\* stored tip, and what store and cache both hold of a header is the same.
StoreAgrees ==
    /\ db.tip # NoHash => \E c \in Chains : StoredChains = {c}
    /\ \A h \in Known \cap DOMAIN db.headers : db.headers[h] = headers[h]

\* A restart ends with a trunk that is linked, without gap or repetition, up to
\* the tip of the last batch.
RestartLinked ==
    [][phase = "down" /\ phase' = "up" =>
          Linked(Reverse(trunk')) /\ Last(trunk') = disk.tip]_chainVars

\* init_headers rebuilds the whole chain from a header without parent to the tip
\* of the last batch, also where the trunk was not a chain before the crash.
RestartRebuilds ==
    [][phase = "down" /\ phase' = "up" =>
          /\ Linked(Reverse(trunk'))
          /\ Prev(trunk'[1]) = NoHash
          /\ Last(trunk') = disk.tip]_chainVars

\* The durable tip never goes back: no batch, crash or restart replaces it by a
\* tip with less work.
DurableTipAdvances ==
    [][disk.tip # NoHash =>
          /\ disk'.tip \in DOMAIN disk'.headers
          /\ disk'.headers[disk'.tip].log2work >= disk.headers[disk.tip].log2work]_chainVars

=============================================================================
