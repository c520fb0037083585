-------------------------- MODULE ChainDBInvariant --------------------------
(***************************************************************************)
(* The inductive invariant behind the theorems of ChainDB_proofs, and the  *)
(* hypotheses on the constants under which it holds.                       *)
(***************************************************************************)
EXTENDS ChainDB

(***************************************************************************)
(* Hypotheses of the theorems about ChainDB.                               *)
(***************************************************************************)

\* Genesis is the only header without a parent that exists.
OneRoot == \A h \in Hash : Prev(h) = NoHash => h = Genesis

\* MaxChain, the bound on walks, cuts no walk short.
WalksComplete ==
    \A c \in Chains : \A h \in Hash : Prev(h) = c[1] => <<h>> \o c \in Chains

\* The work of a block is never lost in the rounding of the total.
WorkResolved ==
    \A h \in Hash : \A w \in 0 .. MAX_WORK - 1 :
        w + HeaderWork(h) < MAX_WORK => RoundWork(w + HeaderWork(h)) > w

Sane == OneRoot /\ WalksComplete /\ ~PutMayFail

(***************************************************************************)
(* The inductive invariant.                                                *)
(***************************************************************************)
Running == phase \in {"up", "poisoned"}

\* The records of a set of headers: closed under parents, each with the height
\* and the work that follow from those of its parent.
Sound(f) ==
    \A h \in DOMAIN f :
        \/ h = Genesis /\ f[h] = [height |-> 0, log2work |-> RoundWork(HeaderWork(h))]
        \/ /\ Prev(h) \in DOMAIN f
           /\ HeaderWork(h) + f[Prev(h)].log2work < MAX_WORK
           /\ f[h] = [height   |-> f[Prev(h)].height + 1,
                      log2work |-> RoundWork(HeaderWork(h) + f[Prev(h)].log2work)]

\* The tip of a store has most work; a store without tip has at most genesis.
SoundStore(s) ==
    /\ Sound(s.headers)
    /\ s.tip = NoHash => DOMAIN s.headers \subseteq {Genesis}
    /\ s.tip # NoHash =>
          /\ s.tip \in DOMAIN s.headers
          /\ \A h \in DOMAIN s.headers :
                s.headers[h].log2work <= s.headers[s.tip].log2work

\* Every known header descends from genesis through known headers.
RootPaths ==
    \A h \in Known : \E c \in Chains :
        /\ c[1] = h
        /\ Last(c) = Genesis
        /\ \A i \in 1 .. Len(c) : c[i] \in Known

CacheInv ==
    trunk # <<>> =>
        /\ Sound(headers)
        /\ RootPaths
        /\ trunk[1] = Genesis
        /\ TipMostWork

\* What store and cache share in each phase.
PhaseInv ==
    /\ phase \in {"down", "genesis"} => db = disk
    /\ phase = "down" => Known = {}
    /\ phase = "genesis" =>
          /\ trunk = <<Genesis>>
          /\ Known = {Genesis}
          /\ db.tip = NoHash
          /\ Genesis \in DOMAIN db.headers
          /\ db.headers[Genesis] = headers[Genesis]
    /\ Running =>
          /\ \A h \in Known : h \in DOMAIN db.headers /\ db.headers[h] = headers[h]
          /\ db.tip = tip_hash
          /\ \A h \in DOMAIN db.headers :
                h \in Known \/ (h \in DOMAIN disk.headers /\ db.headers[h] = disk.headers[h])

\* The durable tip is behind the tip, or it is the tip.
DbAhead ==
    disk.tip # NoHash =>
        /\ db.tip # NoHash
        /\ db.headers[db.tip].log2work >= disk.headers[disk.tip].log2work

IInv ==
    /\ TypeOK
    /\ CacheInv
    /\ PhaseInv
    /\ SoundStore(db) /\ SoundStore(disk)
    /\ DbAhead

\* The hypotheses hold of the constants, and every reachable state of ChainDB
\* (cache, store and what is durable, in every phase) satisfies the invariant.
InductiveInvariant == Sane /\ WorkResolved /\ IInv

=============================================================================
