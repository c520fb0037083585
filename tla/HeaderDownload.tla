---------------------------- MODULE HeaderDownload ----------------------------
(***************************************************************************)
(* headerdownload.rs over ChainDB: the thread that asks peers for headers, *)
(* adds what they send, saves it and tells downstream.                     *)
(*                                                                         *)
(*   pc        what the thread does next, with the locals of headers():    *)
(*             peer, headers_queue, connected_headers,                     *)
(*             disconnected_headers, some_new, moved_tip, height           *)
(*   asked     peers that owe a headers message (Timeout::is_busy_with)    *)
(*   ctl       messages to the p2p control loop, not yet processed         *)
(*   p2pHeight the height in the configuration of the p2p layer            *)
(*   live      peers that are connected                                    *)
(*   out, req  messages of each peer, and requests to it, not yet handled  *)
(*   grown     which of its tips each peer follows                         *)
(*   view      what downstream takes for connected: the trunk it finds at  *)
(*             the start, and what it was told since                       *)
(*   heard     all it ever found or was told to be connected, since then   *)
(*   cut       did headers() ever stop in the middle of a message ?        *)
(*   budget    what may still go wrong                                     *)
(*                                                                         *)
(* Peers are external: each follows the chains to the tips of Tips[p], one *)
(* after the other, announces the new tip by inv, and answers getheaders.  *)
(* The stop hash of a request is the first of the locator: it never lies   *)
(* ahead of what the peer answers, and is left out.                        *)
(***************************************************************************)
EXTENDS ChainDB

CONSTANTS
    Peer,
    Tips,         \* the tips each peer follows, in order
    Odd,          \* headers messages that peers may send without being asked
    MAX_HEADERS,  \* headers in an answer: 2000 in the protocol
    DENSE,        \* where locators thin out: 10 in the code
    MaxInFlight,  \* bound: messages of a peer not yet handled
    Budget        \* bound: crashes, disconnects, odd messages and failures of the store

ASSUME DownloadAssumption ==
    /\ Odd \subseteq Seq(Hash)
    /\ {MAX_HEADERS, MaxInFlight} \subseteq Nat \ {0}
    /\ {DENSE, Budget} \subseteq Nat

ASSUME TipsAssumption ==
    /\ Tips \in [Peer -> Seq(Hash)]
    /\ \A p \in Peer : Tips[p] # <<>>
    /\ \A p \in Peer : \A h \in Range(Tips[p]) :
          \E c \in Chains : c[1] = h /\ Last(c) = Genesis

VARIABLES pc, asked, ctl, p2pHeight, live, out, req, grown, view, heard, cut, budget

p2pVars == <<ctl, p2pHeight>>
peerVars == <<live, out, req, grown>>
ghosts == <<view, heard, cut>>
downloadVars == <<chainVars, pc, asked, p2pVars, peerVars, ghosts, budget>>

\* One of the events that are bounded.
Spend == budget > 0 /\ budget' = budget - 1

Frame(at) ==
    [at |-> at, peer |-> "none", queue |-> <<>>, connected |-> <<>>, disconnected |-> <<>>,
     some_new |-> FALSE, moved |-> FALSE, height |-> 0]
Waiting == Frame("wait")

Connected == [kind |-> "Connected"]
Inv(h) == [kind |-> "Inv", hash |-> h]
Headers(hs) == [kind |-> "Headers", headers |-> hs]
Message ==
    {Connected} \cup [kind : {"Inv"}, hash : Hash] \cup [kind : {"Headers"}, headers : Seq(Hash)]

DownloadInit ==
    /\ Init
    /\ pc = Waiting /\ asked = {}
    /\ ctl = <<>> /\ p2pHeight = 0
    /\ live = Peer
    /\ out = [p \in Peer |-> <<Connected>>]
    /\ req = [p \in Peer |-> <<>>]
    /\ grown = [p \in Peer |-> 1]
    /\ view = {} /\ heard = {} /\ cut = FALSE
    /\ budget = Budget

-----------------------------------------------------------------------------
(***************************************************************************)
(* The start: ChainDB::init, before the threads run.                       *)
(***************************************************************************)
Start ==
    /\ LoadHeaders \/ StoreGenesis \/ StoreGenesisTip
    /\ view' = Range(trunk') /\ heard' = Range(trunk')
    /\ UNCHANGED <<pc, asked, p2pVars, peerVars, cut, budget>>

-----------------------------------------------------------------------------
(***************************************************************************)
(* get_headers.                                                            *)
(***************************************************************************)

\* The ids at distance 0 .. DENSE from the tip, then at distances that double.
locator_hashes ==
    LET distance(k) == IF k <= DENSE + 1 THEN k - 1 ELSE DENSE + 2 ^ (k - DENSE - 1) - 1
    IN  [k \in {k \in 1 .. Len(trunk) : distance(k) \in 0 .. Len(trunk) - 1} |->
             trunk[Len(trunk) - distance(k)]]

get_headers(p) ==
    IF p \in asked
    THEN UNCHANGED <<asked, req>>
    ELSE /\ asked' = asked \cup {p}
         /\ req' = IF p \in live THEN [req EXCEPT ![p] = Append(@, locator_hashes)] ELSE req

-----------------------------------------------------------------------------
(***************************************************************************)
(* run: one message of a connected peer that serves blocks.                *)
(***************************************************************************)
Take(p, kind) ==
    /\ phase = "up" /\ pc.at = "wait"
    /\ p \in live /\ out[p] # <<>> /\ Head(out[p]).kind = kind
    /\ out' = [out EXCEPT ![p] = Tail(@)]
    /\ UNCHANGED <<chainVars, p2pVars, live, grown, ghosts, budget>>

HandleConnected(p) ==
    /\ Take(p, "Connected")
    /\ get_headers(p)
    /\ UNCHANGED pc

\* inv: ask if the block is not known.
inv(p) ==
    /\ Take(p, "Inv")
    /\ IF Head(out[p]).hash \in Known THEN UNCHANGED <<asked, req>> ELSE get_headers(p)
    /\ UNCHANGED pc

\* Mutant: the request is not marked as answered.
ReceiveUncounted(p) ==
    /\ Take(p, "Headers")
    /\ LET hs == Head(out[p]).headers
       IN  pc' = IF hs = <<>> THEN Waiting
                 ELSE [Frame("add") EXCEPT !.peer = p, !.queue = hs,
                                           !.height = headers[tip_hash].height]
    /\ UNCHANGED <<asked, req>>

\* headers, up to its loop.
ReceiveHeaders(p) ==
    /\ Take(p, "Headers")
    /\ asked' = asked \ {p}
    /\ LET hs == Head(out[p]).headers
       IN  pc' = IF hs = <<>> THEN Waiting
                 ELSE [Frame("add") EXCEPT !.peer = p, !.queue = hs,
                                           !.height = headers[tip_hash].height]
    /\ UNCHANGED req

-----------------------------------------------------------------------------
(***************************************************************************)
(* headers: the loop over headers_queue, under the write lock.             *)
(***************************************************************************)
Popped == [pc EXCEPT !.queue = Tail(@)]

\* Mutant: the height stays the one of the old tip.
StoredAtOldHeight(h) == [Popped EXCEPT !.connected = Append(@, h), !.some_new = TRUE]

Stored(h) ==
    [Popped EXCEPT !.connected = Append(@, h), !.some_new = TRUE,
                   !.height = headers'[h].height]

\* Ok(None): already known.
SkipKnown(h) ==
    /\ AddRejected(h) /\ IgnoreKnown(h)
    /\ pc' = Popped
    /\ UNCHANGED <<ctl, cut, budget>>

KeepBranch(h) == AddBranch(h) /\ pc' = Stored(h) /\ UNCHANGED <<ctl, cut, budget>>

Reorganises(h) == Prev(h) # NoHash /\ ~OnTrunk(Prev(h))

ExtendTrunk(h) ==
    /\ AddTip(h) /\ ~Reorganises(h)
    /\ pc' = [Stored(h) EXCEPT !.moved = TRUE]
    /\ UNCHANGED <<ctl, cut, budget>>

\* Mutant: what was collected before is lost.
ReorganiseClears(h) ==
    /\ AddTip(h) /\ Reorganises(h)
    /\ \E c \in PathsToTrunk(h) :
          pc' = [Stored(h) EXCEPT !.moved = TRUE, !.at = "batch", !.connected = <<h>>,
                                  !.disconnected = unwinds(c)]
    /\ UNCHANGED <<ctl, cut, budget>>

\* A reorganisation leaves the inner loop.
Reorganise(h) ==
    /\ AddTip(h) /\ Reorganises(h)
    /\ \E c \in PathsToTrunk(h) :
          pc' = [Stored(h) EXCEPT !.moved = TRUE, !.at = "batch",
                                  !.disconnected = unwinds(c)]
    /\ UNCHANGED <<ctl, cut, budget>>

\* Err(SpvBadProofOfWork): ban the peer and return.
BanSender(h) ==
    /\ AddRejected(h) /\ RejectProofOfWork(h)
    /\ ctl' = Append(ctl, [ban |-> pc.peer])
    /\ pc' = Waiting /\ cut' = TRUE /\ UNCHANGED budget

\* Any other error, of the cache or of the store: return.
StopAtError(h) ==
    /\ \/ AddRejected(h) /\ RejectUnconnected(h) /\ UNCHANGED budget
       \/ AddLost(h) /\ UNCHANGED budget
       \/ AddPutFails(h) /\ Spend
    /\ pc' = Waiting /\ cut' = TRUE /\ UNCHANGED ctl

\* A panic: the thread is gone, and the lock poisoned.
Panic(h) == AddPanics(h) /\ pc' = Waiting /\ cut' = TRUE /\ UNCHANGED <<ctl, budget>>

AddNext ==
    /\ phase = "up" /\ pc.at = "add" /\ pc.queue # <<>>
    /\ LET h == Head(pc.queue)
       IN  \/ SkipKnown(h) \/ KeepBranch(h) \/ ExtendTrunk(h) \/ Reorganise(h)
           \/ BanSender(h) \/ StopAtError(h) \/ Panic(h)
    /\ UNCHANGED <<asked, p2pHeight, peerVars, view, heard>>

QueueEmpty ==
    /\ phase = "up" /\ pc.at = "add" /\ pc.queue = <<>>
    /\ pc' = [pc EXCEPT !.at = "batch"]
    /\ UNCHANGED <<chainVars, asked, p2pVars, peerVars, ghosts, budget>>

-----------------------------------------------------------------------------
(***************************************************************************)
(* headers: batch, and downstream outside of the lock.                     *)
(***************************************************************************)
\* Mutant: nothing is saved before downstream is told.
SaveNothing ==
    /\ phase = "up" /\ pc.at = "batch"
    /\ pc' = [pc EXCEPT !.at = "notify"]
    /\ UNCHANGED <<chainVars, asked, p2pVars, peerVars, ghosts, budget>>

SaveBatch ==
    /\ pc.at = "batch"
    /\ batch
    /\ pc' = [pc EXCEPT !.at = "notify"]
    /\ UNCHANGED <<asked, p2pVars, peerVars, ghosts, budget>>

\* batch fails: return its error.
BatchFails ==
    /\ PutMayFail /\ Spend
    /\ phase = "up" /\ pc.at = "batch"
    /\ pc' = Waiting /\ cut' = TRUE
    /\ UNCHANGED <<chainVars, asked, p2pVars, peerVars, view, heard>>

\* block_disconnected, then header_connected, for what was collected; on with
\* the rest of the message, with new collections.
Notify ==
    /\ phase = "up" /\ pc.at = "notify"
    /\ view' = (view \ Range(pc.disconnected)) \cup Range(pc.connected)
    /\ heard' = heard \cup Range(pc.connected)
    /\ pc' = [pc EXCEPT !.at = IF pc.queue = <<>> THEN "finish" ELSE "add",
                        !.connected = <<>>, !.disconnected = <<>>]
    /\ UNCHANGED <<chainVars, asked, p2pVars, peerVars, cut, budget>>

\* Ask for more if something was new, and publish the height of a new tip.
Finish ==
    /\ phase = "up" /\ pc.at = "finish"
    /\ IF pc.some_new THEN get_headers(pc.peer) ELSE UNCHANGED <<asked, req>>
    /\ ctl' = IF pc.moved THEN Append(ctl, [height |-> pc.height]) ELSE ctl
    /\ pc' = Waiting
    /\ UNCHANGED <<chainVars, p2pHeight, live, out, grown, ghosts, budget>>

-----------------------------------------------------------------------------
(***************************************************************************)
(* The p2p layer: the control loop, and peers that go.                     *)
(***************************************************************************)
Drop(p) ==
    /\ live' = live \ {p}
    /\ asked' = asked \ {p}
    /\ out' = [out EXCEPT ![p] = <<>>]
    /\ req' = [req EXCEPT ![p] = <<>>]
    /\ UNCHANGED grown

ControlHeight ==
    /\ ctl # <<>> /\ "height" \in DOMAIN Head(ctl)
    /\ p2pHeight' = Head(ctl).height
    /\ ctl' = Tail(ctl)
    /\ UNCHANGED <<chainVars, pc, asked, peerVars, ghosts, budget>>

ControlBan ==
    /\ ctl # <<>> /\ "ban" \in DOMAIN Head(ctl)
    /\ Drop(Head(ctl).ban)
    /\ ctl' = Tail(ctl)
    /\ UNCHANGED <<chainVars, pc, p2pHeight, ghosts, budget>>

Disconnect(p) ==
    /\ Spend
    /\ phase = "up" /\ p \in live
    /\ Drop(p)
    /\ UNCHANGED <<chainVars, pc, p2pVars, ghosts>>

-----------------------------------------------------------------------------
(***************************************************************************)
(* What peers do.                                                          *)
(***************************************************************************)
ChainTo == [h \in Hash |-> Reverse(CHOOSE c \in Chains : c[1] = h /\ Last(c) = Genesis)]

Send(p, m) ==
    /\ phase = "up" /\ p \in live
    /\ Len(out[p]) < MaxInFlight
    /\ out' = [out EXCEPT ![p] = Append(@, m)]
    /\ UNCHANGED <<chainVars, pc, asked, p2pVars, live, ghosts>>

\* The headers after the first locator id on the chain, or after genesis.
Following(chain, locator) ==
    LET on == {i \in DOMAIN locator : locator[i] \in Range(chain)}
        from == Max({1} \cup {i \in 1 .. Len(chain) : on # {} /\ chain[i] = locator[Min(on)]})
    IN  SubSeq(chain, from + 1, Min({Len(chain), from + MAX_HEADERS}))

Answer(p) ==
    /\ req[p] # <<>>
    /\ Send(p, Headers(Following(ChainTo[Tips[p][grown[p]]], Head(req[p]))))
    /\ req' = [req EXCEPT ![p] = Tail(@)]
    /\ UNCHANGED <<grown, budget>>

\* The peer moves to its next tip and announces it.
Announce(p) ==
    /\ grown[p] < Len(Tips[p])
    /\ grown' = [grown EXCEPT ![p] = @ + 1]
    /\ Send(p, Inv(Tips[p][grown[p] + 1]))
    /\ UNCHANGED <<req, budget>>

SendOdd(p) ==
    /\ Spend
    /\ \E hs \in Odd : Send(p, Headers(hs))
    /\ UNCHANGED <<req, grown>>

-----------------------------------------------------------------------------
\* The process ends; when it is back, every peer connects anew.
Restart ==
    /\ Spend
    /\ Crash
    /\ pc' = Waiting /\ asked' = {}
    /\ ctl' = <<>> /\ p2pHeight' = 0
    /\ live' = Peer
    /\ out' = [p \in Peer |-> <<Connected>>]
    /\ req' = [p \in Peer |-> <<>>]
    /\ view' = {} /\ heard' = {}
    /\ UNCHANGED <<grown, cut>>

Thread ==
    \/ \E p \in Peer : HandleConnected(p) \/ inv(p) \/ ReceiveHeaders(p)
    \/ AddNext
    \/ QueueEmpty
    \/ SaveBatch
    \/ BatchFails
    \/ Notify
    \/ Finish

Control == ControlHeight \/ ControlBan

DownloadNext ==
    \/ Start
    \/ Thread
    \/ Control
    \/ \E p \in Peer : Answer(p) \/ Announce(p) \/ SendOdd(p) \/ Disconnect(p)
    \/ Restart

\* Node and peers do not all stop: while the node has something to do, or a peer
\* something to answer, one of them goes on.
Progress == Start \/ Thread \/ Control \/ \E p \in Peer : Answer(p)

DownloadSpec == DownloadInit /\ [][DownloadNext]_downloadVars /\ WF_downloadVars(Progress)

-----------------------------------------------------------------------------
(***************************************************************************)
(* Properties.                                                             *)
(***************************************************************************)
Idle == phase = "up" /\ pc.at = "wait"

\* Downstream is told only what survives a crash: headers() saves the batch
\* before it calls downstream.
ToldIsDurable == phase = "up" => heard \subseteq DOMAIN disk.headers

IsFrame(f) ==
    f = [at |-> f.at, peer |-> f.peer, queue |-> f.queue, connected |-> f.connected,
         disconnected |-> f.disconnected, some_new |-> f.some_new, moved |-> f.moved,
         height |-> f.height]

\* Why that is so: what is collected was put into the store, what is on its way to
\* downstream was saved, nothing saved is lost, and the start reads what was saved.
DownloadInv ==
    /\ IsFrame(pc)
    /\ pc.queue \in Seq(Hash)
    /\ out \in [Peer -> Seq(Message)]
    /\ grown \in [Peer -> Nat] /\ \A p \in Peer : grown[p] \in 1 .. Len(Tips[p])
    /\ DOMAIN disk.headers \subseteq DOMAIN db.headers
    /\ phase = "down" => db = disk
    /\ phase = "genesis" => heard = Range(trunk)
    /\ heard \subseteq DOMAIN disk.headers
    /\ pc.connected \in Seq(DOMAIN db.headers)
    /\ pc.at = "notify" => pc.connected \in Seq(DOMAIN disk.headers)

\* Downstream is told of every header the node takes, and of the tip last: when
\* the thread waits, it has heard of all known headers and takes the tip for
\* connected, unless headers() stopped in the middle of a message.
HeardAll == Idle /\ ~cut => Known \subseteq heard /\ tip_hash \in view

\* The height that is given to new peers is the one of the tip, once a header came
\* and its message was handled: the last header added of a message that moves the
\* tip is the tip, as long as the headers of a message follow each other.
HeightOfTip ==
    Idle /\ ~cut /\ ctl = <<>> => p2pHeight \in {0, headers[tip_hash].height}

\* No header is connected before its parent: downstream can attach each to what
\* it has.
ParentsFirst == phase = "up" /\ ~cut => \A h \in heard \ {Genesis} : Prev(h) \in heard

\* The node determines the chain with most work on its own: once peers are quiet,
\* it knows the tip of every connected peer, and none has more work than its own,
\* unless headers() stopped in the middle of a message.
Synced ==
    <>[](phase = "up" /\ ~cut =>
            \A p \in live : LET tip == Tips[p][grown[p]]
                           IN  tip \in Known /\ headers[tip].log2work <= headers[tip_hash].log2work)

\* A message that is full, of a peer whose tip is not known yet, holds a header that
\* is not known either.
FullMessageHelps ==
    Idle => \A p \in live :
        out[p] # <<>> /\ Head(out[p]).kind = "Headers" /\ Tips[p][grown[p]] \notin Known =>
            LET hs == Head(out[p]).headers
            IN  Len(hs) = MAX_HEADERS => \E h \in Range(hs) : h \notin Known

\* Node and peer never wait for each other: once nothing is on its way from or to a
\* peer, the node knows the tip of the peer, and it has no more work than its own,
\* unless headers() stopped in the middle of a message.
QuietIsSynced ==
    Idle /\ ~cut =>
        \A p \in live : out[p] = <<>> /\ req[p] = <<>> =>
            LET tip == Tips[p][grown[p]]
            IN  tip \in Known /\ headers[tip].log2work <= headers[tip_hash].log2work

\* What downstream takes for connected includes the chain to the tip: it is told
\* of every header that is added to the trunk.
BestChainConnected ==
    Idle /\ ~cut => \A h \in Known : IsAncestor(h, tip_hash) => h \in view

=============================================================================
