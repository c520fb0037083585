----------------------- MODULE HeaderDownload_proofs -----------------------
(***************************************************************************)
(* Theorems about HeaderDownload, for any peers, headers and bounds: it    *)
(* uses ChainDB as ChainDB allows, so that what is proved of ChainDB holds *)
(* while the node runs; downstream hears of every header, parents first,   *)
(* and of saved ones only; the height that is published is that of the tip.*)
(***************************************************************************)
EXTENDS HeaderDownload, ChainDB_proofs


-----------------------------------------------------------------------------
(***************************************************************************)
(* The answers of a peer.                                                  *)
(***************************************************************************)

\* What a peer answers is a sequence of ids, a section of its chain.
LEMMA FollowingType ==
    ASSUME NEW chain \in Seq(Hash), chain # <<>>, NEW locator
    PROVE  /\ Following(chain, locator) \in Seq(Hash)
           /\ \E m \in Nat \ {0}, n \in Nat :
                 n <= Len(chain) /\ Following(chain, locator) = SubSeq(chain, m, n)
<1> DEFINE on == {i \in DOMAIN locator : locator[i] \in Range(chain)}
           I == {1} \cup {i \in 1 .. Len(chain) : on # {} /\ chain[i] = locator[Min(on)]}
           from == Max(I)
           last == Min({Len(chain), from + MAX_HEADERS})
<1>1. Following(chain, locator) = SubSeq(chain, from + 1, last)
  BY DEF Following
<1>2. Len(chain) \in Nat /\ Len(chain) >= 1
  BY EmptySeq
<1>3. I \in SUBSET (0 .. Len(chain)) /\ I # {}
  <2> HIDE DEF on
  <2> QED BY <1>2
<1>4. from \in 0 .. Len(chain)
  <2> HIDE DEF I
  <2> QED BY <1>2, <1>3, MaxNat, Zenon
<1> HIDE DEF from
<1>5. last \in {Len(chain), from + MAX_HEADERS} /\ last <= Len(chain)
  <2> DEFINE S == {Len(chain), from + MAX_HEADERS}
  <2>1. S \in SUBSET Nat /\ S # {} /\ Len(chain) \in S
    BY <1>2, <1>4, DownloadAssumption
  <2>2. Min(S) \in S /\ \A k \in S : Min(S) <= k
    <3> HIDE DEF S
    <3> QED BY <2>1, MinNat
  <2> QED BY <2>1, <2>2
<1>6. last \in from .. Len(chain)
  BY <1>2, <1>4, <1>5, DownloadAssumption
<1> HIDE DEF last
<1>7. SubSeq(chain, from + 1, last) \in Seq(Hash)
  BY <1>2, <1>4, <1>6, PartOfSeq
<1>8. from + 1 \in Nat \ {0} /\ last \in Nat /\ last <= Len(chain)
  BY <1>2, <1>4, <1>6
<1> QED BY <1>1, <1>7, <1>8, Zenon

\* The chains that peers serve are sequences of ids.
LEMMA ServedChain ==
    ASSUME NEW p \in Peer, NEW i \in 1 .. Len(Tips[p])
    PROVE  /\ ChainTo[Tips[p][i]] \in Seq(Hash) /\ ChainTo[Tips[p][i]] # <<>>
           /\ \E c \in Chains : /\ ChainTo[Tips[p][i]] = Reverse(c)
                                /\ c[1] = Tips[p][i] /\ Last(c) = Genesis
<1> DEFINE h == Tips[p][i]
           c == CHOOSE c \in Chains : c[1] = h /\ Last(c) = Genesis
<1>1. h \in Hash /\ h \in Range(Tips[p])
  BY TipsAssumption DEF Range
<1>2. c \in Chains /\ c[1] = h /\ Last(c) = Genesis
  BY <1>1, TipsAssumption
<1>3. ChainTo[h] = Reverse(c)
  BY <1>1, Zenon DEF ChainTo
<1> HIDE DEF c
<1>4. c \in Seq(Hash) /\ Len(c) >= 1
  BY <1>2, ChainProperties, PeriodAssumption
<1>5. Reverse(c) \in Seq(Hash) /\ Len(Reverse(c)) >= 1
  BY <1>4, ReverseProperties
<1> QED BY <1>2, <1>3, <1>5, EmptySeq

-----------------------------------------------------------------------------
(***************************************************************************)
(* Every step of HeaderDownload is a step of ChainDB, or none.             *)
(***************************************************************************)

\* The header the thread adds next exists.
LEMMA NextHeader ==
    ASSUME DownloadInv, pc.queue # <<>>
    PROVE  Head(pc.queue) \in Hash /\ Tail(pc.queue) \in Seq(Hash)
BY HeadTail DEF DownloadInv

\* AddNext calls ChainDB::add_header.
LEMMA AddNextIsAdd ==
    ASSUME DownloadInv, AddNext
    PROVE  Next
<1> DEFINE h == Head(pc.queue)
<1>1. h \in Hash /\ phase = "up"
  BY NextHeader DEF AddNext
<1>2. add_header(h)
  <2>1. \/ SkipKnown(h) \/ KeepBranch(h) \/ ExtendTrunk(h) \/ Reorganise(h)
        \/ BanSender(h) \/ StopAtError(h) \/ Panic(h)
    BY DEF AddNext
  <2> HIDE DEF h
  <2> QED BY <1>1, <2>1, Zenon DEF add_header, SkipKnown, KeepBranch, ExtendTrunk, Reorganise,
                            BanSender, StopAtError, Panic
<1> HIDE DEF h
<1> QED BY <1>1, <1>2 DEF Next

\* Whatever happens, ChainDB takes one of its steps or none.
LEMMA ChainStep ==
    ASSUME DownloadInv, [DownloadNext]_downloadVars
    PROVE  [Next]_chainVars
<1> SUFFICES ASSUME DownloadNext PROVE [Next]_chainVars
  BY DEF downloadVars
<1>1. CASE Start
  BY <1>1 DEF Start, Next
<1>2. CASE \E p \in Peer : HandleConnected(p) \/ inv(p) \/ ReceiveHeaders(p)
  BY <1>2 DEF HandleConnected, inv, ReceiveHeaders, Take
<1>3. CASE AddNext
  BY <1>3, AddNextIsAdd
<1>4. CASE QueueEmpty \/ BatchFails \/ Notify \/ Finish
  BY <1>4 DEF QueueEmpty, BatchFails, Notify, Finish
<1>5. CASE SaveBatch
  BY <1>5 DEF SaveBatch, Next
<1>6. CASE Control
  BY <1>6 DEF Control, ControlHeight, ControlBan
<1>7. CASE \E p \in Peer : Answer(p) \/ Announce(p) \/ SendOdd(p) \/ Disconnect(p)
  BY <1>7 DEF Answer, Announce, SendOdd, Disconnect, Send
<1>8. CASE Restart
  BY <1>8 DEF Restart, Next
<1> QED BY <1>1, <1>2, <1>3, <1>4, <1>5, <1>6, <1>7, <1>8 DEF DownloadNext, Thread

-----------------------------------------------------------------------------
(***************************************************************************)
(* DownloadInv is inductive, together with TypeOK of ChainDB.              *)
(***************************************************************************)

\* At the start nothing is known, collected or told.
LEMMA InitDownload == DownloadInit => DownloadInv
<1> SUFFICES ASSUME DownloadInit PROVE DownloadInv
  OBVIOUS
<1>1. IsFrame(pc) /\ pc.queue \in Seq(Hash) /\ pc.connected \in Seq(DOMAIN db.headers)
      /\ pc.at = "wait"
  BY EmptySeq DEF DownloadInit, Waiting, Frame, IsFrame
<1>2. out \in [Peer -> Seq(Message)]
  BY DEF DownloadInit, Message
<1>3. grown \in [Peer -> Nat] /\ \A p \in Peer : grown[p] \in 1 .. Len(Tips[p])
  <2>1. \A p \in Peer : Len(Tips[p]) \in Nat /\ Len(Tips[p]) >= 1
    BY TipsAssumption, EmptySeq
  <2> QED BY <2>1 DEF DownloadInit
<1>4. disk = db /\ phase = "down" /\ heard = {}
  BY DEF DownloadInit, Init
<1> QED BY <1>1, <1>2, <1>3, <1>4 DEF DownloadInv

\* ChainDB::init reads what was saved.
LEMMA StartKeeps ==
    ASSUME DownloadInv, TypeOK, Start
    PROVE  DownloadInv'
<1>1. UNCHANGED <<pc, out, grown>> /\ heard' = Range(trunk')
  BY DEF Start, peerVars
<1>2. CASE LoadHeaders
  <2>1. PICK c \in StoredChains : trunk' = Reverse(c)
    BY <1>2 DEF LoadHeaders
  <2>2. c \in Seq(Hash) /\ c \in Seq(DOMAIN db.headers)
    <3>1. c \in Chains /\ \A i \in 1 .. Len(c) : c[i] \in DOMAIN db.headers
      BY <2>1 DEF StoredChains
    <3> QED BY <3>1, ChainProperties
  <2>3. Range(trunk') \subseteq DOMAIN db.headers
    BY <2>1, <2>2, ReverseProperties, RangeOfSeq, Zenon
  <2>4. db = disk /\ db' = db /\ disk' = disk /\ phase' = "up"
    BY <1>2 DEF LoadHeaders, storeVars, DownloadInv
  <2> QED BY <1>1, <2>3, <2>4 DEF DownloadInv, IsFrame
<1>3. CASE StoreGenesis
  <2>1. trunk = <<>> /\ trunk' = Append(trunk, Genesis)
    BY <1>3 DEF StoreGenesis, InsertGenesis, TypeOK
  <2>2. Range(trunk') = {Genesis}
    BY <2>1 DEF Range
  <2>3. DOMAIN db'.headers = DOMAIN db.headers \cup {Genesis} /\ disk' = db' /\ phase' = "genesis"
    BY <1>3 DEF StoreGenesis, Put
  <2>4. pc.connected \in Seq(DOMAIN db'.headers)
    BY <2>3, SeqGrows DEF DownloadInv
  <2> QED BY <1>1, <2>2, <2>3, <2>4 DEF DownloadInv, IsFrame
<1>4. CASE StoreGenesisTip
  <2>1. trunk' = trunk /\ phase = "genesis" /\ phase' = "up"
    BY <1>4 DEF StoreGenesisTip, cacheVars
  <2>2. db'.headers = db.headers /\ disk' = db'
    BY <1>4 DEF StoreGenesisTip, TypeOK, IsStore
  <2> QED BY <1>1, <2>1, <2>2 DEF DownloadInv, IsFrame
<1> QED BY <1>2, <1>3, <1>4 DEF Start

\* run takes a message: what it hands to headers() are ids of headers.
LEMMA TakeKeeps ==
    ASSUME DownloadInv, NEW p \in Peer,
           HandleConnected(p) \/ inv(p) \/ ReceiveHeaders(p)
    PROVE  DownloadInv'
<1>1. /\ out[p] # <<>> /\ out' = [out EXCEPT ![p] = Tail(@)]
      /\ UNCHANGED <<headers, trunk, db, disk, phase, grown, heard>>
  BY DEF HandleConnected, inv, ReceiveHeaders, Take, chainVars, ghosts
<1>2. Head(out[p]) \in Message /\ Tail(out[p]) \in Seq(Message)
  BY <1>1, HeadTail DEF DownloadInv
<1>3. out' \in [Peer -> Seq(Message)]
  BY <1>1, <1>2 DEF DownloadInv
<1>4. IsFrame(pc') /\ pc'.queue \in Seq(Hash) /\ pc'.connected \in Seq(DOMAIN db.headers)
      /\ (pc'.at = "notify" => pc'.connected \in Seq(DOMAIN disk.headers))
  <2>1. CASE pc' = pc
    BY <2>1 DEF DownloadInv
  <2>2. CASE ReceiveHeaders(p)
    <3>1. Head(out[p]).kind = "Headers"
      BY <2>2 DEF ReceiveHeaders, Take
    <3>2. Head(out[p]).headers \in Seq(Hash)
      BY <1>2, <3>1 DEF Message, Connected
    <3> QED BY <2>2, <3>2, EmptySeq, Zenon DEF ReceiveHeaders, Waiting, Frame, IsFrame
  <2> QED BY <2>1, <2>2 DEF HandleConnected, inv
<1> QED BY <1>1, <1>3, <1>4 DEF DownloadInv

\* What Stored changes in a frame.
LEMMA FrameExcept ==
    ASSUME NEW f, IsFrame(f), NEW c, NEW b, NEW n
    PROVE  [f EXCEPT !.connected = c, !.some_new = b, !.height = n] =
              [at |-> f.at, peer |-> f.peer, queue |-> f.queue, connected |-> c,
               disconnected |-> f.disconnected, some_new |-> b, moved |-> f.moved,
               height |-> n]
<1> DEFINE F(cs, new, k) ==
               [at |-> f.at, peer |-> f.peer, queue |-> f.queue, connected |-> cs,
                disconnected |-> f.disconnected, some_new |-> new, moved |-> f.moved,
                height |-> k]
<1>1. f = F(f.connected, f.some_new, f.height)
  BY DEF IsFrame
<1>2. [F(f.connected, f.some_new, f.height) EXCEPT !.connected = c]
         = F(c, f.some_new, f.height)
  OBVIOUS
<1>3. [F(c, f.some_new, f.height) EXCEPT !.some_new = b] = F(c, b, f.height)
  OBVIOUS
<1>4. [F(c, b, f.height) EXCEPT !.height = n] = F(c, b, n)
  OBVIOUS
<1> HIDE DEF F
<1>5. [f EXCEPT !.connected = c] = F(c, f.some_new, f.height)
  BY <1>1, <1>2, Zenon
<1>6. [f EXCEPT !.connected = c, !.some_new = b] = F(c, b, f.height)
  BY <1>3, <1>5, Zenon
<1>7. [f EXCEPT !.connected = c, !.some_new = b, !.height = n] = F(c, b, n)
  BY <1>4, <1>6, Zenon
<1> QED BY <1>7 DEF F

\* What Popped changes in a frame.
LEMMA QueueExcept ==
    ASSUME NEW f, IsFrame(f), NEW q
    PROVE  [f EXCEPT !.queue = q] =
              [at |-> f.at, peer |-> f.peer, queue |-> q, connected |-> f.connected,
               disconnected |-> f.disconnected, some_new |-> f.some_new, moved |-> f.moved,
               height |-> f.height]
<1> DEFINE F(r) ==
               [at |-> f.at, peer |-> f.peer, queue |-> r, connected |-> f.connected,
                disconnected |-> f.disconnected, some_new |-> f.some_new, moved |-> f.moved,
                height |-> f.height]
<1>1. f = F(f.queue)
  BY DEF IsFrame
<1>2. [F(f.queue) EXCEPT !.queue = q] = F(q)
  OBVIOUS
<1> HIDE DEF F
<1>3. [f EXCEPT !.queue = q] = F(q)
  BY <1>1, <1>2, Zenon
<1> QED BY <1>3 DEF F

\* The frame after a header was stored.
LEMMA StoredFrame ==
    ASSUME IsFrame(pc), NEW h
    PROVE  /\ IsFrame(Stored(h))
           /\ Stored(h).at = pc.at
           /\ Stored(h).queue = Tail(pc.queue)
           /\ Stored(h).connected = Append(pc.connected, h)
           /\ Stored(h).disconnected = pc.disconnected
           /\ Stored(h).moved = pc.moved
           /\ Stored(h).height = headers'[h].height
           /\ Stored(h).peer = pc.peer /\ Stored(h).some_new
<1>1. /\ IsFrame(Popped) /\ Popped.queue = Tail(pc.queue) /\ Popped.at = pc.at
      /\ Popped.connected = pc.connected /\ Popped.disconnected = pc.disconnected
      /\ Popped.moved = pc.moved /\ Popped.peer = pc.peer
  <2>1. Popped = [at |-> pc.at, peer |-> pc.peer, queue |-> Tail(pc.queue),
                  connected |-> pc.connected, disconnected |-> pc.disconnected,
                  some_new |-> pc.some_new, moved |-> pc.moved, height |-> pc.height]
    BY QueueExcept, Zenon DEF Popped
  <2> HIDE DEF Popped
  <2> QED BY <2>1 DEF IsFrame
<1>2. PICK b : /\ b = TRUE
               /\ Stored(h) = [Popped EXCEPT !.connected = Append(Popped.connected, h),
                                             !.some_new = b, !.height = headers'[h].height]
  BY Zenon DEF Stored
<1>3. Stored(h) = [at |-> Popped.at, peer |-> Popped.peer, queue |-> Popped.queue,
                   connected |-> Append(Popped.connected, h),
                   disconnected |-> Popped.disconnected, some_new |-> b,
                   moved |-> Popped.moved, height |-> headers'[h].height]
  <2>1. Stored(h) = [Popped EXCEPT !.connected = Append(Popped.connected, h),
                                   !.some_new = b, !.height = headers'[h].height]
    BY <1>2
  <2> QED BY <1>1, <2>1, FrameExcept, Zenon
<1> HIDE DEF Popped
<1>4. /\ IsFrame(Stored(h)) /\ Stored(h).at = pc.at /\ Stored(h).queue = Tail(pc.queue)
      /\ Stored(h).connected = Append(pc.connected, h)
      /\ Stored(h).disconnected = pc.disconnected /\ Stored(h).moved = pc.moved
      /\ Stored(h).height = headers'[h].height
      /\ Stored(h).peer = pc.peer /\ Stored(h).some_new = b
  BY <1>1, <1>3 DEF IsFrame
<1> QED BY <1>2, <1>4, Zenon

\* What moving the tip sets in a frame.
LEMMA MovedExcept ==
    ASSUME NEW f, IsFrame(f), NEW a, NEW d
    PROVE  /\ [f EXCEPT !.moved = TRUE].moved = TRUE
           /\ [f EXCEPT !.moved = TRUE, !.at = a, !.disconnected = d].moved = TRUE
BY Zenon DEF IsFrame

\* headers() collects only what add_header put into the store.
LEMMA AddKeeps ==
    ASSUME DownloadInv, AddNext
    PROVE  DownloadInv'
<1> DEFINE h == Head(pc.queue)
<1>1. /\ phase = "up" /\ pc.queue # <<>> /\ pc.at = "add"
      /\ UNCHANGED <<out, grown, heard>>
      /\ \/ SkipKnown(h) \/ KeepBranch(h) \/ ExtendTrunk(h) \/ Reorganise(h)
         \/ BanSender(h) \/ StopAtError(h) \/ Panic(h)
  BY DEF AddNext, peerVars
<1>2. h \in Hash /\ Tail(pc.queue) \in Seq(Hash)
  BY <1>1, NextHeader
<1> DEFINE Frames == /\ IsFrame(pc') /\ pc'.queue \in Seq(Hash)
                     /\ pc'.connected \in Seq(DOMAIN db'.headers)
                     /\ pc'.at # "notify"
           Stores == /\ disk' = disk /\ phase' # "down" /\ phase' # "genesis"
                     /\ DOMAIN db.headers \subseteq DOMAIN db'.headers
<1> SUFFICES Frames /\ Stores
  BY <1>1 DEF DownloadInv
<1> HIDE DEF h
<1>3. CASE SkipKnown(h)
  <2>1. pc' = Popped /\ UNCHANGED <<db, disk, phase>>
    BY <1>3 DEF SkipKnown, AddRejected
  <2> QED BY <1>1, <1>2, <2>1, Zenon DEF Popped, IsFrame, DownloadInv
<1>4. CASE KeepBranch(h) \/ ExtendTrunk(h) \/ Reorganise(h)
  <2>1. /\ DOMAIN db'.headers = DOMAIN db.headers \cup {h}
        /\ disk' = disk /\ phase' = phase
    <3>1. (AddBranch(h) \/ AddTip(h)) /\ UNCHANGED <<disk, phase>>
      BY <1>4, Zenon DEF KeepBranch, ExtendTrunk, Reorganise, AddBranch, AddTip
    <3>2. PICK t : db' = [headers |-> [x \in DOMAIN db.headers \cup {h} |->
                                          IF x = h THEN headers'[h] ELSE db.headers[x]],
                          tip |-> t]
      BY <3>1 DEF AddBranch, AddTip, Put
    <3> QED BY <3>1, <3>2
  <2>2. Append(pc.connected, h) \in Seq(DOMAIN db'.headers)
    <3>1. pc.connected \in Seq(DOMAIN db'.headers)
      BY <2>1, SeqGrows DEF DownloadInv
    <3> QED BY <2>1, <3>1
  <2>3. /\ IsFrame(Stored(h)) /\ Stored(h).queue = Tail(pc.queue)
        /\ Stored(h).connected = Append(pc.connected, h) /\ Stored(h).at = "add"
    BY <1>1, StoredFrame DEF DownloadInv
  <2>4. Frames
    <3>1. CASE KeepBranch(h)
      BY <1>2, <2>2, <2>3, <3>1, Zenon DEF KeepBranch
    <3>2. CASE ExtendTrunk(h)
      <4>1. pc' = [Stored(h) EXCEPT !.moved = TRUE]
        BY <3>2 DEF ExtendTrunk
      <4> QED BY <1>2, <2>2, <2>3, <4>1, Zenon DEF IsFrame
    <3>3. CASE Reorganise(h)
      <4>1. PICK c \in PathsToTrunk(h) :
               pc' = [Stored(h) EXCEPT !.moved = TRUE, !.at = "batch",
                                       !.disconnected = unwinds(c)]
        BY <3>3, Zenon DEF Reorganise
      <4> QED BY <1>2, <2>2, <2>3, <4>1, Zenon DEF IsFrame
    <3> QED BY <1>4, <3>1, <3>2, <3>3
  <2> QED BY <1>1, <2>1, <2>4
<1>5. CASE BanSender(h) \/ StopAtError(h) \/ Panic(h)
  <2>1. pc' = Waiting
    BY <1>5 DEF BanSender, StopAtError, Panic
  <2>2. Frames
    BY <2>1, EmptySeq DEF Waiting, Frame, IsFrame
  <2>3. disk' = disk /\ (phase' = phase \/ phase' = "poisoned")
    BY <1>5 DEF BanSender, StopAtError, Panic, AddRejected, AddLost, AddPutFails, AddPanics
  <2>4. DOMAIN db.headers \subseteq DOMAIN db'.headers
    BY <1>5 DEF BanSender, StopAtError, Panic, AddRejected, AddLost, AddPutFails, AddPanics, Put
  <2> QED BY <1>1, <2>2, <2>3, <2>4
<1> QED BY <1>1, <1>3, <1>4, <1>5

\* batch, downstream and the end of headers(): what is told was saved.
LEMMA FinishKeeps ==
    ASSUME DownloadInv, QueueEmpty \/ SaveBatch \/ BatchFails \/ Notify \/ Finish
    PROVE  DownloadInv'
<1>1. phase = "up" /\ UNCHANGED <<headers, trunk, db, phase, out, grown>>
  BY DEF QueueEmpty, SaveBatch, BatchFails, Notify, Finish, batch, chainVars, peerVars
<1>2. CASE QueueEmpty
  BY <1>1, <1>2, Zenon DEF QueueEmpty, DownloadInv, IsFrame, chainVars, ghosts
<1>3. CASE SaveBatch
  BY <1>1, <1>3 DEF SaveBatch, batch, DownloadInv, IsFrame, ghosts
<1>4. CASE BatchFails \/ Finish
  <2>1. pc' = Waiting /\ UNCHANGED <<disk, heard>>
    BY <1>4 DEF BatchFails, Finish, chainVars, ghosts
  <2> QED BY <1>1, <2>1, EmptySeq DEF DownloadInv, IsFrame, Waiting, Frame
<1>5. CASE Notify
  <2>1. disk' = disk /\ heard' = heard \cup Range(pc.connected) /\ pc.at = "notify"
    BY <1>5 DEF Notify, chainVars
  <2>2. Range(pc.connected) \subseteq DOMAIN disk.headers
    BY <2>1, RangeOfSeq DEF DownloadInv
  <2>3. pc' = [pc EXCEPT !.at = IF pc.queue = <<>> THEN "finish" ELSE "add",
                         !.connected = <<>>, !.disconnected = <<>>]
    BY <1>5 DEF Notify
  <2>4. IsFrame(pc') /\ pc'.queue = pc.queue /\ pc'.connected = <<>> /\ pc'.at # "notify"
    BY <2>3, Zenon DEF DownloadInv, IsFrame
  <2> QED BY <1>1, <2>1, <2>2, <2>4, EmptySeq DEF DownloadInv
<1> QED BY <1>2, <1>3, <1>4, <1>5

\* Peers send what they serve; a restart loses what was not saved.
LEMMA OutsideKeeps ==
    ASSUME DownloadInv,
           \/ Control
           \/ \E p \in Peer : Answer(p) \/ Announce(p) \/ SendOdd(p) \/ Disconnect(p)
           \/ Restart
    PROVE  DownloadInv'
<1>1. ASSUME NEW p, Drop(p), UNCHANGED <<chainVars, pc, heard>> PROVE DownloadInv'
  <2>1. out' = [out EXCEPT ![p] = <<>>] /\ grown' = grown
    BY <1>1 DEF Drop
  <2>2. out' \in [Peer -> Seq(Message)]
    BY <2>1, EmptySeq, Zenon DEF DownloadInv
  <2> QED BY <1>1, <2>1, <2>2 DEF DownloadInv, chainVars
<1>2. ASSUME NEW p \in Peer, NEW m \in Message, Send(p, m),
             grown' \in [Peer -> Nat], \A q \in Peer : grown'[q] \in 1 .. Len(Tips[q])
      PROVE  DownloadInv'
  <2>1. out' = [out EXCEPT ![p] = Append(@, m)] /\ UNCHANGED <<chainVars, pc, heard>>
    BY <1>2 DEF Send, ghosts
  <2>2. out' \in [Peer -> Seq(Message)]
    BY <2>1 DEF DownloadInv
  <2> QED BY <1>2, <2>1, <2>2 DEF DownloadInv, chainVars
<1>3. CASE ControlHeight
  BY <1>3 DEF ControlHeight, DownloadInv, chainVars, peerVars, ghosts
<1>4. CASE ControlBan
  BY <1>1, <1>4 DEF ControlBan, ghosts
<1>5. ASSUME NEW p \in Peer, Answer(p) PROVE DownloadInv'
  <2> DEFINE hs == Following(ChainTo[Tips[p][grown[p]]], Head(req[p]))
  <2>1. hs \in Seq(Hash)
    BY ServedChain, FollowingType DEF DownloadInv
  <2> HIDE DEF hs
  <2>2. Headers(hs) \in Message
    BY <2>1 DEF Headers, Message
  <2>3. Send(p, Headers(hs)) /\ grown' = grown
    BY <1>5 DEF Answer, hs
  <2> QED BY <1>2, <2>2, <2>3 DEF DownloadInv
<1>6. ASSUME NEW p \in Peer, Announce(p) PROVE DownloadInv'
  <2>1. /\ grown[p] < Len(Tips[p]) /\ grown' = [grown EXCEPT ![p] = @ + 1]
        /\ Send(p, Inv(Tips[p][grown[p] + 1]))
    BY <1>6 DEF Announce
  <2>2. /\ grown' \in [Peer -> Nat] /\ \A q \in Peer : grown'[q] \in 1 .. Len(Tips[q])
        /\ grown[p] + 1 \in 1 .. Len(Tips[p])
    <3>1. grown \in [Peer -> Nat] /\ \A q \in Peer : grown[q] \in 1 .. Len(Tips[q])
      BY DEF DownloadInv
    <3>2. grown[p] \in Nat /\ Len(Tips[p]) \in Nat /\ grown[p] + 1 \in 1 .. Len(Tips[p])
      BY <2>1, <3>1, TipsAssumption
    <3> QED BY <2>1, <3>1, <3>2
  <2>3. Inv(Tips[p][grown[p] + 1]) \in Message
    BY <2>2, TipsAssumption DEF Inv, Message
  <2> QED BY <1>2, <2>1, <2>2, <2>3
<1>7. ASSUME NEW p \in Peer, SendOdd(p) PROVE DownloadInv'
  <2>1. PICK hs \in Odd : Send(p, Headers(hs)) /\ grown' = grown
    BY <1>7 DEF SendOdd
  <2>2. Headers(hs) \in Message
    BY DownloadAssumption DEF Headers, Message
  <2> QED BY <1>2, <2>1, <2>2 DEF DownloadInv
<1>8. ASSUME NEW p \in Peer, Disconnect(p) PROVE DownloadInv'
  BY <1>1, <1>8 DEF Disconnect, ghosts
<1>9. CASE Restart
  <2>1. /\ db' = disk /\ disk' = disk /\ phase' = "down" /\ heard' = {}
        /\ pc' = Waiting /\ grown' = grown /\ out' = [p \in Peer |-> <<Connected>>]
    BY <1>9 DEF Restart, Crash
  <2>2. out' \in [Peer -> Seq(Message)]
    BY <2>1 DEF Message
  <2> QED BY <2>1, <2>2, EmptySeq DEF DownloadInv, Waiting, Frame, IsFrame
<1> QED BY <1>3, <1>4, <1>5, <1>6, <1>7, <1>8, <1>9 DEF Control

\* Every step of the node, its peers and the process keeps both.
LEMMA DownloadStep ==
    ASSUME DownloadInv, TypeOK, [DownloadNext]_downloadVars
    PROVE  DownloadInv' /\ TypeOK'
<1>1. TypeOK'
  BY ChainStep, TypesKept
<1>2. CASE UNCHANGED downloadVars
  BY <1>1, <1>2 DEF DownloadInv, IsFrame, downloadVars, chainVars, peerVars, ghosts
<1>3. CASE DownloadNext
  BY <1>1, <1>3, StartKeeps, TakeKeeps, AddKeeps, FinishKeeps, OutsideKeeps
  DEF DownloadNext, Thread
<1> QED BY <1>1, <1>2, <1>3

-----------------------------------------------------------------------------
(***************************************************************************)
(* What holds of the header download.                                      *)
(***************************************************************************)

\* The inductive invariant of headers(), its queues and the saved store.
THEOREM DownloadInvariance == DownloadSpec => [](DownloadInv /\ TypeOK)
<1>1. DownloadInit => DownloadInv /\ TypeOK
  BY InitDownload, InitTypes DEF DownloadInit
<1>2. (DownloadInv /\ TypeOK) /\ [DownloadNext]_downloadVars => (DownloadInv /\ TypeOK)'
  BY DownloadStep
<1> QED BY <1>1, <1>2, PTL DEF DownloadSpec

\* Whatever the peers send and whenever the process ends or a put fails, all that
\* downstream was told of since the start is in the saved store.
THEOREM ToldHeadersAreDurable == DownloadSpec => []ToldIsDurable
<1>1. DownloadInv => ToldIsDurable
  BY DEF DownloadInv, ToldIsDurable
<1> QED BY <1>1, DownloadInvariance, PTL

\* The download, its peers and its restarts implement ChainDB: the properties of
\* ChainDB under any calls are properties of the calls headers() makes.
THEOREM DownloadImplementsChainDB == DownloadSpec => Spec
<1>1. DownloadInit => Init
  BY DEF DownloadInit
<1>2. DownloadInv /\ [DownloadNext]_downloadVars => [Next]_chainVars
  BY ChainStep
<1> QED BY <1>1, <1>2, DownloadInvariance, PTL DEF DownloadSpec, Spec

\* The node's tip has most work of the headers its peers sent, while it runs.
THEOREM DownloadedTipHasMostWork ==
    ASSUME Sane
    PROVE  DownloadSpec => []TipMostWork
BY DownloadImplementsChainDB, TipHasMostWork, PTL

\* The saved tip has most work of the saved headers, whenever the process ends.
THEOREM DownloadedStoreHasMostWork ==
    ASSUME Sane
    PROVE  DownloadSpec => []StoreMostWork
BY DownloadImplementsChainDB, StoreHasMostWork, PTL

-----------------------------------------------------------------------------
(***************************************************************************)
(* What downstream has heard.  The three ways in which one turn of the     *)
(* loop of headers() ends:                                                 *)
(***************************************************************************)

\* The header was known.
Skips(h) ==
    /\ h \in Known
    /\ UNCHANGED <<chainVars, cut, ctl>>
    /\ pc'.at = "add" /\ pc'.queue = Tail(pc.queue)
    /\ pc'.connected = pc.connected /\ pc'.disconnected = pc.disconnected
    /\ pc'.moved = pc.moved /\ pc'.height = pc.height
    /\ pc'.peer = pc.peer /\ pc'.some_new = pc.some_new

\* It was added, put into the store and collected.
Stores(h) ==
    /\ \/ AddBranch(h) /\ pc'.moved = pc.moved /\ pc'.at = "add"
       \/ AddTip(h) /\ pc'.moved = TRUE
    /\ UNCHANGED <<disk, phase, cut, ctl>>
    /\ pc'.at \in {"add", "batch"} /\ pc'.queue = Tail(pc.queue)
    /\ pc'.connected = Append(pc.connected, h)
    /\ pc'.at = "add" => pc'.disconnected = pc.disconnected
    /\ pc'.height = headers'[h].height
    /\ pc'.peer = pc.peer /\ pc'.some_new

\* headers() returned.
Stops == cut' = TRUE /\ pc' = Waiting /\ disk' = disk /\ phase' \in {"up", "poisoned"}

\* One turn of the loop is one of these.
LEMMA AddOutcome ==
    ASSUME DownloadInv, AddNext, NEW h, h = Head(pc.queue)
    PROVE  /\ Skips(h) \/ Stores(h) \/ Stops
           /\ phase = "up" /\ pc.at = "add" /\ pc.queue # <<>>
           /\ UNCHANGED <<p2pHeight, out, view, heard, asked, live, req, grown>>
<1>1. /\ phase = "up" /\ pc.at = "add" /\ pc.queue # <<>>
      /\ UNCHANGED <<p2pHeight, out, view, heard, asked, live, req, grown>>
      /\ \/ SkipKnown(h) \/ KeepBranch(h) \/ ExtendTrunk(h) \/ Reorganise(h)
         \/ BanSender(h) \/ StopAtError(h) \/ Panic(h)
  BY DEF AddNext, peerVars
<1>2. IsFrame(pc)
  BY DEF DownloadInv
<1>3. CASE SkipKnown(h)
  <2>1. /\ pc' = Popped /\ h \in Known
        /\ UNCHANGED <<headers, trunk, db, disk, phase, cut, ctl>>
    BY <1>3 DEF SkipKnown, AddRejected, IgnoreKnown, cacheVars
  <2>2. pc' = [at |-> pc.at, peer |-> pc.peer, queue |-> Tail(pc.queue),
               connected |-> pc.connected, disconnected |-> pc.disconnected,
               some_new |-> pc.some_new, moved |-> pc.moved, height |-> pc.height]
    BY <1>2, <2>1, QueueExcept, Zenon DEF Popped
  <2>3. Skips(h)
    BY <1>1, <2>1, <2>2 DEF Skips, chainVars
  <2> QED BY <1>1, <2>3
<1>4. CASE KeepBranch(h) \/ ExtendTrunk(h) \/ Reorganise(h)
  <2>1. UNCHANGED <<disk, phase, cut, ctl>>
    BY <1>4, Zenon DEF KeepBranch, ExtendTrunk, Reorganise, AddBranch, AddTip
  <2> DEFINE f == Stored(h)
  <2>2. /\ IsFrame(f) /\ f.at = "add" /\ f.queue = Tail(pc.queue)
        /\ f.connected = Append(pc.connected, h) /\ f.disconnected = pc.disconnected
        /\ f.moved = pc.moved /\ f.height = headers'[h].height
        /\ f.peer = pc.peer /\ f.some_new
    BY <1>1, <1>2, StoredFrame
  <2>3. \/ KeepBranch(h) /\ pc' = f
        \/ ExtendTrunk(h) /\ pc' = [f EXCEPT !.moved = TRUE]
        \/ /\ Reorganise(h)
           /\ \E c \in PathsToTrunk(h) :
                 pc' = [f EXCEPT !.moved = TRUE, !.at = "batch", !.disconnected = unwinds(c)]
    BY <1>4, Zenon DEF KeepBranch, ExtendTrunk, Reorganise
  <2> HIDE DEF f
  <2>4. CASE KeepBranch(h) /\ pc' = f
    <3>1. Stores(h)
      BY <2>1, <2>2, <2>4, Zenon DEF Stores, KeepBranch
    <3> QED BY <1>1, <3>1, Zenon
  <2>5. CASE ExtendTrunk(h) /\ pc' = [f EXCEPT !.moved = TRUE]
    <3>1. /\ pc'.at = f.at /\ pc'.queue = f.queue /\ pc'.connected = f.connected
          /\ pc'.disconnected = f.disconnected /\ pc'.height = f.height
          /\ pc'.peer = f.peer /\ pc'.some_new = f.some_new
      BY <2>2, <2>5, Zenon DEF IsFrame
    <3>2. pc'.moved = TRUE
      BY <2>2, <2>5, MovedExcept
    <3>3. Stores(h)
      BY <2>1, <2>2, <2>5, <3>1, <3>2, Zenon DEF Stores, ExtendTrunk
    <3> QED BY <1>1, <3>3, Zenon
  <2>6. ASSUME Reorganise(h), NEW c \in PathsToTrunk(h),
               pc' = [f EXCEPT !.moved = TRUE, !.at = "batch", !.disconnected = unwinds(c)]
        PROVE  Stores(h)
    <3>1. /\ pc'.at = "batch" /\ pc'.queue = f.queue /\ pc'.connected = f.connected
          /\ pc'.height = f.height
          /\ pc'.peer = f.peer /\ pc'.some_new = f.some_new
      BY <2>2, <2>6, Zenon DEF IsFrame
    <3>2. pc'.moved = TRUE
      BY <2>2, <2>6, MovedExcept
    <3> QED BY <2>1, <2>2, <2>6, <3>1, <3>2, Zenon DEF Stores, Reorganise
  <2> QED BY <1>1, <2>3, <2>4, <2>5, <2>6, Zenon
<1>5. CASE BanSender(h) \/ StopAtError(h) \/ Panic(h)
  <2>1. Stops
    BY <1>1, <1>5, Zenon DEF Stops, BanSender, StopAtError, Panic, AddRejected, AddLost,
                      AddPutFails, AddPanics
  <2> QED BY <1>1, <2>1, Zenon
<1> QED BY <1>1, <1>3, <1>4, <1>5

\* What is known has been heard or is collected, and the tip is or will be taken
\* for connected; between messages nothing is collected.
HeardInv ==
    /\ pc.at \in {"wait", "finish"} => pc.connected = <<>> /\ pc.disconnected = <<>>
    /\ pc.at = "add" => pc.disconnected = <<>>
    /\ phase = "down" => Known = {}
    /\ phase = "genesis" => trunk = <<Genesis>> /\ Known = {Genesis}
    /\ phase # "up" => pc = Waiting
    /\ phase = "up" /\ ~cut =>
          /\ Known \subseteq heard \cup Range(pc.connected)
          /\ tip_hash \in (view \ Range(pc.disconnected)) \cup Range(pc.connected)

\* The start tells downstream of what it loads.
LEMMA StartHeard ==
    ASSUME DownloadInv, TypeOK, HeardInv, Start
    PROVE  HeardInv'
<1>1. pc' = pc /\ pc = Waiting /\ view' = Range(trunk') /\ heard' = Range(trunk')
  <2>1. phase # "up"
    BY DEF Start, LoadHeaders, StoreGenesis, StoreGenesisTip
  <2> QED BY <2>1 DEF Start, HeardInv
<1>2. pc.at = "wait" /\ pc.connected = <<>> /\ pc.disconnected = <<>>
  BY <1>1 DEF Waiting, Frame
<1>3. CASE LoadHeaders
  <2>1. PICK c \in StoredChains :
           trunk' = Reverse(c) /\ headers' = [h \in Range(c) |-> db.headers[h]]
    BY <1>3 DEF LoadHeaders
  <2>2. c \in Seq(Hash) /\ Len(c) \in Nat /\ Len(c) >= 1
    BY <2>1, ChainProperties, PeriodAssumption DEF StoredChains
  <2>3. /\ Reverse(c) \in Seq(Hash) /\ Len(Reverse(c)) = Len(c)
        /\ \A i \in 1 .. Len(c) : Reverse(c)[i] = c[(Len(c) - i) + 1]
    BY <2>2, ReverseProperties
  <2>4. Range(c) = Range(Reverse(c))
    BY <2>2, ReversedRange
  <2>5. Known' \subseteq heard'
    BY <1>1, <2>1, <2>4 DEF Known
  <2>6. tip_hash' \in view'
    <3>1. Range(Reverse(c)) = {Reverse(c)[i] : i \in 1 .. Len(c)}
      BY <2>2, <2>3, RangeOfSeq, Zenon
    <3>2. Len(c) \in 1 .. Len(c)
      BY <2>2
    <3> QED BY <1>1, <2>1, <2>3, <3>1, <3>2 DEF tip_hash, Last
  <2>7. phase' = "up"
    BY <1>3 DEF LoadHeaders
  <2> QED BY <1>1, <1>2, <2>5, <2>6, <2>7 DEF HeardInv, Range
<1>4. CASE StoreGenesis
  <2>1. /\ phase = "down" /\ phase' = "genesis" /\ trunk = <<>>
        /\ trunk' = Append(trunk, Genesis) /\ Known' = Known \cup {Genesis}
    BY <1>4 DEF StoreGenesis, InsertGenesis, Insert, TypeOK, Known
  <2>2. trunk' = <<Genesis>> /\ Known' = {Genesis}
    BY <2>1 DEF HeardInv
  <2> QED BY <1>1, <1>2, <2>1, <2>2 DEF HeardInv
<1>5. CASE StoreGenesisTip
  <2>1. trunk' = <<Genesis>> /\ Known' = {Genesis} /\ phase' = "up"
    BY <1>5 DEF StoreGenesisTip, cacheVars, HeardInv, Known
  <2>2. Range(trunk') = {Genesis} /\ tip_hash' = Genesis
    BY <2>1 DEF Range, tip_hash, Last
  <2> QED BY <1>1, <1>2, <2>1, <2>2 DEF HeardInv, Range
<1> QED BY <1>3, <1>4, <1>5 DEF Start

\* What headers() adds is collected, the new tip included.
LEMMA AddHeard ==
    ASSUME DownloadInv, TypeOK, HeardInv, AddNext
    PROVE  HeardInv'
<1> DEFINE h == Head(pc.queue)
<1>1. /\ Skips(h) \/ Stores(h) \/ Stops
      /\ phase = "up" /\ pc.at = "add" /\ pc.queue # <<>>
      /\ UNCHANGED <<view, heard>>
  BY AddOutcome
<1>2. h \in Hash
  BY <1>1, NextHeader
<1> HIDE DEF h
<1>3. CASE Skips(h)
  BY <1>1, <1>3 DEF Skips, HeardInv, chainVars, tip_hash, Known
<1>4. CASE Stores(h)
  <2>1. CacheOK
    BY DEF TypeOK, CacheOK
  <2>2. /\ \/ AddSide(h) /\ AddBranch(h)
           \/ MovesTip(h) /\ AddTip(h)
        /\ phase' = phase /\ cut' = cut
    BY <1>4 DEF Stores, AddBranch, AddTip
  <2>3. Known' = Known \cup {h}
    BY <1>2, <2>1, <2>2, AddTypes
  <2>4. Range(pc'.connected) = Range(pc.connected) \cup {h}
    BY <1>4, RangeAppend DEF Stores, DownloadInv
  <2>5. /\ pc'.at \in {"add", "batch"}
        /\ pc'.at = "add" => pc'.disconnected = <<>> /\ pc.disconnected = <<>>
    BY <1>1, <1>4 DEF Stores, HeardInv
  <2>6. tip_hash' = h \/ (tip_hash' = tip_hash /\ pc'.at = "add")
    <3>1. CASE MovesTip(h)
      BY <1>2, <2>1, <3>1, MovedTip DEF tip_hash
    <3>2. CASE ~MovesTip(h)
      <4>1. AddSide(h) /\ ~AddTip(h)
        BY <2>2, <3>2 DEF AddTip
      <4>2. pc'.at = "add"
        BY <1>4, <4>1 DEF Stores
      <4> QED BY <4>1, <4>2 DEF AddSide, tip_hash
    <3> QED BY <3>1, <3>2
  <2>7. ASSUME ~cut
        PROVE  tip_hash' \in (view \ Range(pc'.disconnected)) \cup Range(pc'.connected)
    <3>1. tip_hash \in (view \ Range(pc.disconnected)) \cup Range(pc.connected)
      BY <1>1, <2>7 DEF HeardInv
    <3> QED BY <2>4, <2>5, <2>6, <3>1, Zenon
  <2>8. ASSUME ~cut PROVE Known' \subseteq heard \cup Range(pc'.connected)
    <3>1. Known \subseteq heard \cup Range(pc.connected)
      BY <1>1, <2>8 DEF HeardInv
    <3> QED BY <2>3, <2>4, <3>1
  <2> QED BY <1>1, <2>2, <2>5, <2>7, <2>8 DEF HeardInv
<1>5. CASE Stops
  BY <1>1, <1>5 DEF Stops, HeardInv, Waiting, Frame
<1> QED BY <1>1, <1>3, <1>4, <1>5

\* Downstream is told of what was collected before the thread waits again.
LEMMA FinishHeard ==
    ASSUME DownloadInv, HeardInv, QueueEmpty \/ SaveBatch \/ BatchFails \/ Notify \/ Finish
    PROVE  HeardInv'
<1>1. phase = "up" /\ UNCHANGED <<headers, trunk, phase>> /\ IsFrame(pc)
  BY DEF QueueEmpty, SaveBatch, BatchFails, Notify, Finish, batch, chainVars, DownloadInv
<1>2. UNCHANGED <<tip_hash, Known>>
  BY <1>1 DEF tip_hash, Known
<1>3. CASE QueueEmpty \/ SaveBatch
  <2>1. /\ UNCHANGED <<view, heard, cut>>
        /\ pc'.connected = pc.connected /\ pc'.disconnected = pc.disconnected
        /\ pc'.at \in {"batch", "notify"}
    BY <1>1, <1>3 DEF QueueEmpty, SaveBatch, ghosts, IsFrame
  <2> QED BY <1>1, <1>2, <2>1 DEF HeardInv
<1>4. CASE BatchFails
  BY <1>1, <1>4 DEF BatchFails, HeardInv, Waiting, Frame
<1>5. CASE Notify
  <2>1. /\ view' = (view \ Range(pc.disconnected)) \cup Range(pc.connected)
        /\ heard' = heard \cup Range(pc.connected) /\ cut' = cut
        /\ pc' = [pc EXCEPT !.at = IF pc.queue = <<>> THEN "finish" ELSE "add",
                            !.connected = <<>>, !.disconnected = <<>>]
    BY <1>5 DEF Notify
  <2>2. /\ pc'.connected = <<>> /\ pc'.disconnected = <<>>
        /\ pc'.at \in {"finish", "add"}
    BY <1>1, <2>1 DEF IsFrame
  <2>3. Range(pc'.disconnected) = {}
    BY <2>2 DEF Range
  <2> QED BY <1>1, <1>2, <2>1, <2>2, <2>3 DEF HeardInv
<1>6. CASE Finish
  <2>1. pc.at = "finish" /\ pc' = Waiting /\ UNCHANGED <<view, heard, cut>>
    BY <1>6 DEF Finish, ghosts
  <2>2. pc'.connected = pc.connected /\ pc'.disconnected = pc.disconnected /\ pc'.at = "wait"
        /\ pc'.connected = <<>> /\ pc'.disconnected = <<>>
    BY <2>1 DEF HeardInv, Waiting, Frame
  <2> QED BY <1>1, <1>2, <2>1, <2>2 DEF HeardInv
<1> QED BY <1>3, <1>4, <1>5, <1>6

\* Taking a message, the p2p layer and the peers change nothing of it; a restart
\* begins anew.
LEMMA OutsideHeard ==
    ASSUME DownloadInv, HeardInv,
           \/ \E p \in Peer : HandleConnected(p) \/ inv(p) \/ ReceiveHeaders(p)
           \/ Control
           \/ \E p \in Peer : Answer(p) \/ Announce(p) \/ SendOdd(p) \/ Disconnect(p)
           \/ Restart
           \/ UNCHANGED downloadVars
    PROVE  HeardInv'
<1>1. CASE UNCHANGED <<chainVars, pc, view, heard, cut>>
  BY <1>1, Zenon DEF HeardInv, chainVars, tip_hash, Known
<1>2. ASSUME NEW p \in Peer, ReceiveHeaders(p)
      PROVE  HeardInv'
  <2>1. UNCHANGED <<headers, trunk, phase, view, heard, cut>> /\ phase = "up" /\ pc.at = "wait"
    BY <1>2, Zenon DEF ReceiveHeaders, Take, chainVars, ghosts
  <2>2. /\ pc'.connected = <<>> /\ pc'.disconnected = <<>>
        /\ pc.connected = <<>> /\ pc.disconnected = <<>>
    BY <1>2, <2>1, Zenon DEF ReceiveHeaders, Waiting, Frame, HeardInv
  <2>3. UNCHANGED <<tip_hash, Known>>
    BY <2>1 DEF tip_hash, Known
  <2> QED BY <2>1, <2>2, <2>3, Zenon DEF HeardInv
<1>3. CASE Restart
  <2>1. phase' = "down" /\ Known' = {} /\ pc' = Waiting
    BY <1>3 DEF Restart, Crash, Known
  <2> QED BY <2>1 DEF HeardInv, Waiting, Frame
<1> QED BY <1>1, <1>2, <1>3
        DEF HandleConnected, inv, Take, Control, ControlHeight, ControlBan, Answer, Announce,
            SendOdd, Disconnect, Send, ghosts, downloadVars

\* HeardInv is an invariant of the download.
LEMMA HeardInvariance == DownloadSpec => []HeardInv
<1>1. DownloadInit => HeardInv
  BY DEF DownloadInit, Init, EmptyCache, HeardInv, Known, Waiting, Frame
<1>2. DownloadInv /\ TypeOK /\ HeardInv /\ [DownloadNext]_downloadVars => HeardInv'
  BY StartHeard, AddHeard, FinishHeard, OutsideHeard DEF DownloadNext, Thread
<1> QED BY <1>1, <1>2, DownloadInvariance, PTL DEF DownloadSpec

\* Whatever peers send, in whatever order, with side branches, reorganisations,
\* puts that fail and restarts: when the thread waits, downstream has heard of every
\* header the node knows and takes the tip for connected, unless headers() stopped
\* in the middle of a message.
THEOREM DownstreamHeardAll == DownloadSpec => []HeardAll
<1>1. HeardInv => HeardAll
  BY DEF HeardInv, HeardAll, Idle, Range
<1> QED BY <1>1, HeardInvariance, PTL

-----------------------------------------------------------------------------
(***************************************************************************)
(* Parents are heard of first.                                             *)
(***************************************************************************)
Closed(S) == \A h \in S : h = Genesis \/ Prev(h) \in S

\* What is stored, saved, told, and told together with what is collected, has no
\* gaps; what is known was put into the store.
OrderInv ==
    ~cut =>
      /\ Closed(DOMAIN db.headers) /\ Closed(DOMAIN disk.headers)
      /\ phase # "down" => Known \subseteq DOMAIN db.headers
      /\ phase = "up" => Closed(heard) /\ Closed(heard \cup Range(pc.connected))

\* The chain that is loaded ends at genesis, as nothing in the store has a parent
\* that is not.
LEMMA StartOrder ==
    ASSUME DownloadInv, TypeOK, HeardInv, OrderInv, Start
    PROVE  OrderInv'
<1> SUFFICES ASSUME ~cut' PROVE OrderInv'
  BY DEF OrderInv
<1>1. /\ ~cut /\ pc' = pc /\ heard' = Range(trunk')
      /\ Closed(DOMAIN db.headers) /\ Closed(DOMAIN disk.headers)
  BY DEF Start, OrderInv
<1>2. pc.connected = <<>> /\ Range(pc.connected) = {}
  <2>1. phase # "up"
    BY DEF Start, LoadHeaders, StoreGenesis, StoreGenesisTip
  <2>2. pc.connected = <<>>
    BY <2>1 DEF HeardInv, Waiting, Frame
  <2> QED BY <2>2 DEF Range
<1>3. CASE LoadHeaders
  <2>1. PICK c \in StoredChains :
           trunk' = Reverse(c) /\ headers' = [h \in Range(c) |-> db.headers[h]]
    BY <1>3 DEF LoadHeaders
  <2>2. /\ c \in Chains /\ \A i \in 1 .. Len(c) : c[i] \in DOMAIN db.headers
        /\ Prev(Last(c)) \notin DOMAIN db.headers
    BY <2>1 DEF StoredChains
  <2>3. c \in Seq(Hash) /\ Len(c) \in Nat /\ Len(c) >= 1 /\ Linked(c)
    BY <2>2, ChainProperties, PeriodAssumption
  <2>4. Range(Reverse(c)) = Range(c) /\ Range(c) = {c[i] : i \in 1 .. Len(c)}
    BY <2>3, ReversedRange, RangeOfSeq
  <2>5. Closed(Range(c))
    <3> SUFFICES ASSUME NEW i \in 1 .. Len(c), c[i] # Genesis PROVE Prev(c[i]) \in Range(c)
      BY <2>4 DEF Closed
    <3>1. Prev(c[i]) \in DOMAIN db.headers
      BY <1>1, <2>2 DEF Closed
    <3>2. i # Len(c)
      BY <2>2, <3>1 DEF Last
    <3>3. i \in 1 .. Len(c) - 1 /\ i + 1 \in 1 .. Len(c)
      BY <2>3, <3>2
    <3> QED BY <2>3, <2>4, <3>3 DEF Linked
  <2>6. Known' \subseteq DOMAIN db.headers
    BY <2>1, <2>2, <2>4 DEF Known
  <2>7. db' = db /\ disk' = disk
    BY <1>3 DEF LoadHeaders, storeVars
  <2> QED BY <1>1, <1>2, <2>1, <2>4, <2>5, <2>6, <2>7, Zenon DEF OrderInv
<1>4. CASE StoreGenesis
  <2>1. /\ phase = "down" /\ phase' = "genesis" /\ Known' = Known \cup {Genesis}
        /\ DOMAIN db'.headers = DOMAIN db.headers \cup {Genesis} /\ disk' = db'
    BY <1>4 DEF StoreGenesis, InsertGenesis, Insert, Known, Put
  <2>2. Known' = {Genesis}
    BY <2>1 DEF HeardInv
  <2> QED BY <1>1, <2>1, <2>2 DEF OrderInv, Closed
<1>5. CASE StoreGenesisTip
  <2>1. trunk' = <<Genesis>> /\ phase = "genesis" /\ phase' = "up" /\ Known' = Known
    BY <1>5 DEF StoreGenesisTip, cacheVars, HeardInv, Known
  <2>2. db'.headers = db.headers /\ disk' = db'
    BY <1>5 DEF StoreGenesisTip, TypeOK, IsStore
  <2>3. heard' = {Genesis}
    BY <1>1, <2>1 DEF Range
  <2>4. Known \subseteq DOMAIN db.headers
    BY <1>1, <2>1 DEF OrderInv
  <2> QED BY <1>1, <1>2, <2>1, <2>2, <2>3, <2>4 DEF OrderInv, Closed
<1> QED BY <1>3, <1>4, <1>5 DEF Start

\* A header that is added has a known parent, which downstream has heard of or will
\* hear of first.
LEMMA AddOrder ==
    ASSUME OneRoot, DownloadInv, TypeOK, HeardInv, OrderInv, AddNext
    PROVE  OrderInv'
<1> DEFINE h == Head(pc.queue)
<1>1. /\ Skips(h) \/ Stores(h) \/ Stops
      /\ phase = "up" /\ pc.queue # <<>> /\ UNCHANGED heard
  BY AddOutcome
<1>2. h \in Hash
  BY <1>1, NextHeader
<1> HIDE DEF h
<1>3. CASE Skips(h)
  BY <1>1, <1>3 DEF Skips, OrderInv, chainVars, Known
<1>4. CASE Stores(h)
  <2> SUFFICES ASSUME ~cut PROVE OrderInv'
    BY <1>4, Zenon DEF Stores, OrderInv
  <2>1. CacheOK
    BY DEF TypeOK, CacheOK
  <2>2. (AddSide(h) \/ MovesTip(h)) /\ UNCHANGED <<disk, phase>>
        /\ DOMAIN db'.headers = DOMAIN db.headers \cup {h}
    <3>1. (AddSide(h) \/ MovesTip(h)) /\ UNCHANGED <<disk, phase>>
          /\ (Put(h, headers'[h], db.tip) \/ Put(h, headers'[h], h))
      BY <1>4, Zenon DEF Stores, AddBranch, AddTip
    <3> QED BY <3>1, PutAdds, Zenon
  <2>3. Known' = Known \cup {h}
    BY <1>2, <2>1, <2>2, AddTypes
  <2>4. h = Genesis \/ Prev(h) \in Known
    BY <1>2, <2>2, Zenon DEF OneRoot, AddSide, MovesTip, AddExtend, AddReorg, InsertGenesis, Accept,
                      Validated, Connects
  <2>5. Range(pc'.connected) = Range(pc.connected) \cup {h}
    BY <1>4, RangeAppend, Zenon DEF Stores, DownloadInv
  <2>6. Known \subseteq heard \cup Range(pc.connected)
    BY <1>1 DEF HeardInv
  <2> QED BY <1>1, <2>2, <2>3, <2>4, <2>5, <2>6 DEF OrderInv, Closed
<1>5. CASE Stops
  BY <1>5 DEF Stops, OrderInv
<1> QED BY <1>1, <1>3, <1>4, <1>5

\* The other steps tell of what was collected, save what was put, or go back to
\* what was saved.
LEMMA OtherOrder ==
    ASSUME DownloadInv, HeardInv, OrderInv,
           \/ QueueEmpty \/ SaveBatch \/ BatchFails \/ Notify \/ Finish
           \/ \E p \in Peer : HandleConnected(p) \/ inv(p) \/ ReceiveHeaders(p)
           \/ Control
           \/ \E p \in Peer : Answer(p) \/ Announce(p) \/ SendOdd(p) \/ Disconnect(p)
           \/ Restart
           \/ UNCHANGED downloadVars
    PROVE  OrderInv'
<1>0. IsFrame(pc)
  BY DEF DownloadInv
<1>1. ASSUME UNCHANGED <<headers, db, phase, heard, cut>>, disk' = disk \/ disk' = db,
             pc'.connected = pc.connected
      PROVE  OrderInv'
  BY <1>1 DEF OrderInv, Known
<1>2. CASE QueueEmpty \/ SaveBatch
  <2>1. UNCHANGED <<headers, db, phase, heard, cut>> /\ (disk' = disk \/ disk' = db)
    BY <1>2 DEF QueueEmpty, SaveBatch, batch, chainVars, ghosts
  <2>2. pc'.connected = pc.connected
    BY <1>0, <1>2 DEF QueueEmpty, SaveBatch, IsFrame
  <2> QED BY <1>1, <2>1, <2>2
<1>3. CASE BatchFails
  BY <1>3 DEF BatchFails, OrderInv
<1>4. CASE Notify
  <2>1. /\ UNCHANGED <<headers, db, disk, phase, cut>>
        /\ heard' = heard \cup Range(pc.connected)
        /\ pc' = [pc EXCEPT !.at = IF pc.queue = <<>> THEN "finish" ELSE "add",
                            !.connected = <<>>, !.disconnected = <<>>]
    BY <1>4 DEF Notify, chainVars
  <2>2. pc'.connected = <<>>
    BY <1>0, <2>1 DEF IsFrame
  <2>3. Range(pc'.connected) = {}
    BY <2>2 DEF Range
  <2> QED BY <2>1, <2>3, Zenon DEF OrderInv, Known
<1>5. CASE Finish \/ \E p \in Peer : ReceiveHeaders(p)
  <2>1. UNCHANGED <<headers, db, disk, phase, heard, cut>> /\ pc.at \in {"wait", "finish"}
    BY <1>5, Zenon DEF Finish, ReceiveHeaders, Take, chainVars, ghosts
  <2>2. pc.connected = <<>>
    BY <2>1, Zenon DEF HeardInv
  <2>3. pc'.connected = <<>>
    <3>1. CASE Finish
      BY <3>1 DEF Finish, Waiting, Frame
    <3>2. ASSUME NEW p \in Peer, ReceiveHeaders(p) PROVE pc'.connected = <<>>
      BY <3>2, Zenon DEF ReceiveHeaders, Waiting, Frame
    <3> QED BY <1>5, <3>1, <3>2
  <2> QED BY <1>1, <2>1, <2>2, <2>3, Zenon
<1>6. CASE UNCHANGED <<chainVars, pc, heard, cut>>
  BY <1>1, <1>6 DEF chainVars
<1>7. CASE Restart
  BY <1>7, Zenon DEF Restart, Crash, OrderInv
<1> QED BY <1>2, <1>3, <1>4, <1>5, <1>6, <1>7
        DEF HandleConnected, inv, Take, Control, ControlHeight, ControlBan, Answer, Announce,
            SendOdd, Disconnect, Send, ghosts, downloadVars

\* As long as genesis is the only header without a parent, and until headers()
\* stops in the middle of a message: downstream never hears of a header before it
\* heard of its parent, also across reorganisations, restarts and failing puts.
THEOREM ParentsHeardFirst ==
    ASSUME OneRoot
    PROVE  DownloadSpec => []ParentsFirst
<1>1. DownloadInit => OrderInv
  BY DEF DownloadInit, Init, OrderInv, Closed
<1>2. /\ DownloadInv /\ TypeOK /\ HeardInv /\ OrderInv /\ [DownloadNext]_downloadVars
      => OrderInv'
  BY StartOrder, AddOrder, OtherOrder DEF DownloadNext, Thread
<1>3. OrderInv => ParentsFirst
  BY DEF OrderInv, ParentsFirst, Closed
<1> QED BY <1>1, <1>2, <1>3, DownloadInvariance, HeardInvariance, PTL DEF DownloadSpec

-----------------------------------------------------------------------------
(***************************************************************************)
(* The published height.  Once a message moved the tip, each header that   *)
(* follows in it descends from the tip, so that it is new and moves the    *)
(* tip again: the height of the last header added is the one of the tip.   *)
(***************************************************************************)

\* So the headers of an answer follow each other.
LEMMA AnswerInOrder ==
    ASSUME NEW p \in Peer, NEW i \in 1 .. Len(Tips[p]), NEW locator
    PROVE  InOrder(Following(ChainTo[Tips[p][i]], locator))
<1> DEFINE chain == ChainTo[Tips[p][i]]
<1>1. chain \in Seq(Hash) /\ chain # <<>>
  BY ServedChain
<1>2. PICK c \in Chains : chain = Reverse(c)
  BY ServedChain
<1> HIDE DEF chain
<1>3. PICK m \in Nat \ {0}, n \in Nat :
         n <= Len(chain) /\ Following(chain, locator) = SubSeq(chain, m, n)
  BY <1>1, FollowingType, Zenon
<1>4. Len(chain) = Len(c)
  BY <1>2, ChainProperties, ReverseProperties
<1> QED BY <1>2, <1>3, <1>4, ChainInOrder DEF chain

\* headers() never goes back to not having stopped.
LEMMA CutStays ==
    ASSUME [DownloadNext]_downloadVars, cut
    PROVE  cut'
<1>1. CASE UNCHANGED downloadVars
  BY <1>1 DEF downloadVars, ghosts
<1>2. CASE DownloadNext
  <2>1. CASE AddNext
    BY <2>1, Zenon DEF AddNext, SkipKnown, KeepBranch, ExtendTrunk, Reorganise, BanSender,
                StopAtError, Panic
  <2> QED BY <1>2, <2>1, Zenon
          DEF DownloadNext, Thread, Start, HandleConnected, inv, ReceiveHeaders, Take,
              QueueEmpty, SaveBatch, BatchFails, Notify, Finish, Control, ControlHeight,
              ControlBan, Answer, Announce, SendOdd, Send, Disconnect, Restart, ghosts
<1> QED BY <1>1, <1>2

\* As long as headers() did not stop, no put failed, and the invariant of ChainDB
\* holds also where puts may fail.
LEMMA UncutStep ==
    ASSUME OneRoot, WalksComplete, DownloadInv, TypeOK', [DownloadNext]_downloadVars,
           ~cut => IInv
    PROVE  ~cut' => IInv'
<1> SUFFICES ASSUME ~cut' PROVE IInv'
  OBVIOUS
<1>1. ~cut /\ IInv
  BY CutStays
<1>2. CASE UNCHANGED chainVars
  <2>1. \A h \in Hash : add_header(h) =>
           \/ AddRejected(h) \/ AddLost(h) \/ AddBranch(h) \/ AddTip(h) \/ AddPanics(h)
    <3> SUFFICES ASSUME NEW h \in Hash, AddPutFails(h) PROVE FALSE
      BY DEF add_header
    <3>1. CacheOK /\ h \notin Known
      BY <1>1, Zenon DEF IInv, TypeOK, CacheOK, AddPutFails, AddSide, MovesTip, AddExtend, AddReorg,
                  InsertGenesis, Accept, Validated, Connects
    <3>2. h \in Known'
      BY <3>1, AddTypes DEF AddPutFails
    <3> QED BY <1>2, <3>1, <3>2 DEF chainVars, Known
  <2> QED BY <1>1, <1>2, <2>1, StepInv
<1>3. CASE AddNext
  <2> DEFINE h == Head(pc.queue)
  <2>1. Skips(h) \/ Stores(h)
    BY <1>3, AddOutcome, Zenon DEF Stops
  <2>2. h \in Hash /\ phase = "up"
    BY <1>3, NextHeader DEF AddNext
  <2> HIDE DEF h
  <2>3. CASE Skips(h)
    BY <1>2, <2>3 DEF Skips
  <2>4. CASE Stores(h)
    <3>1. CacheInv' /\ PhaseInv' /\ SoundStore(db') /\ SoundStore(disk') /\ DbAhead'
      BY <1>1, <2>2, <2>4, AddInv DEF Stores
    <3> QED BY <3>1, Zenon DEF IInv, SoundStore, Sound
  <2> QED BY <2>1, <2>3, <2>4
<1>4. CASE Start \/ SaveBatch \/ Restart
  <2>1. [Next]_chainVars
    BY ChainStep
  <2>2. \A h \in Hash : ~add_header(h) \/ AddRejected(h) \/ AddPanics(h)
    <3> SUFFICES ASSUME NEW h \in Hash, add_header(h), ~AddRejected(h), ~AddPanics(h)
                 PROVE FALSE
      OBVIOUS
    <3>1. phase = "up" /\ phase' = "up" /\ disk' = disk
      BY Zenon DEF add_header, AddLost, AddBranch, AddTip, AddPutFails
    <3>2. SaveBatch
      BY <1>4, <3>1 DEF Start, LoadHeaders, StoreGenesis, StoreGenesisTip, Restart, Crash
    <3>3. Known' = Known
      BY <3>2 DEF SaveBatch, batch, Known
    <3>4. AddSide(h) \/ AddPathLost(h) \/ MovesTip(h)
      BY Zenon DEF add_header, AddLost, AddBranch, AddTip, AddPutFails
    <3>5. CacheOK /\ h \notin Known
      BY <1>1, <3>4 DEF IInv, TypeOK, CacheOK, AddSide, AddPathLost, MovesTip, AddExtend,
                        AddReorg, InsertGenesis, Accept, Validated, Connects
    <3> QED BY <3>3, <3>4, <3>5, AddTypes
  <2> QED BY <1>1, <2>1, <2>2, StepInv
<1> QED BY <1>2, <1>3, <1>4, Zenon
        DEF DownloadNext, Thread, HandleConnected, inv, ReceiveHeaders, Take,
            QueueEmpty, BatchFails, Notify, Finish, Control, ControlHeight,
            ControlBan, Answer, Announce, SendOdd, Send, Disconnect, downloadVars

\* The invariant of ChainDB until headers() stops, also where puts may fail.
LEMMA UncutInvariance ==
    ASSUME OneRoot, WalksComplete
    PROVE  DownloadSpec => [](~cut => IInv)
<1> DEFINE Uncut == ~cut => IInv
<1>1. DownloadInit => Uncut
  BY InitInv DEF DownloadInit
<1>2. DownloadInv /\ TypeOK' /\ Uncut /\ [DownloadNext]_downloadVars => Uncut'
  BY UncutStep
<1> HIDE DEF Uncut
<1>3. DownloadSpec => []Uncut
  BY <1>1, <1>2, DownloadInvariance, PTL DEF DownloadSpec
<1> QED BY <1>3 DEF Uncut

\* A message whose headers, if it has any, follow each other.
OrderedMessage == {m \in Message : m.kind = "Headers" => InOrder(m.headers)}

\* The height the p2p layer has, or will have from what it was sent.
Published == IF ctl = <<>> THEN p2pHeight ELSE Last(ctl).height

\* While the tip moves, the rest of the message descends from it, and the height of
\* the last header added is its height; else the published height is its height.
HeightInv ==
    /\ out \in [Peer -> Seq(OrderedMessage)]
    /\ InOrder(pc.queue)
    /\ pc.at = "wait" => pc = Waiting
    /\ phase \in {"down", "genesis"} => ctl = <<>> /\ p2pHeight = 0
    /\ ~cut => ctl \in Seq([height : Nat])
    /\ phase = "up" /\ ~cut =>
          /\ pc.moved => /\ pc.height = headers[tip_hash].height
                         /\ pc.queue # <<>> => Descends(tip_hash, Head(pc.queue))
          /\ ~pc.moved => Published \in {0, headers[tip_hash].height}

\* The frame of a thread that waits.
LEMMA WaitingFrame ==
    /\ Waiting.at = "wait" /\ Waiting.queue = <<>> /\ ~Waiting.moved
    /\ InOrder(Waiting.queue)
<1>1. Waiting.at = "wait" /\ Waiting.queue = <<>> /\ ~Waiting.moved
  BY DEF Waiting, Frame
<1>2. InOrder(<<>>)
  BY DEF InOrder
<1> QED BY <1>1, <1>2

\* The start, which publishes nothing.
LEMMA StartHeight ==
    ASSUME HeardInv, HeightInv, Start
    PROVE  HeightInv'
<1>1. /\ phase \in {"down", "genesis"} /\ phase' \in {"genesis", "up"}
      /\ UNCHANGED <<out, pc, ctl, p2pHeight, cut>>
  BY DEF Start, LoadHeaders, StoreGenesis, StoreGenesisTip, peerVars, p2pVars
<1>2. pc = Waiting /\ ctl = <<>> /\ p2pHeight = 0
  BY <1>1 DEF HeardInv, HeightInv
<1>3. ~pc'.moved /\ Published' = 0
  BY <1>1, <1>2, WaitingFrame DEF Published
<1> QED BY <1>1, <1>2, <1>3 DEF HeightInv

\* run takes a message.
LEMMA TakeHeight ==
    ASSUME HeightInv, NEW p \in Peer, HandleConnected(p) \/ inv(p) \/ ReceiveHeaders(p)
    PROVE  HeightInv'
<1>1. /\ phase = "up" /\ pc.at = "wait" /\ out[p] # <<>>
      /\ out' = [out EXCEPT ![p] = Tail(@)]
      /\ UNCHANGED <<headers, trunk, phase, ctl, p2pHeight, cut>>
  BY DEF HandleConnected, inv, ReceiveHeaders, Take, chainVars, p2pVars, ghosts
<1>2. Head(out[p]) \in OrderedMessage /\ Tail(out[p]) \in Seq(OrderedMessage)
  BY <1>1, HeadTail DEF HeightInv
<1>3. out' \in [Peer -> Seq(OrderedMessage)]
  BY <1>1, <1>2 DEF HeightInv
<1>4. InOrder(pc'.queue) /\ ~pc'.moved /\ (pc'.at = "wait" => pc' = Waiting) /\ ~pc.moved
  <2>1. pc = Waiting /\ ~pc.moved /\ InOrder(pc.queue)
    BY <1>1, WaitingFrame DEF HeightInv
  <2>2. CASE pc' = pc
    BY <2>1, <2>2
  <2>3. CASE ReceiveHeaders(p)
    <3> DEFINE hs == Head(out[p]).headers
    <3>1. Head(out[p]).kind = "Headers"
      BY <2>3 DEF ReceiveHeaders, Take
    <3>2. InOrder(hs)
      BY <1>2, <3>1 DEF OrderedMessage
    <3>3. \/ pc' = Waiting
          \/ pc' = [Frame("add") EXCEPT !.peer = p, !.queue = hs,
                                        !.height = headers[tip_hash].height]
      BY <2>3 DEF ReceiveHeaders
    <3> HIDE DEF hs
    <3>4. CASE pc' = Waiting
      BY <2>1, <3>4, WaitingFrame
    <3>5. CASE pc' = [Frame("add") EXCEPT !.peer = p, !.queue = hs,
                                          !.height = headers[tip_hash].height]
      <4>1. pc'.queue = hs /\ pc'.at = "add" /\ pc'.moved = FALSE
        BY <3>5 DEF Frame
      <4> QED BY <2>1, <3>2, <4>1
    <3> QED BY <3>3, <3>4, <3>5
  <2> QED BY <2>2, <2>3 DEF HandleConnected, inv
<1>5. UNCHANGED <<Published, tip_hash>>
  BY <1>1 DEF Published, tip_hash
<1> QED BY <1>1, <1>3, <1>4, <1>5, Zenon DEF HeightInv

\* One turn of the loop: what follows a new tip in a message is neither known nor
\* on a side branch.
LEMMA AddHeight ==
    ASSUME WorkResolved, DownloadInv, ~cut => IInv, HeightInv, AddNext
    PROVE  HeightInv'
<1> DEFINE h == Head(pc.queue)
<1>1. /\ Skips(h) \/ Stores(h) \/ Stops
      /\ phase = "up" /\ pc.at = "add" /\ pc.queue # <<>>
      /\ UNCHANGED <<p2pHeight, out>>
  BY AddOutcome
<1>2. h \in Hash /\ pc.queue \in Seq(Hash)
  BY <1>1, NextHeader DEF DownloadInv
<1>3. InOrder(Tail(pc.queue)) /\ (Tail(pc.queue) # <<>> => Descends(h, Head(Tail(pc.queue))))
  BY <1>1, <1>2, TailInOrder, Zenon DEF HeightInv
<1>4. ~cut /\ pc.moved => Descends(tip_hash, h)
  BY <1>1 DEF HeightInv
<1> HIDE DEF h
<1>5. ~cut => trunk # <<>> /\ CacheOK
  BY <1>1 DEF IInv, TypeOK, CacheOK
<1>6. CASE Skips(h)
  <2>1. ~cut => ~pc.moved
    BY <1>4, <1>5, <1>6, TipHasNoDescendant DEF Skips
  <2>2. UNCHANGED <<tip_hash, Published, phase, headers, ctl, cut>>
    BY <1>1, <1>6, Zenon DEF Skips, tip_hash, Published, chainVars
  <2> QED BY <1>1, <1>3, <1>6, <2>1, <2>2 DEF Skips, HeightInv
<1>7. CASE Stores(h)
  <2>1. UNCHANGED <<Published, phase, ctl, cut>>
    BY <1>1, <1>7 DEF Stores, Published
  <2>2. pc'.at # "wait" /\ pc'.queue = Tail(pc.queue) /\ pc'.height = headers'[h].height
    BY <1>7 DEF Stores
  <2>3. ASSUME ~cut => /\ pc'.moved => /\ pc'.height = headers'[tip_hash'].height
                                       /\ pc'.queue # <<>> => Descends(tip_hash', Head(pc'.queue))
                       /\ ~pc'.moved => Published' \in {0, headers'[tip_hash'].height}
        PROVE  HeightInv'
    BY <1>1, <1>3, <2>1, <2>2, <2>3, Zenon DEF HeightInv
  <2>4. CASE AddBranch(h) /\ pc'.moved = pc.moved
    <3>1. AddSide(h)
      BY <2>4, Zenon DEF AddBranch
    <3>2. ~cut => ~pc.moved
      BY <1>2, <1>4, <1>5, <3>1, DescendantMovesTip
    <3>3. ~cut => tip_hash' = tip_hash /\ headers'[tip_hash] = headers[tip_hash]
      <4> SUFFICES ASSUME ~cut
                   PROVE  tip_hash' = tip_hash /\ headers'[tip_hash] = headers[tip_hash]
        OBVIOUS
      <4>1. trunk' = trunk /\ Accept(h) /\ tip_hash \in Known
        BY <1>5, <3>1, TrunkEnds DEF AddSide
      <4>2. h \notin Known /\ Insert(h, stored_header(h))
        BY <4>1 DEF Accept, Validated, Connects
      <4> QED BY <4>1, <4>2 DEF Insert, tip_hash
    <3>4. ~cut => Published \in {0, headers[tip_hash].height}
      BY <1>1, <3>2, Zenon DEF HeightInv
    <3> QED BY <2>1, <2>4, <2>3, <3>2, <3>3, <3>4, Zenon
  <2>5. CASE AddTip(h) /\ pc'.moved = TRUE
    <3>1. ~cut => tip_hash' = h
      BY <1>2, <1>5, <2>5, MovedTip DEF AddTip, tip_hash
    <3> QED BY <1>3, <2>5, <2>2, <2>3, <3>1
  <2> QED BY <1>7, <2>4, <2>5, Zenon DEF Stores
<1>8. CASE Stops
  BY <1>1, <1>8, WaitingFrame, Zenon DEF Stops, HeightInv
<1> QED BY <1>1, <1>6, <1>7, <1>8

\* What saving and telling leave of a frame.
LEMMA ToldExcept ==
    ASSUME NEW f, IsFrame(f), NEW a, NEW c, NEW d
    PROVE  /\ [f EXCEPT !.at = a].at = a
           /\ [f EXCEPT !.at = a].moved = f.moved
           /\ [f EXCEPT !.at = a].queue = f.queue
           /\ [f EXCEPT !.at = a].height = f.height
           /\ [f EXCEPT !.at = a, !.connected = c, !.disconnected = d].at = a
           /\ [f EXCEPT !.at = a, !.connected = c, !.disconnected = d].moved = f.moved
           /\ [f EXCEPT !.at = a, !.connected = c, !.disconnected = d].queue = f.queue
           /\ [f EXCEPT !.at = a, !.connected = c, !.disconnected = d].height = f.height
BY Zenon DEF IsFrame

\* The end of headers() publishes the height of a tip that moved.
LEMMA FinishHeight ==
    ASSUME DownloadInv, TypeOK, HeightInv,
           QueueEmpty \/ SaveBatch \/ BatchFails \/ Notify \/ Finish
    PROVE  HeightInv'
<1>1. phase = "up" /\ UNCHANGED <<headers, trunk, phase, p2pHeight, out, tip_hash>>
  BY DEF QueueEmpty, SaveBatch, BatchFails, Notify, Finish, batch, chainVars, peerVars,
         p2pVars, tip_hash
<1>2. CASE QueueEmpty \/ SaveBatch \/ Notify
  <2>1. UNCHANGED <<ctl, cut>>
    BY <1>2 DEF QueueEmpty, SaveBatch, Notify, p2pVars, ghosts
  <2>2. /\ pc'.at \in {"batch", "notify", "finish", "add"}
        /\ pc'.queue = pc.queue /\ pc'.moved = pc.moved /\ pc'.height = pc.height
    <3>1. IsFrame(pc)
      BY DEF DownloadInv
    <3>2. CASE QueueEmpty
      BY <3>1, <3>2, ToldExcept DEF QueueEmpty
    <3>3. CASE SaveBatch
      BY <3>1, <3>3, ToldExcept DEF SaveBatch
    <3>4. CASE Notify
      BY <3>1, <3>4, ToldExcept DEF Notify
    <3> QED BY <1>2, <3>2, <3>3, <3>4
  <2>3. Published' = Published
    BY <1>1, <2>1 DEF Published
  <2> QED BY <1>1, <2>1, <2>2, <2>3, Zenon DEF HeightInv
<1>3. CASE BatchFails
  BY <1>1, <1>3, WaitingFrame DEF BatchFails, HeightInv
<1>4. CASE Finish
  <2>1. /\ pc' = Waiting /\ cut' = cut
        /\ ctl' = IF pc.moved THEN Append(ctl, [height |-> pc.height]) ELSE ctl
    BY <1>4 DEF Finish, ghosts
  <2>2. ~pc'.moved /\ InOrder(pc'.queue)
    BY <2>1, WaitingFrame
  <2>3. ASSUME ~cut, pc.moved
        PROVE  ctl' \in Seq([height : Nat]) /\ Published' = headers[tip_hash].height
    <3>1. pc.height = headers[tip_hash].height /\ ctl \in Seq([height : Nat])
      BY <1>1, <2>3, Zenon DEF HeightInv
    <3>2. headers[tip_hash].height \in Nat
      <4>1. CacheOK /\ trunk # <<>>
        BY <1>1 DEF TypeOK, CacheOK
      <4>2. tip_hash \in Known /\ headers \in [Known -> StoredHeader]
        BY <4>1, TrunkEnds DEF CacheOK
      <4> QED BY <4>2 DEF StoredHeader
    <3>3. /\ ctl' \in Seq([height : Nat]) /\ Len(ctl') = Len(ctl) + 1
          /\ ctl'[Len(ctl) + 1] = [height |-> pc.height] /\ Len(ctl) \in Nat
      BY <2>1, <2>3, <3>1, <3>2, Appended
    <3>4. ctl' # <<>>
      BY <3>3
    <3> QED BY <3>1, <3>3, <3>4 DEF Published, Last
  <2>4. ASSUME ~pc.moved PROVE ctl' = ctl /\ Published' = Published
    BY <1>1, <2>1, <2>4 DEF Published
  <2> QED BY <1>1, <2>1, <2>2, <2>3, <2>4 DEF HeightInv
<1> QED BY <1>2, <1>3, <1>4

\* What a peer sends is a message whose headers follow each other, where those of
\* the odd ones do.
LEMMA PeerSends ==
    ASSUME \A hs \in Odd : InOrder(hs), DownloadInv,
           NEW p \in Peer, Answer(p) \/ Announce(p) \/ SendOdd(p)
    PROVE  \E m \in OrderedMessage : Send(p, m)
<1>1. grown[p] \in 1 .. Len(Tips[p]) /\ Len(Tips[p]) \in Nat
  BY TipsAssumption DEF DownloadInv
<1>2. CASE Answer(p)
  <2> DEFINE hs == Following(ChainTo[Tips[p][grown[p]]], Head(req[p]))
  <2>1. hs \in Seq(Hash) /\ InOrder(hs)
    BY <1>1, ServedChain, FollowingType, AnswerInOrder, Zenon
  <2>2. Send(p, Headers(hs))
    BY <1>2, Zenon DEF Answer
  <2> HIDE DEF hs
  <2>3. Headers(hs) \in OrderedMessage
    BY <2>1 DEF Headers, Message, OrderedMessage
  <2> QED BY <2>2, <2>3
<1>3. CASE Announce(p)
  <2>1. grown[p] < Len(Tips[p]) /\ Send(p, Inv(Tips[p][grown[p] + 1]))
    BY <1>3, Zenon DEF Announce
  <2>2. Tips[p][grown[p] + 1] \in Hash
    BY <1>1, <2>1, TipsAssumption
  <2>3. Inv(Tips[p][grown[p] + 1]) \in OrderedMessage
    BY <2>2 DEF Inv, Message, OrderedMessage
  <2> QED BY <2>1, <2>3
<1>4. CASE SendOdd(p)
  <2>1. PICK hs \in Odd : Send(p, Headers(hs))
    BY <1>4, Zenon DEF SendOdd
  <2>2. Headers(hs) \in OrderedMessage
    BY DownloadAssumption DEF Headers, Message, OrderedMessage
  <2> QED BY <2>1, <2>2
<1> QED BY <1>2, <1>3, <1>4

\* The p2p layer takes the height it was sent; peers send headers that follow each
\* other; a restart publishes nothing.
LEMMA OutsideHeight ==
    ASSUME \A hs \in Odd : InOrder(hs),
           DownloadInv, HeightInv,
           \/ Control
           \/ \E p \in Peer : Answer(p) \/ Announce(p) \/ SendOdd(p) \/ Disconnect(p)
           \/ Restart
           \/ UNCHANGED downloadVars
    PROVE  HeightInv'
<1>1. ASSUME UNCHANGED <<headers, trunk, phase, pc, ctl, p2pHeight, cut>>,
             out' \in [Peer -> Seq(OrderedMessage)]
      PROVE  HeightInv'
  <2>1. UNCHANGED <<Published, tip_hash>>
    BY <1>1 DEF Published, tip_hash
  <2> QED BY <1>1, <2>1, Zenon DEF HeightInv
<1>2. ASSUME NEW p, Drop(p) PROVE out' \in [Peer -> Seq(OrderedMessage)]
  BY <1>2, EmptySeq, Zenon DEF Drop, HeightInv
<1>3. ASSUME NEW p \in Peer, NEW m \in OrderedMessage, Send(p, m) PROVE HeightInv'
  <2>1. /\ out' = [out EXCEPT ![p] = Append(@, m)]
        /\ UNCHANGED <<headers, trunk, phase, pc, ctl, p2pHeight, cut>>
    BY <1>3 DEF Send, chainVars, p2pVars, ghosts
  <2>2. out' \in [Peer -> Seq(OrderedMessage)]
    BY <2>1 DEF HeightInv
  <2> QED BY <1>1, <2>1, <2>2
<1>4. CASE ControlHeight
  <2>1. /\ ctl # <<>> /\ p2pHeight' = Head(ctl).height /\ ctl' = Tail(ctl)
        /\ UNCHANGED <<headers, trunk, phase, pc, cut, out>>
    BY <1>4, Zenon DEF ControlHeight, chainVars, peerVars, ghosts
  <2>2. tip_hash' = tip_hash
    BY <2>1 DEF tip_hash
  <2>3. ASSUME ~cut PROVE ctl' \in Seq([height : Nat]) /\ Published' = Published
    <3>1. ctl \in Seq([height : Nat]) /\ Len(ctl) \in Nat /\ Len(ctl) >= 1
      <4>1. ctl \in Seq([height : Nat])
        BY <2>3, Zenon DEF HeightInv
      <4> QED BY <2>1, <4>1, EmptySeq
    <3>2. /\ ctl' \in Seq([height : Nat]) /\ Len(ctl') = Len(ctl) - 1
          /\ \A i \in 1 .. Len(ctl) - 1 : ctl'[i] = ctl[i + 1]
      BY <2>1, <3>1, HeadTail
    <3>3. CASE Len(ctl) = 1
      BY <2>1, <3>1, <3>2, <3>3, EmptySeq DEF Published, Last
    <3>4. CASE Len(ctl) > 1
      <4>1. Len(ctl') \in 1 .. Len(ctl) - 1 /\ Len(ctl') + 1 = Len(ctl) /\ ctl' # <<>>
        BY <3>1, <3>2, <3>4
      <4>2. Last(ctl') = Last(ctl)
        BY <3>2, <4>1 DEF Last
      <4> QED BY <2>1, <3>2, <4>1, <4>2 DEF Published
    <3> QED BY <3>1, <3>2, <3>3, <3>4
  <2> QED BY <2>1, <2>2, <2>3, Zenon DEF HeightInv
<1>5. CASE ControlBan
  <2>1. /\ ctl # <<>> /\ "ban" \in DOMAIN Head(ctl) /\ Drop(Head(ctl).ban)
        /\ UNCHANGED <<phase, pc, cut, p2pHeight>>
    BY <1>5, Zenon DEF ControlBan, chainVars, ghosts
  <2>2. cut
    <3> SUFFICES ASSUME ~cut PROVE FALSE
      OBVIOUS
    <3>1. Head(ctl) \in [height : Nat]
      BY <2>1, HeadTail, Zenon DEF HeightInv
    <3>2. DOMAIN Head(ctl) = {"height"}
      BY <3>1
    <3> QED BY <2>1, <3>2
  <2>3. out' \in [Peer -> Seq(OrderedMessage)]
    BY <1>2, <2>1
  <2>4. phase \notin {"down", "genesis"}
    BY <2>1 DEF HeightInv
  <2> QED BY <2>1, <2>2, <2>3, <2>4, Zenon DEF HeightInv
<1>6. ASSUME NEW p \in Peer, Answer(p) \/ Announce(p) \/ SendOdd(p) PROVE HeightInv'
  <2>1. PICK m \in OrderedMessage : Send(p, m)
    BY <1>6, PeerSends, Zenon
  <2> QED BY <1>3, <2>1
<1>7. ASSUME NEW p \in Peer, Disconnect(p) PROVE HeightInv'
  BY <1>1, <1>2, <1>7 DEF Disconnect, chainVars, p2pVars, ghosts
<1>8. CASE Restart
  <2>1. /\ phase' = "down" /\ pc' = Waiting /\ ctl' = <<>> /\ p2pHeight' = 0
        /\ out' = [p \in Peer |-> <<Connected>>]
    BY <1>8 DEF Restart, Crash
  <2>2. out' \in [Peer -> Seq(OrderedMessage)]
    <3>1. Connected \in OrderedMessage
      BY Zenon DEF Connected, Message, OrderedMessage
    <3> QED BY <2>1, <3>1
  <2> QED BY <2>1, <2>2, WaitingFrame, EmptySeq, Zenon DEF HeightInv
<1>9. CASE UNCHANGED downloadVars
  BY <1>1, <1>9, Zenon DEF downloadVars, chainVars, p2pVars, peerVars, ghosts, HeightInv
<1> QED BY <1>4, <1>5, <1>6, <1>7, <1>8, <1>9 DEF Control

\* Where the headers of every message follow each other, the height that new peers
\* are told is the one of the tip whenever the thread and the p2p layer are done with
\* what came, or none was published since the start: also after side branches and
\* reorganisations in the middle of a message, and until headers() stops in one.
THEOREM PublishedHeightIsOfTip ==
    ASSUME OneRoot, WalksComplete, WorkResolved, \A hs \in Odd : InOrder(hs)
    PROVE  DownloadSpec => []HeightOfTip
<1> DEFINE Uncut == ~cut => IInv
<1>1. ASSUME DownloadInit PROVE HeightInv
  <2>1. out \in [Peer -> Seq(OrderedMessage)]
    BY <1>1 DEF DownloadInit, Connected, Message, OrderedMessage
  <2>2. pc = Waiting /\ ctl = <<>> /\ p2pHeight = 0 /\ phase = "down"
    BY <1>1 DEF DownloadInit, Init
  <2> QED BY <2>1, <2>2, WaitingFrame, EmptySeq, Zenon DEF HeightInv
<1>2. DownloadInv /\ TypeOK /\ HeardInv /\ HeightInv /\ Uncut /\ [DownloadNext]_downloadVars
      => HeightInv'
  BY StartHeight, TakeHeight, AddHeight, FinishHeight, OutsideHeight DEF DownloadNext, Thread
<1>3. HeightInv => HeightOfTip
  BY WaitingFrame, Zenon DEF HeightInv, HeightOfTip, Idle, Published
<1>4. DownloadSpec => []Uncut
  BY UncutInvariance
<1> HIDE DEF Uncut
<1> QED BY <1>1, <1>2, <1>3, <1>4, DownloadInvariance, HeardInvariance, PTL DEF DownloadSpec
=============================================================================
