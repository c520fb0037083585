-------------------------- MODULE Connections_proofs --------------------------
(***************************************************************************)
(* Proofs about Connections, for every set of ids and addresses and every  *)
(* bound.                                                                  *)
(***************************************************************************)
EXTENDS Connections, SequenceTheorems, NaturalsInduction, WellFoundedInduction, TLAPS

FutureStep == {"none", "check", "accept", "insert", "park", "wait", "expire", "settle", "rest", "gone"}
LoopStep == {"idle", "decode", "ban", "greet", "wakeup", "dispatch", "remove", "wake"}
PeerState == [established : BOOLEAN, version : BOOLEAN, got_verack : BOOLEAN,
              connected : BOOLEAN, ban : Nat, said : Seq({"version", "verack"}),
              told : {"nothing", "incoming", "connected"}, lost : BOOLEAN]

Typed ==
  /\ fut \in [Pid -> FutureStep]
  /\ outgoing \in [Pid -> BOOLEAN]
  /\ map \subseteq Pid
  /\ peer \in [Pid -> PeerState]
  /\ at \in [Thread -> LoopStep]
  /\ on \in [Thread -> Pid \cup {Nobody}]
  /\ handshake \in BOOLEAN /\ incoming \in BOOLEAN /\ got \in BOOLEAN

\* A loop that is not idle is at an id in use; the event loop's local variables
\* are fresh when it is idle, and it decodes for a peer in the map.
LoopsAt ==
  /\ \A t \in Thread : at[t] # "idle" => on[t] \in Pid
  /\ \A t \in Thread : on[t] \in Pid => fut[on[t]] \notin {"none", "check", "accept", "insert"}
  /\ at["event"] = "idle" => ~handshake /\ ~incoming
  /\ at["event"] = "decode" => on["event"] \in map /\ (handshake => got)

\* What a peer was sent follows from its version, and a handshake is complete
\* with a version; outside the map nothing is kept.
Shaken ==
  \A p \in Pid :
    /\ p \notin map => peer[p] = Peer_new
    /\ p \in map => peer[p].said = IF peer[p].version THEN <<"version", "verack">>
                                   ELSE IF outgoing[p] THEN <<"version">> ELSE << >>
    /\ peer[p].connected => peer[p].version

\* The event loop is about to tell the dispatcher that p is connected.
ToGreet(p) ==
  /\ on["event"] = p
  /\ at["event"] = "greet" \/ (at["event"] = "decode" /\ handshake)

\* Who is connected was told of, is about to be, or their event was lost.
Told ==
  /\ \A p \in map : ~peer[p].connected => peer[p].told = "nothing"
  /\ \A p \in map : peer[p].connected => peer[p].told = "connected" \/ peer[p].lost \/ ToGreet(p)
  /\ \A p \in map : ToGreet(p) => peer[p].connected /\ peer[p].told = "nothing"
  /\ on["event"] \in map /\ (at["event"] \in {"wakeup", "dispatch"} \/ (at["event"] = "decode" /\ incoming))
        => peer[on["event"]].connected

ConnInv == Typed /\ LoopsAt /\ NoOrphan /\ Wakeable /\ Shaken /\ Told

-----------------------------------------------------------------------------

\* The record of a peer that is not connected yet.
LEMMA NewPeer == Peer_new \in PeerState /\ ~Peer_new.connected
<1>1. Peer_new \in PeerState
  BY DEF Peer_new, PeerState
<1>2. ~Peer_new.connected
  BY DEF Peer_new
<1> QED BY <1>1, <1>2

\* One peer changes.
LEMMA OnePeer ==
  ASSUME Typed, NEW p \in Pid, NEW r \in PeerState, peer' = [peer EXCEPT ![p] = r]
  PROVE  peer' \in [Pid -> PeerState] /\ \A q \in Pid : peer'[q] = IF q = p THEN r ELSE peer[q]
  BY DEF Typed

\* What an incoming connection is sent at once, an outgoing one is sent in two.
LEMMA VersionThenVerack ==
  <<"version">> \o <<"verack">> = <<"version", "verack">>
<1> DEFINE S == {"version", "verack"}
           v == <<"version">>
           w == <<"verack">>
           b == <<"version", "verack">>
<1>1. v \in Seq(S) /\ w \in Seq(S) /\ Len(v) = 1 /\ Len(w) = 1 /\ v[1] = "version" /\ w[1] = "verack"
  OBVIOUS
<1>2. b \in Seq(S) /\ Len(b) = 2 /\ b[1] = "version" /\ b[2] = "verack"
  OBVIOUS
<1> HIDE DEF v, w, b, S
<1>3. /\ v \o w \in Seq(S) /\ Len(v \o w) = Len(v) + Len(w)
      /\ \A i \in 1 .. Len(v) + Len(w) : (v \o w)[i] = IF i <= Len(v) THEN v[i] ELSE w[i - Len(v)]
  BY <1>1, ConcatProperties
<1>4. Len(v \o w) = 2 /\ (v \o w)[1] = b[1] /\ (v \o w)[2] = b[2]
  BY <1>1, <1>2, <1>3
<1>5. \A i \in 1 .. Len(v \o w) : (v \o w)[i] = b[i]
  BY <1>4
<1> QED  BY <1>2, <1>3, <1>4, <1>5, SeqEqual DEF v, w, b

\* A step that changes nothing preserves the invariant.
LEMMA UnchangedStep ==
  ASSUME ConnInv, UNCHANGED connVars
  PROVE  ConnInv'
<1>1. UNCHANGED <<fut, outgoing, map, peer, waker, woken, at, on, handshake, incoming, got>>
  BY DEF connVars, futureVars, loopVars
<1> QED  BY <1>1 DEF ConnInv, Typed, LoopsAt, NoOrphan, Wakeable, Shaken, Told, ToGreet

\* The id that add_peer takes is one that nothing refers to.
LEMMA AddPeer ==
  ASSUME ConnInv, NEW a, NEW out, add_peer(a, out)
  PROVE  \E p \in Pid : /\ Unused(p)
                        /\ fut' = [fut EXCEPT ![p] = IF out THEN "check" ELSE "accept"]
                        /\ outgoing' = [outgoing EXCEPT ![p] = out]
                        /\ waker' = waker \ {p}
<1> DEFINE Free == {q \in Pid : Unused(q)}
           p == CHOOSE q \in Pid : Unused(q) /\ \A r \in Pid : Unused(r) => q <= r
<1>1. Free \subseteq Nat /\ Free # {}
  BY ConnectionsAssumption DEF add_peer
<1> DEFINE R == OpToRel(<, Nat)
<1>2. \A x, y \in Nat : y < x => <<y, x>> \in R
  BY DEF R, OpToRel
<1>w. IsWellFoundedOn(R, Nat)
  BY NatLessThanWellFounded
<1> HIDE DEF R, Free
<1>x. PICK q \in Free : \A r \in Free : <<r, q>> \notin R
  BY <1>1, <1>w, WFMin
<1>y. \A r \in Free : ~(r < q)
  BY <1>1, <1>2, <1>x
<1>3. q \in Free /\ \A r \in Free : q <= r
  BY <1>1, <1>y
<1>4. p \in Pid /\ Unused(p)
  BY <1>3 DEF Free
<1> QED  BY <1>4 DEF add_peer

\* A new future disturbs nothing: its id had no peer, and no loop was at it.
LEMMA AddPeerStep ==
  ASSUME ConnInv, NEW a, NEW out \in BOOLEAN, add_peer(a, out), UNCHANGED <<map, peer, loopVars>>
  PROVE  ConnInv'
<1>1. PICK p \in Pid : /\ Unused(p)
                       /\ fut' = [fut EXCEPT ![p] = IF out THEN "check" ELSE "accept"]
                       /\ outgoing' = [outgoing EXCEPT ![p] = out]
                       /\ waker' = waker \ {p}
  BY AddPeer
<1>2. woken' = woken /\ p \notin map /\ \A t \in Thread : on[t] # p
  BY <1>1 DEF add_peer, Unused
<1>3. Typed'
  BY <1>1 DEF ConnInv, Typed, FutureStep, loopVars
<1>4. LoopsAt'
  BY <1>1, <1>2 DEF ConnInv, LoopsAt, Typed, loopVars
<1>5. (NoOrphan /\ Wakeable)'
  BY <1>1, <1>2 DEF ConnInv, NoOrphan, Wakeable, Typed
<1>6. Shaken'
  BY <1>1, <1>2 DEF ConnInv, Shaken, Typed
<1>7. Told'
  BY DEF ConnInv, Told, ToGreet, loopVars
<1> QED  BY <1>3, <1>4, <1>5, <1>6, <1>7 DEF ConnInv

\* Check(p) preserves the invariant.
LEMMA CheckStep ==
  ASSUME ConnInv, NEW p \in Pid, Check(p)
  PROVE  ConnInv'
<1>1. Typed'
  BY DEF ConnInv, Typed, PeerState, FutureStep, LoopStep, Check, Go, loopVars, Thread
<1>2. LoopsAt'
  BY DEF ConnInv, LoopsAt, Typed, LoopStep, FutureStep, NoOrphan, Check, Go, loopVars, Thread
<1>3. (NoOrphan /\ Wakeable)'
  BY DEF ConnInv, NoOrphan, Wakeable, Typed, LoopsAt, PeerState, Check, Go, loopVars, Thread
<1>4. Shaken'
  BY DEF ConnInv, Shaken, Typed, LoopsAt, PeerState, Check, Go, loopVars, Thread
<1>5. Told'
  BY DEF ConnInv, Told, ToGreet, Typed, LoopsAt, PeerState, Shaken, Check, Go, loopVars, Thread
<1> QED  BY <1>1, <1>2, <1>3, <1>4, <1>5 DEF ConnInv

\* Accept(p) preserves the invariant.
LEMMA AcceptStep ==
  ASSUME ConnInv, NEW p \in Pid, Accept(p)
  PROVE  ConnInv'
<1>1. Typed'
  BY DEF ConnInv, Typed, PeerState, FutureStep, LoopStep, Accept, Go, loopVars, Thread
<1>2. LoopsAt'
  BY DEF ConnInv, LoopsAt, Typed, LoopStep, FutureStep, NoOrphan, Accept, Go, loopVars, Thread
<1>3. (NoOrphan /\ Wakeable)'
  BY DEF ConnInv, NoOrphan, Wakeable, Typed, LoopsAt, PeerState, Accept, Go, loopVars, Thread
<1>4. Shaken'
  BY DEF ConnInv, Shaken, Typed, LoopsAt, PeerState, Accept, Go, loopVars, Thread
<1>5. Told'
  BY DEF ConnInv, Told, ToGreet, Typed, LoopsAt, PeerState, Shaken, Accept, Go, loopVars, Thread
<1> QED  BY <1>1, <1>2, <1>3, <1>4, <1>5 DEF ConnInv

\* Insert(p) preserves the invariant.
LEMMA InsertStep ==
  ASSUME ConnInv, NEW p \in Pid, Insert(p)
  PROVE  ConnInv'
<1> DEFINE s == IF outgoing[p] THEN <<"version">> ELSE << >>
           r == [peer[p] EXCEPT !.established = ~outgoing[p], !.said = s]
<1>s. s \in Seq({"version", "verack"})
  <2>1. <<"version">> \in Seq({"version", "verack"}) /\ << >> \in Seq({"version", "verack"})
    OBVIOUS
  <2> QED  BY <2>1
<1>a. p \notin map /\ peer[p] = Peer_new /\ outgoing[p] \in BOOLEAN /\ peer[p] \in PeerState
  BY DEF ConnInv, Typed, NoOrphan, Shaken, Insert
<1>b. r \in PeerState /\ r.said = s /\ ~r.version /\ ~r.connected /\ r.told = "nothing"
  <2> HIDE DEF s
  <2>1. ~peer[p].version /\ ~peer[p].connected /\ peer[p].told = "nothing"
    BY <1>a DEF Peer_new
  <2> QED  BY <1>a, <1>s, <2>1 DEF PeerState
<1>c. peer' = [peer EXCEPT ![p] = r] /\ outgoing' = outgoing /\ map' = map \cup {p}
  BY DEF Insert, Go
<1>d. peer' \in [Pid -> PeerState] /\ \A q \in Pid : peer'[q] = IF q = p THEN r ELSE peer[q]
  BY <1>b, <1>c, OnePeer DEF ConnInv
<1>e. at["event"] # "idle" => on["event"] # p
  BY DEF ConnInv, LoopsAt, Thread, Insert
<1> HIDE DEF r
<1>1. Typed'
  BY <1>d DEF ConnInv, Typed, FutureStep, Insert, Go, loopVars, Thread
<1>2. LoopsAt'
  BY DEF ConnInv, LoopsAt, Typed, LoopStep, FutureStep, NoOrphan, Insert, Go, loopVars, Thread
<1>3. (NoOrphan /\ Wakeable)'
  BY DEF ConnInv, NoOrphan, Wakeable, Typed, LoopsAt, PeerState, Insert, Go, loopVars, Thread
<1>4. Shaken'
  BY <1>b, <1>c, <1>d DEF ConnInv, Shaken
<1>5. Told'
  <2>1. UNCHANGED <<at, on, handshake, incoming>>
    BY DEF Insert, loopVars
  <2>2. \A q \in map : q \in Pid /\ q # p /\ peer'[q] = peer[q]
    BY <1>a, <1>d DEF ConnInv, Typed
  <2>3. peer'[p] = r
    BY <1>d
  <2> QED  BY <1>b, <1>c, <1>e, <2>1, <2>2, <2>3 DEF ConnInv, Told, ToGreet
<1> QED  BY <1>1, <1>2, <1>3, <1>4, <1>5 DEF ConnInv

\* Shake(p) preserves the invariant.
LEMMA ShakeStep ==
  ASSUME ConnInv, NEW p \in Pid, Shake(p)
  PROVE  ConnInv'
<1>1. Typed'
  BY DEF ConnInv, Typed, PeerState, FutureStep, LoopStep, Shake, Polled, loopVars, Thread
<1>2. LoopsAt'
  BY DEF ConnInv, LoopsAt, Typed, LoopStep, FutureStep, NoOrphan, Shake, Polled, loopVars, Thread
<1>3. (NoOrphan /\ Wakeable)'
<2>1. map' = map /\ peer' = peer /\ waker' = waker
  BY DEF Shake
<2>2. \A q \in Pid : q # p => fut'[q] = fut[q] /\ (q \in woken => q \in woken')
  BY DEF Shake, Polled, ConnInv, Typed
<2>3. p \in map => fut'[p] = "park" \/ (fut'[p] = "rest" /\ p \in woken')
  BY DEF Shake, Polled, ConnInv, Typed
<2> QED  BY <2>1, <2>2, <2>3 DEF ConnInv, NoOrphan, Wakeable, Typed
<1>4. Shaken'
  BY DEF ConnInv, Shaken, Typed, LoopsAt, PeerState, Shake, Polled, loopVars, Thread
<1>5. Told'
  BY DEF ConnInv, Told, ToGreet, Typed, LoopsAt, PeerState, Shaken, Shake, Polled, loopVars,
     Thread
<1> QED  BY <1>1, <1>2, <1>3, <1>4, <1>5 DEF ConnInv

\* Park(p) preserves the invariant.
LEMMA ParkStep ==
  ASSUME ConnInv, NEW p \in Pid, Park(p)
  PROVE  ConnInv'
<1>1. Typed'
  BY DEF ConnInv, Typed, PeerState, FutureStep, LoopStep, Park, Go, loopVars, Thread
<1>2. LoopsAt'
  BY DEF ConnInv, LoopsAt, Typed, LoopStep, FutureStep, NoOrphan, Park, Go, loopVars, Thread
<1>3. (NoOrphan /\ Wakeable)'
  BY DEF ConnInv, NoOrphan, Wakeable, Typed, LoopsAt, PeerState, Park, Go, loopVars, Thread
<1>4. Shaken'
  BY DEF ConnInv, Shaken, Typed, LoopsAt, PeerState, Park, Go, loopVars, Thread
<1>5. Told'
  BY DEF ConnInv, Told, ToGreet, Typed, LoopsAt, PeerState, Shaken, Park, Go, loopVars, Thread
<1> QED  BY <1>1, <1>2, <1>3, <1>4, <1>5 DEF ConnInv

\* Expire(p) preserves the invariant.
LEMMA ExpireStep ==
  ASSUME ConnInv, NEW p \in Pid, Expire(p)
  PROVE  ConnInv'
<1>1. Typed'
  BY DEF ConnInv, Typed, PeerState, FutureStep, LoopStep, Peer_new, Expire, Done, Writable,
     loopVars, Thread
<1>2. LoopsAt'
  BY ConnectionsAssumption DEF ConnInv, LoopsAt, Typed, LoopStep, FutureStep, Nobody, Expire,
     Done, Writable, Decoding, loopVars, Thread
<1>3. (NoOrphan /\ Wakeable)'
  BY DEF ConnInv, NoOrphan, Wakeable, Typed, LoopsAt, PeerState, Peer_new, Expire, Done, Writable,
     loopVars, Thread
<1>4. Shaken'
  BY DEF ConnInv, Shaken, Typed, LoopsAt, PeerState, Peer_new, Expire, Done, Writable, loopVars,
     Thread
<1>5. Told'
  BY DEF ConnInv, Told, ToGreet, Typed, LoopsAt, PeerState, Shaken, Peer_new, Expire, Done,
     Writable, loopVars, Thread
<1> QED  BY <1>1, <1>2, <1>3, <1>4, <1>5 DEF ConnInv

\* Live(p) preserves the invariant.
LEMMA LiveStep ==
  ASSUME ConnInv, NEW p \in Pid, Live(p)
  PROVE  ConnInv'
<1>1. Typed'
  BY DEF ConnInv, Typed, PeerState, FutureStep, LoopStep, Live, Polled, Done, loopVars, Thread
<1>2. LoopsAt'
  BY DEF ConnInv, LoopsAt, Typed, LoopStep, FutureStep, NoOrphan, Live, Polled, Done, loopVars,
     Thread
<1>3. (NoOrphan /\ Wakeable)'
  BY ZenonT(60) DEF ConnInv, NoOrphan, Wakeable, Typed, LoopsAt, PeerState, Live, Polled, Done, loopVars,
     Thread
<1>4. Shaken'
  BY ZenonT(60) DEF ConnInv, Shaken, Typed, LoopsAt, PeerState, Live, Polled, Done, loopVars, Thread
<1>5. Told'
  BY DEF ConnInv, Told, ToGreet, Typed, LoopsAt, PeerState, Shaken, Live, Polled, Done, loopVars,
     Thread
<1> QED  BY <1>1, <1>2, <1>3, <1>4, <1>5 DEF ConnInv

\* Settle(p) preserves the invariant.
LEMMA SettleStep ==
  ASSUME ConnInv, NEW p \in Pid, Settle(p)
  PROVE  ConnInv'
<1>1. Typed'
  BY DEF ConnInv, Typed, PeerState, FutureStep, LoopStep, Settle, Go, loopVars, Thread
<1>2. LoopsAt'
  BY DEF ConnInv, LoopsAt, Typed, LoopStep, FutureStep, NoOrphan, Settle, Go, loopVars, Thread
<1>3. (NoOrphan /\ Wakeable)'
  BY DEF ConnInv, NoOrphan, Wakeable, Typed, LoopsAt, PeerState, Settle, Go, loopVars, Thread
<1>4. Shaken'
  BY DEF ConnInv, Shaken, Typed, LoopsAt, PeerState, Settle, Go, loopVars, Thread
<1>5. Told'
  BY DEF ConnInv, Told, ToGreet, Typed, LoopsAt, PeerState, Shaken, Settle, Go, loopVars, Thread
<1> QED  BY <1>1, <1>2, <1>3, <1>4, <1>5 DEF ConnInv

\* TimeUp(p) preserves the invariant.
LEMMA TimeUpStep ==
  ASSUME ConnInv, NEW p \in Pid, TimeUp(p)
  PROVE  ConnInv'
<1>1. Typed'
  BY DEF ConnInv, Typed, PeerState, FutureStep, LoopStep, TimeUp, loopVars, Thread
<1>2. LoopsAt'
  BY DEF ConnInv, LoopsAt, Typed, LoopStep, FutureStep, NoOrphan, TimeUp, loopVars, Thread
<1>3. (NoOrphan /\ Wakeable)'
  BY DEF ConnInv, NoOrphan, Wakeable, Typed, LoopsAt, PeerState, TimeUp, loopVars, Thread
<1>4. Shaken'
  BY DEF ConnInv, Shaken, Typed, LoopsAt, PeerState, TimeUp, loopVars, Thread
<1>5. Told'
  BY DEF ConnInv, Told, ToGreet, Typed, LoopsAt, PeerState, Shaken, TimeUp, loopVars, Thread
<1> QED  BY <1>1, <1>2, <1>3, <1>4, <1>5 DEF ConnInv

\* Established(p) preserves the invariant.
LEMMA EstablishedStep ==
  ASSUME ConnInv, NEW p \in Pid, Established(p)
  PROVE  ConnInv'
<1> DEFINE r == [peer[p] EXCEPT !.established = TRUE]
<1>a. p \in Pid /\ p \in map /\ peer[p] \in PeerState
  BY DEF ConnInv, Typed, LoopsAt, Thread, Established
<1>b. r \in PeerState /\ r.version = peer[p].version /\ r.connected = peer[p].connected
      /\ r.said = peer[p].said /\ r.told = peer[p].told /\ r.lost = peer[p].lost
  BY <1>a DEF PeerState
<1>c. peer' = [peer EXCEPT ![p] = r] /\ UNCHANGED <<map, outgoing>>
  BY <1>a DEF Established, futureVars
<1>d. peer' \in [Pid -> PeerState] /\ \A q \in Pid : peer'[q] = IF q = p THEN r ELSE peer[q]
  BY <1>a, <1>b, <1>c, OnePeer DEF ConnInv
<1> HIDE DEF r
<1>1. Typed'
  BY <1>d DEF ConnInv, Typed, LoopsAt, FutureStep, LoopStep, Established, futureVars, loopVars,
     Thread
<1>2. LoopsAt'
  BY DEF ConnInv, LoopsAt, Typed, LoopStep, FutureStep, NoOrphan, Established, futureVars,
     loopVars, Thread
<1>3. (NoOrphan /\ Wakeable)'
  BY DEF ConnInv, NoOrphan, Wakeable, Typed, LoopsAt, PeerState, Established, futureVars,
     loopVars, Thread
<1>4. Shaken'
  BY <1>a, <1>b, <1>c, <1>d DEF ConnInv, Shaken, Typed
<1>5. Told'
  BY <1>a, <1>b, <1>d DEF ConnInv, Told, ToGreet, Typed, LoopsAt, PeerState, Established,
     futureVars, loopVars, Thread
<1> QED  BY <1>1, <1>2, <1>3, <1>4, <1>5 DEF ConnInv

\* HangUp(p) preserves the invariant.
LEMMA HangUpStep ==
  ASSUME ConnInv, NEW p \in Pid, HangUp(p)
  PROVE  ConnInv'
<1>1. Typed'
  BY DEF ConnInv, Typed, PeerState, FutureStep, LoopStep, HangUp, Disconnect, futureVars, Thread
<1>2. LoopsAt'
  BY DEF ConnInv, LoopsAt, Typed, LoopStep, FutureStep, NoOrphan, HangUp, Disconnect, futureVars,
     Thread
<1>3. (NoOrphan /\ Wakeable)'
  BY DEF ConnInv, NoOrphan, Wakeable, Typed, LoopsAt, PeerState, HangUp, Disconnect, futureVars,
     Thread
<1>4. Shaken'
  BY DEF ConnInv, Shaken, Typed, LoopsAt, PeerState, HangUp, Disconnect, futureVars, Thread
<1>5. Told'
  BY DEF ConnInv, Told, ToGreet, Typed, LoopsAt, PeerState, Shaken, HangUp, Disconnect,
     futureVars, Thread
<1> QED  BY <1>1, <1>2, <1>3, <1>4, <1>5 DEF ConnInv

\* Readable(p) preserves the invariant.
LEMMA ReadableStep ==
  ASSUME ConnInv, NEW p \in Pid, Readable(p)
  PROVE  ConnInv'
<1>1. Typed'
  BY DEF ConnInv, Typed, PeerState, FutureStep, LoopStep, Readable, futureVars, Thread
<1>2. LoopsAt'
  BY DEF ConnInv, LoopsAt, Typed, LoopStep, FutureStep, NoOrphan, Readable, futureVars, Thread
<1>3. (NoOrphan /\ Wakeable)'
  BY DEF ConnInv, NoOrphan, Wakeable, Typed, LoopsAt, PeerState, Readable, futureVars, Thread
<1>4. Shaken'
  BY DEF ConnInv, Shaken, Typed, LoopsAt, PeerState, Readable, futureVars, Thread
<1>5. Told'
  BY DEF ConnInv, Told, ToGreet, Typed, LoopsAt, PeerState, Shaken, Readable, futureVars, Thread
<1> QED  BY <1>1, <1>2, <1>3, <1>4, <1>5 DEF ConnInv

\* ControlBan(p) preserves the invariant.
LEMMA ControlBanStep ==
  ASSUME ConnInv, NEW p \in Pid, ControlBan(p)
  PROVE  ConnInv'
<1> DEFINE r == [peer[p] EXCEPT !.ban = @ + BAN]
<1>a. p \in Pid /\ p \in map /\ peer[p] \in PeerState
  BY DEF ConnInv, Typed, LoopsAt, Thread, ControlBan
<1>b. r \in PeerState /\ r.version = peer[p].version /\ r.connected = peer[p].connected
      /\ r.said = peer[p].said /\ r.told = peer[p].told /\ r.lost = peer[p].lost
  BY <1>a, ConnectionsAssumption, SMTT(60) DEF PeerState
<1>c. peer' = [peer EXCEPT ![p] = r] /\ UNCHANGED <<map, outgoing>>
  BY <1>a DEF ControlBan, futureVars
<1>d. peer' \in [Pid -> PeerState] /\ \A q \in Pid : peer'[q] = IF q = p THEN r ELSE peer[q]
  BY <1>a, <1>b, <1>c, OnePeer DEF ConnInv
<1> HIDE DEF r
<1>1. Typed'
  BY <1>d DEF ConnInv, Typed, LoopsAt, FutureStep, LoopStep, ControlBan, Disconnect, futureVars,
     Thread
<1>2. LoopsAt'
  BY DEF ConnInv, LoopsAt, Typed, LoopStep, FutureStep, NoOrphan, ControlBan, Disconnect,
     futureVars, Thread
<1>3. (NoOrphan /\ Wakeable)'
  BY DEF ConnInv, NoOrphan, Wakeable, Typed, LoopsAt, PeerState, ControlBan, Disconnect,
     futureVars, Thread
<1>4. Shaken'
  BY <1>a, <1>b, <1>c, <1>d DEF ConnInv, Shaken, Typed
<1>5. Told'
  BY <1>a, <1>b, <1>d DEF ConnInv, Told, ToGreet, Typed, LoopsAt, PeerState, ControlBan,
     Disconnect, futureVars, Thread
<1> QED  BY <1>1, <1>2, <1>3, <1>4, <1>5 DEF ConnInv

\* ReadsNothing preserves the invariant.
LEMMA ReadsNothingStep ==
  ASSUME ConnInv, ReadsNothing
  PROVE  ConnInv'
<1>1. Typed'
  BY DEF ConnInv, Typed, PeerState, FutureStep, LoopStep, ReadsNothing, Decoding, Disconnect,
     futureVars, Thread
<1>2. LoopsAt'
  BY DEF ConnInv, LoopsAt, Typed, LoopStep, FutureStep, NoOrphan, ReadsNothing, Decoding,
     Disconnect, futureVars, Thread
<1>3. (NoOrphan /\ Wakeable)'
  BY DEF ConnInv, NoOrphan, Wakeable, Typed, LoopsAt, PeerState, ReadsNothing, Decoding,
     Disconnect, futureVars, Thread
<1>4. Shaken'
  BY DEF ConnInv, Shaken, Typed, LoopsAt, PeerState, ReadsNothing, Decoding, Disconnect,
     futureVars, Thread
<1>5. Told'
  BY DEF ConnInv, Told, ToGreet, Typed, LoopsAt, PeerState, Shaken, ReadsNothing, Decoding,
     Disconnect, futureVars, Thread
<1> QED  BY <1>1, <1>2, <1>3, <1>4, <1>5 DEF ConnInv

\* Garbled preserves the invariant.
LEMMA GarbledStep ==
  ASSUME ConnInv, Garbled
  PROVE  ConnInv'
<1> DEFINE p == on["event"]
           r == [peer[p] EXCEPT !.lost = @ \/ handshake]
<1>a. p \in Pid /\ p \in map /\ peer[p] \in PeerState
  BY DEF ConnInv, Typed, LoopsAt, Thread, Garbled, Decoding
<1>b. r \in PeerState /\ r.version = peer[p].version /\ r.connected = peer[p].connected
      /\ r.said = peer[p].said /\ r.told = peer[p].told /\ r.lost = (peer[p].lost \/ handshake)
  BY <1>a DEF PeerState, ConnInv, Typed
<1>c. peer' = [peer EXCEPT ![p] = r] /\ UNCHANGED <<map, outgoing>>
  BY <1>a DEF Garbled, Decoding, futureVars
<1>d. peer' \in [Pid -> PeerState] /\ \A q \in Pid : peer'[q] = IF q = p THEN r ELSE peer[q]
  BY <1>a, <1>b, <1>c, OnePeer DEF ConnInv
<1> HIDE DEF r
<1>1. Typed'
  BY <1>d DEF ConnInv, Typed, LoopsAt, FutureStep, LoopStep, Garbled, Decoding, futureVars, Thread
<1>2. LoopsAt'
  BY DEF ConnInv, LoopsAt, Typed, LoopStep, FutureStep, NoOrphan, Garbled, Decoding, futureVars,
     Thread
<1>3. (NoOrphan /\ Wakeable)'
  BY DEF ConnInv, NoOrphan, Wakeable, Typed, LoopsAt, PeerState, Garbled, Decoding, futureVars,
     Thread
<1>4. Shaken'
  BY <1>a, <1>b, <1>c, <1>d, SMTT(60) DEF ConnInv, Shaken, Typed
<1>5. Told'
  BY <1>a, <1>b, <1>d DEF ConnInv, Told, ToGreet, Typed, LoopsAt, PeerState, Garbled, Decoding,
     futureVars, Thread
<1> QED  BY <1>1, <1>2, <1>3, <1>4, <1>5 DEF ConnInv

\* NoMore preserves the invariant.
LEMMA NoMoreStep ==
  ASSUME ConnInv, NoMore
  PROVE  ConnInv'
<1>1. Typed'
  BY ZenonT(60) DEF ConnInv, Typed, PeerState, FutureStep, LoopStep, NoMore, Decoding, Then, Idle,
     futureVars, Thread
<1>2. LoopsAt'
<2>1. fut' = fut /\ map' = map
  BY DEF NoMore, futureVars
<2>2. CASE ~handshake /\ ~incoming
  BY <2>1, <2>2, ConnectionsAssumption DEF ConnInv, LoopsAt, Typed, LoopStep, Nobody, NoMore,
     Then, Idle, Thread
<2>3. CASE handshake \/ incoming
  BY <2>1, <2>3 DEF ConnInv, LoopsAt, Typed, LoopStep, NoMore, Decoding, Then, Thread
<2> QED  BY <2>2, <2>3
<1>3. (NoOrphan /\ Wakeable)'
  BY DEF ConnInv, NoOrphan, Wakeable, Typed, LoopsAt, PeerState, NoMore, Decoding, Then, Idle,
     futureVars, Thread
<1>4. Shaken'
  BY DEF ConnInv, Shaken, Typed, LoopsAt, PeerState, NoMore, Decoding, Then, Idle, futureVars,
     Thread
<1>5. Told'
<2>1. map' = map /\ peer' = peer
  BY DEF NoMore
<2>2. CASE handshake
  <3>1. at'["event"] = "greet" /\ on' = on
    BY <2>2 DEF NoMore, Then, ConnInv, Typed, Thread
  <3> QED  BY <2>1, <2>2, <3>1 DEF ConnInv, Told, ToGreet, NoMore, Decoding
<2>3. CASE ~handshake /\ incoming
  <3>1. at'["event"] = "dispatch" /\ on' = on
    BY <2>3 DEF NoMore, Then, ConnInv, Typed, Thread
  <3> QED  BY <2>1, <2>3, <3>1 DEF ConnInv, Told, ToGreet, NoMore, Decoding
<2>4. CASE ~handshake /\ ~incoming
  <3>1. at'["event"] = "idle"
    BY <2>4 DEF NoMore, Then, Idle, ConnInv, Typed, Thread
  <3> QED  BY <2>1, <2>4, <3>1 DEF ConnInv, Told, ToGreet, NoMore, Decoding
<2> QED  BY <2>2, <2>3, <2>4
<1> QED  BY <1>1, <1>2, <1>3, <1>4, <1>5 DEF ConnInv

\* Incoming preserves the invariant.
LEMMA IncomingStep ==
  ASSUME ConnInv, Incoming
  PROVE  ConnInv'
<1>1. Typed'
  BY DEF ConnInv, Typed, PeerState, FutureStep, LoopStep, Incoming, Decoding, futureVars, Thread
<1>2. LoopsAt'
  BY DEF ConnInv, LoopsAt, Typed, LoopStep, FutureStep, NoOrphan, Incoming, Decoding, futureVars,
     Thread
<1>3. (NoOrphan /\ Wakeable)'
  BY DEF ConnInv, NoOrphan, Wakeable, Typed, LoopsAt, PeerState, Incoming, Decoding, futureVars,
     Thread
<1>4. Shaken'
  BY DEF ConnInv, Shaken, Typed, LoopsAt, PeerState, Incoming, Decoding, futureVars, Thread
<1>5. Told'
  BY DEF ConnInv, Told, ToGreet, Typed, LoopsAt, PeerState, Shaken, Incoming, Decoding,
     futureVars, Thread
<1> QED  BY <1>1, <1>2, <1>3, <1>4, <1>5 DEF ConnInv

\* Version preserves the invariant.
LEMMA VersionStep ==
  ASSUME ConnInv, Version
  PROVE  ConnInv'
<1> DEFINE p == on["event"]
           v == peer[p].said \o (IF outgoing[p] THEN <<"verack">> ELSE <<"version", "verack">>)
           u == [peer[p] EXCEPT !.version = TRUE]
           q == [peer[p] EXCEPT !.version = TRUE, !.said = v]
           r == [q EXCEPT !.connected = q.version /\ q.got_verack]
<1>a. p \in Pid /\ p \in map /\ peer[p] \in PeerState /\ ~peer[p].connected /\ at["event"] = "decode"
  BY DEF ConnInv, Typed, LoopsAt, Thread, Version, Accepted, Decoding
<1>s. v = <<"version", "verack">>
  <2>2. << >> \o <<"version", "verack">> = <<"version", "verack">>
    OBVIOUS
  <2>3. ~peer[p].version
    BY DEF Version
  <2>4. peer[p].said = IF outgoing[p] THEN <<"version">> ELSE << >>
    BY <1>a, <2>3 DEF ConnInv, Shaken
  <2>5. CASE outgoing[p]
    BY <2>4, <2>5, VersionThenVerack
  <2>6. CASE ~outgoing[p]
    BY <2>2, <2>4, <2>6
  <2> QED  BY <2>5, <2>6
<1>t. v \in Seq({"version", "verack"})
  <2>1. <<"version", "verack">> \in Seq({"version", "verack"})
    OBVIOUS
  <2> QED  BY <1>s, <2>1
<1>u. u \in PeerState /\ u.told = peer[p].told /\ u.lost = peer[p].lost /\ u.version
  BY <1>a DEF PeerState
<1>b. q \in PeerState /\ q.told = peer[p].told /\ q.lost = peer[p].lost
      /\ q.version /\ q.said = <<"version", "verack">>
  <2>1. q = [u EXCEPT !.said = v]
    OBVIOUS
  <2> HIDE DEF v, u, q
  <2> QED  BY <1>s, <1>t, <1>u, <2>1 DEF PeerState
<1> HIDE DEF q
<1>c. r \in PeerState /\ r.told = q.told /\ r.lost = q.lost /\ r.said = q.said /\ r.version = q.version
      /\ r.connected = (q.version /\ q.got_verack)
  BY <1>b DEF PeerState
<1>d. peer' = [peer EXCEPT ![p] = r] /\ UNCHANGED <<map, outgoing, at, on, incoming>>
      /\ handshake' = (handshake \/ r.connected) /\ got' = TRUE
  BY <1>c DEF Version, Accepted, futureVars, q
<1>e. peer' \in [Pid -> PeerState] /\ \A o \in Pid : peer'[o] = IF o = p THEN r ELSE peer[o]
  BY <1>a, <1>c, <1>d, OnePeer DEF ConnInv
<1>f. r.connected \in BOOLEAN
  BY <1>c DEF PeerState
<1> HIDE DEF r
<1>1. Typed'
  BY <1>d, <1>e, <1>f DEF ConnInv, Typed, Version, Accepted, futureVars
<1>2. LoopsAt'
  BY <1>a, <1>d DEF ConnInv, LoopsAt, Version, Accepted, futureVars
<1>3. (NoOrphan /\ Wakeable)'
  BY <1>a, <1>d, <1>e DEF ConnInv, NoOrphan, Wakeable, Typed, Version, Accepted, futureVars
<1>4. Shaken'
  BY <1>a, <1>b, <1>c, <1>d, <1>e DEF ConnInv, Shaken
<1>5. Told'
  BY <1>a, <1>b, <1>c, <1>d, <1>e, <1>f DEF ConnInv, Told, ToGreet, Typed
<1> QED  BY <1>1, <1>2, <1>3, <1>4, <1>5 DEF ConnInv

\* Verack preserves the invariant.
LEMMA VerackStep ==
  ASSUME ConnInv, Verack
  PROVE  ConnInv'
<1> DEFINE p == on["event"]
           q == [peer[p] EXCEPT !.got_verack = TRUE]
           r == [q EXCEPT !.connected = q.version /\ q.got_verack]
<1>a. p \in Pid /\ p \in map /\ peer[p] \in PeerState /\ ~peer[p].connected /\ at["event"] = "decode"
  BY DEF ConnInv, Typed, LoopsAt, Thread, Verack, Accepted, Decoding
<1>b. q \in PeerState /\ q.told = peer[p].told /\ q.lost = peer[p].lost
      /\ q.version = peer[p].version /\ q.said = peer[p].said
  BY <1>a DEF PeerState
<1> HIDE DEF q
<1>c. r \in PeerState /\ r.told = q.told /\ r.lost = q.lost /\ r.said = q.said /\ r.version = q.version
      /\ r.connected = (q.version /\ q.got_verack)
  BY <1>b DEF PeerState
<1>d. peer' = [peer EXCEPT ![p] = r] /\ UNCHANGED <<map, outgoing, at, on, incoming>>
      /\ handshake' = (handshake \/ r.connected) /\ got' = TRUE
  BY <1>c DEF Verack, Accepted, futureVars, q
<1>e. peer' \in [Pid -> PeerState] /\ \A o \in Pid : peer'[o] = IF o = p THEN r ELSE peer[o]
  BY <1>a, <1>c, <1>d, OnePeer DEF ConnInv
<1>f. r.connected \in BOOLEAN
  BY <1>c DEF PeerState
<1> HIDE DEF r
<1>1. Typed'
  BY <1>d, <1>e, <1>f DEF ConnInv, Typed, Verack, Accepted, futureVars
<1>2. LoopsAt'
  BY <1>a, <1>d DEF ConnInv, LoopsAt, Verack, Accepted, futureVars
<1>3. (NoOrphan /\ Wakeable)'
  BY <1>a, <1>d, <1>e DEF ConnInv, NoOrphan, Wakeable, Typed, Verack, Accepted, futureVars
<1>4. Shaken'
  BY <1>a, <1>b, <1>c, <1>d, <1>e, ZenonT(60) DEF ConnInv, Shaken
<1>5. Told'
  BY <1>a, <1>b, <1>c, <1>d, <1>e, <1>f DEF ConnInv, Told, ToGreet, Typed
<1> QED  BY <1>1, <1>2, <1>3, <1>4, <1>5 DEF ConnInv

\* Refused preserves the invariant.
LEMMA RefusedStep ==
  ASSUME ConnInv, Refused
  PROVE  ConnInv'
<1>1. Typed'
  BY DEF ConnInv, Typed, PeerState, FutureStep, LoopStep, Refused, Decoding, Disconnect,
     futureVars, Thread
<1>2. LoopsAt'
  BY DEF ConnInv, LoopsAt, Typed, LoopStep, FutureStep, NoOrphan, Refused, Decoding, Disconnect,
     futureVars, Thread
<1>3. (NoOrphan /\ Wakeable)'
  BY DEF ConnInv, NoOrphan, Wakeable, Typed, LoopsAt, PeerState, Refused, Decoding, Disconnect,
     futureVars, Thread
<1>4. Shaken'
  BY DEF ConnInv, Shaken, Typed, LoopsAt, PeerState, Refused, Decoding, Disconnect, futureVars,
     Thread
<1>5. Told'
  BY DEF ConnInv, Told, ToGreet, Typed, LoopsAt, PeerState, Shaken, Refused, Decoding, Disconnect,
     futureVars, Thread
<1> QED  BY <1>1, <1>2, <1>3, <1>4, <1>5 DEF ConnInv

\* EventBan preserves the invariant.
LEMMA EventBanStep ==
  ASSUME ConnInv, EventBan
  PROVE  ConnInv'
<1> DEFINE p == on["event"]
           r == [peer[p] EXCEPT !.ban = @ + Penalty]
<1>1. at["event"] = "ban" /\ p \in Pid /\ UNCHANGED <<fut, outgoing, woken, map, waker>>
  BY DEF EventBan, ConnInv, LoopsAt, Thread, futureVars
<1>2. /\ at' \in [Thread -> LoopStep] /\ on' \in [Thread -> Pid \cup {Nobody}]
      /\ at'["event"] \in {"idle", "remove"} /\ at'["control"] = at["control"] /\ on'["control"] = on["control"]
      /\ at'["event"] = "remove" => on' = on
      /\ at'["event"] = "idle" => on'["event"] = Nobody /\ ~handshake' /\ ~incoming'
      /\ handshake' \in BOOLEAN /\ incoming' \in BOOLEAN /\ got' \in BOOLEAN
  <2>1. CASE Disconnect("event", p)
    BY <1>1, <2>1 DEF Disconnect, ConnInv, Typed, LoopStep, Thread
  <2>2. CASE Idle("event")
    BY <1>1, <2>2 DEF Idle, ConnInv, Typed, LoopStep, Thread
  <2>3. Disconnect("event", p) \/ Idle("event")
    BY DEF EventBan, Then
  <2> QED  BY <2>1, <2>2, <2>3
<1>3. /\ peer' \in [Pid -> PeerState]
      /\ \A q \in Pid : peer'[q].version = peer[q].version /\ peer'[q].connected = peer[q].connected
      /\ \A q \in Pid : peer'[q].said = peer[q].said /\ peer'[q].told = peer[q].told
      /\ \A q \in Pid : peer'[q].lost = peer[q].lost
      /\ \A q \in Pid \ map : peer'[q] = peer[q]
  <2>1. CASE p \notin map
    BY <2>1 DEF EventBan, ConnInv, Typed
  <2>2. CASE p \in map
    <3>1. peer[p] \in PeerState
      BY <1>1 DEF ConnInv, Typed
    <3>0. peer[p].ban + Penalty \in Nat
      BY <3>1, ConnectionsAssumption DEF PeerState
    <3>2. r \in PeerState /\ r.version = peer[p].version /\ r.connected = peer[p].connected
         
      /\ r.said = peer[p].said /\ r.told = peer[p].told /\ r.lost = peer[p].lost
      BY <3>0, <3>1 DEF PeerState
    <3>3. peer' = [peer EXCEPT ![p] = r]
      BY <2>2 DEF EventBan
    <3> HIDE DEF r
    <3> QED  BY <1>1, <2>2, <3>2, <3>3, OnePeer DEF ConnInv
  <2> QED  BY <2>1, <2>2
<1>4. Typed'
  BY <1>1, <1>2, <1>3 DEF ConnInv, Typed
<1>5. LoopsAt'
  BY <1>1, <1>2, ConnectionsAssumption DEF ConnInv, LoopsAt, Thread, Nobody
<1>6. (NoOrphan /\ Wakeable)'
  BY <1>1, <1>3 DEF ConnInv, NoOrphan, Wakeable, Typed
<1>7. Shaken'
  BY <1>1, <1>3 DEF ConnInv, Shaken
<1>8. Told'
  BY <1>1, <1>2, <1>3, SMTT(60) DEF ConnInv, Told, ToGreet, Typed
<1> QED  BY <1>4, <1>5, <1>6, <1>7, <1>8 DEF ConnInv

\* Greet preserves the invariant.
LEMMA GreetStep ==
  ASSUME ConnInv, Greet
  PROVE  ConnInv'
<1>1. Typed'
  BY ZenonT(60) DEF ConnInv, Typed, PeerState, FutureStep, LoopStep, Greet, Hears, Then, Idle, futureVars,
     Thread
<1>2. LoopsAt'
  BY DEF ConnInv, LoopsAt, Typed, LoopStep, FutureStep, Nobody, NoOrphan, Greet, Hears, Then,
     Idle, futureVars, Thread
<1>3. (NoOrphan /\ Wakeable)'
  BY DEF ConnInv, NoOrphan, Wakeable, Typed, LoopsAt, PeerState, Greet, Hears, Then, Idle,
     futureVars, Thread
<1>4. Shaken'
<2> DEFINE p == on["event"]
<2>1. CASE p \notin map
  BY <2>1 DEF ConnInv, Shaken, Greet, Hears, futureVars
<2>2. CASE p \in map
  <3> DEFINE r == [peer[p] EXCEPT !.told = "connected"]
  <3>1. p \in Pid /\ peer[p] \in PeerState
    BY <2>2 DEF ConnInv, Typed
  <3>2. r.version = peer[p].version /\ r.connected = peer[p].connected /\ r.said = peer[p].said
    BY <3>1 DEF PeerState
  <3>3. \A q \in Pid : peer'[q] = IF q = p THEN r ELSE peer[q]
    BY <2>2, <3>1 DEF ConnInv, Typed, Greet, Hears
  <3> HIDE DEF r
  <3> QED  BY <2>2, <3>1, <3>2, <3>3 DEF ConnInv, Shaken, Greet, futureVars
<2> QED  BY <2>1, <2>2
<1>5. Told'
  BY DEF ConnInv, Told, ToGreet, Typed, LoopsAt, PeerState, Shaken, Greet, Hears, Then, Idle,
     futureVars, Thread
<1> QED  BY <1>1, <1>2, <1>3, <1>4, <1>5 DEF ConnInv

\* WakeUp preserves the invariant.
LEMMA WakeUpStep ==
  ASSUME ConnInv, WakeUp
  PROVE  ConnInv'
<1>1. Typed'
  BY ZenonT(60) DEF ConnInv, Typed, PeerState, FutureStep, LoopStep, WakeUp, Then, Idle, Thread
<1>2. LoopsAt'
  BY ConnectionsAssumption DEF ConnInv, LoopsAt, Typed, LoopStep, FutureStep, Nobody, WakeUp,
     Then, Idle, Thread
<1>3. (NoOrphan /\ Wakeable)'
  BY DEF ConnInv, NoOrphan, Wakeable, Typed, LoopsAt, PeerState, WakeUp, Then, Idle, Thread
<1>4. Shaken'
  BY DEF ConnInv, Shaken, Typed, LoopsAt, PeerState, WakeUp, Then, Idle, Thread
<1>5. Told'
  BY SMTT(60) DEF ConnInv, Told, ToGreet, Typed, LoopsAt, PeerState, Shaken, WakeUp, Then, Idle, Thread
<1> QED  BY <1>1, <1>2, <1>3, <1>4, <1>5 DEF ConnInv

\* Dispatch preserves the invariant.
LEMMA DispatchStep ==
  ASSUME ConnInv, Dispatch
  PROVE  ConnInv'
<1> DEFINE p == on["event"]
           what == IF peer[p].told = "nothing" THEN "incoming" ELSE peer[p].told
           r == [peer[p] EXCEPT !.told = what]
<1>1. at["event"] = "dispatch" /\ p \in Pid /\ UNCHANGED <<fut, outgoing, woken, map, waker>>
  BY DEF Dispatch, ConnInv, LoopsAt, Thread, futureVars
<1>2. at' = [at EXCEPT !["event"] = "idle"] /\ on' = [on EXCEPT !["event"] = Nobody]
      /\ ~handshake' /\ ~incoming' /\ handshake' \in BOOLEAN /\ incoming' \in BOOLEAN /\ got' \in BOOLEAN
  BY DEF Dispatch, Then, Idle
<1>3. /\ peer' \in [Pid -> PeerState]
      /\ \A q \in Pid : peer'[q].version = peer[q].version /\ peer'[q].connected = peer[q].connected
      /\ \A q \in Pid : peer'[q].said = peer[q].said /\ peer'[q].lost = peer[q].lost
      /\ \A q \in Pid : peer'[q] = peer[q] \/ (q = p /\ q \in map)
      /\ \A q \in Pid : peer[q].told = "connected" => peer'[q].told = "connected"
  <2>1. CASE p \notin map
    BY <2>1 DEF Dispatch, Hears, ConnInv, Typed
  <2>2. CASE p \in map
    <3>1. peer[p] \in PeerState
      BY <1>1 DEF ConnInv, Typed
    <3>2. what \in {"incoming", "connected"} /\ (peer[p].told = "connected" => what = "connected")
      BY <3>1 DEF PeerState
    <3>3. peer' = [peer EXCEPT ![p] = r]
      BY <2>2 DEF Dispatch, Hears
    <3> HIDE DEF what
    <3>4. r \in PeerState /\ r.version = peer[p].version /\ r.connected = peer[p].connected
         
      /\ r.said = peer[p].said /\ r.told = what /\ r.lost = peer[p].lost
      BY <3>1, <3>2 DEF PeerState
    <3> HIDE DEF r
    <3> QED  BY <1>1, <2>2, <3>2, <3>3, <3>4, OnePeer DEF ConnInv
  <2> QED  BY <2>1, <2>2
<1>4. Typed'
  BY <1>1, <1>2, <1>3 DEF ConnInv, Typed, LoopStep, Thread
<1>5. LoopsAt'
  BY <1>1, <1>2, ConnectionsAssumption DEF ConnInv, Typed, LoopsAt, Thread, Nobody
<1>6. (NoOrphan /\ Wakeable)'
  BY <1>1, <1>3 DEF ConnInv, NoOrphan, Wakeable, Typed
<1>7. Shaken'
  BY <1>1, <1>3 DEF ConnInv, Shaken
<1>8. Told'
  BY <1>1, <1>2, <1>3 DEF ConnInv, Told, ToGreet, Typed, Thread
<1> QED  BY <1>4, <1>5, <1>6, <1>7, <1>8 DEF ConnInv

\* Remove(t) preserves the invariant.
LEMMA RemoveStep ==
  ASSUME ConnInv, NEW t \in Thread, Remove(t)
  PROVE  ConnInv'
<1>1. Typed'
<2>1. Peer_new \in PeerState
  BY NewPeer
<2>2. peer' \in [Pid -> PeerState]
  BY <2>1 DEF ConnInv, Typed, LoopsAt, Remove
<2> QED  BY <2>2 DEF ConnInv, Typed, LoopsAt, LoopStep, Remove, futureVars, Thread
<1>2. LoopsAt'
  BY DEF ConnInv, LoopsAt, Typed, LoopStep, FutureStep, NoOrphan, Remove, Writable, Decoding,
     futureVars, Thread
<1>3. (NoOrphan /\ Wakeable)'
  BY DEF ConnInv, NoOrphan, Wakeable, Typed, LoopsAt, PeerState, Peer_new, Remove, Writable,
     Decoding, futureVars, Thread
<1>4. Shaken'
  BY DEF ConnInv, Shaken, Typed, LoopsAt, PeerState, Peer_new, Remove, Writable, Decoding,
     futureVars, Thread
<1>5. Told'
  BY SMTT(60) DEF ConnInv, Told, ToGreet, Typed, LoopsAt, PeerState, Shaken, Peer_new, Remove, Writable,
     Decoding, futureVars, Thread
<1> QED  BY <1>1, <1>2, <1>3, <1>4, <1>5 DEF ConnInv

\* Wake(t) preserves the invariant.
LEMMA WakeStep ==
  ASSUME ConnInv, NEW t \in Thread, Wake(t)
  PROVE  ConnInv'
<1>1. Typed'
  BY DEF ConnInv, Typed, PeerState, FutureStep, LoopStep, Wake, Idle, Thread
<1>2. LoopsAt'
  BY ConnectionsAssumption DEF ConnInv, LoopsAt, Typed, LoopStep, FutureStep, Nobody, Wake, Idle,
     Thread
<1>3. (NoOrphan /\ Wakeable)'
  BY DEF ConnInv, NoOrphan, Wakeable, Typed, LoopsAt, PeerState, Wake, Idle, Thread
<1>4. Shaken'
  BY DEF ConnInv, Shaken, Typed, LoopsAt, PeerState, Wake, Idle, Thread
<1>5. Told'
  BY DEF ConnInv, Told, ToGreet, Typed, LoopsAt, PeerState, Shaken, Wake, Idle, Thread
<1> QED  BY <1>1, <1>2, <1>3, <1>4, <1>5 DEF ConnInv

\* ListenerEvent preserves the invariant.
LEMMA ListenerEventStep ==
  ASSUME ConnInv, ListenerEvent
  PROVE  ConnInv'
  BY AddPeerStep DEF ListenerEvent

\* Knock(a) preserves the invariant.
LEMMA KnockStep ==
  ASSUME ConnInv, NEW a \in Address, Knock(a)
  PROVE  ConnInv'
<1>1. Typed'
  BY DEF ConnInv, Typed, PeerState, FutureStep, LoopStep, Knock, futureVars, loopVars, Thread
<1>2. LoopsAt'
  BY DEF ConnInv, LoopsAt, Typed, LoopStep, FutureStep, NoOrphan, Knock, futureVars, loopVars,
     Thread
<1>3. (NoOrphan /\ Wakeable)'
  BY DEF ConnInv, NoOrphan, Wakeable, Typed, LoopsAt, PeerState, Knock, futureVars, loopVars,
     Thread
<1>4. Shaken'
  BY DEF ConnInv, Shaken, Typed, LoopsAt, PeerState, Knock, futureVars, loopVars, Thread
<1>5. Told'
  BY DEF ConnInv, Told, ToGreet, Typed, LoopsAt, PeerState, Shaken, Knock, futureVars, loopVars,
     Thread
<1> QED  BY <1>1, <1>2, <1>3, <1>4, <1>5 DEF ConnInv

\* KeepConnected(a) preserves the invariant.
LEMMA KeepConnectedStep ==
  ASSUME ConnInv, NEW a \in Address, KeepConnected(a)
  PROVE  ConnInv'
  BY AddPeerStep DEF KeepConnected

\* KeepIdle preserves the invariant.
LEMMA KeepIdleStep ==
  ASSUME ConnInv, KeepIdle
  PROVE  ConnInv'
  BY UnchangedStep DEF KeepIdle

-----------------------------------------------------------------------------

\* At the start no peer is in the map and both loops are idle.
LEMMA InitConnInv == ConnInit => ConnInv
<1> SUFFICES ASSUME ConnInit PROVE ConnInv
  OBVIOUS
<1>1. Peer_new \in PeerState /\ ~Peer_new.connected
  BY NewPeer
<1>2. Typed
  BY <1>1 DEF ConnInit, Typed, FutureStep, LoopStep
<1>3. LoopsAt
  BY ConnectionsAssumption DEF ConnInit, LoopsAt, Nobody, Thread
<1>4. NoOrphan /\ Wakeable /\ Told
  BY SMTT(60) DEF ConnInit, NoOrphan, Wakeable, Told
<1>5. Shaken
  BY <1>1 DEF ConnInit, Shaken
<1> QED  BY <1>2, <1>3, <1>4, <1>5 DEF ConnInv

\* Every step of the futures, the loops and the surroundings preserves the
\* invariant.
LEMMA NextConnInv == ConnInv /\ [ConnNext]_connVars => ConnInv'
<1> SUFFICES ASSUME ConnInv, [ConnNext]_connVars PROVE ConnInv'
  OBVIOUS
<1>1. ASSUME NEW p \in Pid, Future(p) PROVE ConnInv'
  BY <1>1, CheckStep, AcceptStep, InsertStep, ShakeStep, ParkStep, ExpireStep, LiveStep,
     SettleStep DEF Future
<1>2. ASSUME NEW p \in Pid, TimeUp(p) \/ Established(p) \/ HangUp(p) \/ Readable(p) \/ ControlBan(p)
      PROVE  ConnInv'
  BY <1>2, TimeUpStep, EstablishedStep, HangUpStep, ReadableStep, ControlBanStep
<1>3. CASE Handle
  <2>1. "event" \in Thread
    BY DEF Thread
  <2> QED  BY <1>3, <2>1, ReadsNothingStep, GarbledStep, NoMoreStep, IncomingStep, VersionStep, VerackStep,
              RefusedStep, EventBanStep, GreetStep, WakeUpStep, DispatchStep, RemoveStep, WakeStep DEF Handle
<1>4. CASE Control
  <2>1. "control" \in Thread
    BY DEF Thread
  <2> QED  BY <1>4, <2>1, RemoveStep, WakeStep DEF Control
<1>5. CASE ListenerEvent \/ KeepIdle
  BY <1>5, ListenerEventStep, KeepIdleStep
<1>6. ASSUME NEW a \in Address, Knock(a) \/ KeepConnected(a) PROVE ConnInv'
  BY <1>6, KnockStep, KeepConnectedStep
<1>7. CASE UNCHANGED connVars
  BY <1>7, UnchangedStep
<1> QED  BY <1>1, <1>2, <1>3, <1>4, <1>5, <1>6, <1>7 DEF ConnNext

\* The invariant holds throughout, whatever the futures, the loops, the listener
\* and the remote ends do.
THEOREM ConnInvariance == ConnSafety => []ConnInv
  BY InitConnInv, NextConnInv, PTL DEF ConnSafety

\* No peer stays in the map without a future to remove it: add_peer's map_err and
\* disconnect clean up after every way a connection can fail.
THEOREM NobodyIsOrphaned == ConnSafety => []NoOrphan
<1>1. ConnInv => NoOrphan
  BY DEF ConnInv
<1> QED  BY <1>1, ConnInvariance, PTL

\* The future of a peer in the map has a waker registered or used, though connecting
\* looks at the peer before it registers and disconnect takes the waker.
THEOREM FuturesAreWakeable == ConnSafety => []Wakeable
<1>1. ConnInv => Wakeable
  BY DEF ConnInv
<1> QED  BY <1>1, ConnInvariance, PTL

\* A complete handshake has sent one version and then one verack, for outgoing and
\* incoming connections alike (event_processor, connect).
THEOREM HandshakeIsGreeted == ConnSafety => []Greeted
<1>1. ConnInv => Greeted
  BY DEF ConnInv, Typed, Shaken, Greeted
<1> QED  BY <1>1, ConnInvariance, PTL

\* event_processor reports Connected once and before any message of the peer.
THEOREM ConnectedComesFirst == ConnSafety => []NotifyOrder
<1>1. ConnInv => NotifyOrder
  BY DEF ConnInv, Told, ToGreet, NotifyOrder
<1> QED  BY <1>1, ConnInvariance, PTL

=============================================================================
