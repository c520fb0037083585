------------------------------ MODULE PeerWatch ------------------------------
(***************************************************************************)
(* The threads that watch over peers through the shared Timeout: the       *)
(* header download thread, which asks for headers, and the ping thread     *)
(* (headerdownload.rs, ping.rs); the p2p threads between them and the      *)
(* peers: the event loop, the control loop and the futures that time out   *)
(* a handshake (p2p.rs); the dispatcher; and the peers themselves.         *)
(*                                                                         *)
(*   status    of each peer; the peers in the PeerMap are InMap            *)
(*   hq, pq    messages dispatched to the two threads                      *)
(*   hpc, ppc  what the two threads do next, todo: the peers ping visits   *)
(*   asked     the nonce ping waits for, by peer                           *)
(*   ctl       messages to the control loop                                *)
(*   ev, cv    what the event loop and the control loop do next: messages  *)
(*             to dispatch, or a peer to remove                            *)
(*   dq, dv    messages for the dispatcher, and the one it gave to the      *)
(*             header download thread and not yet to ping                  *)
(*   expiring  handshakes found unfinished when their time was up          *)
(*   owes      requests a peer got and did not answer                      *)
(*   idle      seconds the two threads wait for a message already          *)
(*   talk      messages peers sent, up to Budget (those in Chatty go on)   *)
(*   age       history: seconds since an answer became expected            *)
(***************************************************************************)
EXTENDS Timeout, Sequences, SequencesExt

CONSTANTS
    SECS,        \* seconds without message after which ping checks and asks
    HeaderIdle,  \* the same for the header download thread
    Queue,       \* back pressure: length of the threads' queues
    MaxControl,  \* bound: time passes only while fewer control messages wait
    Budget,      \* bound: messages of the peers
    Chatty,      \* peers who send without such a bound
    Serving      \* peers whose version announces SERVICE_BLOCKS

ASSUME PeerWatchAssumption ==
    /\ Reply = {"Headers", "Pong"}
    /\ {SECS, HeaderIdle, Queue, MaxControl} \subseteq Nat \ {0}
    /\ Budget \in Nat
    /\ Chatty \subseteq Peer /\ Serving \subseteq Peer

VARIABLES status, hq, pq, hpc, ppc, todo, asked, ctl, ev, cv, dq, dv, expiring,
          owes, idle, talk, age

threadVars == <<hpc, ppc, todo, asked>>
netVars == <<status, ev, cv, dq, dv, expiring, owes, talk>>
watchVars == <<timeouts, expected, hq, pq, threadVars, ctl, netVars, idle, age>>

NoNonce == 0
Nonce == 1 .. 7
Nobody == "nobody"
InMap == {p \in Peer : status[p] \in {"connecting", "connected"}}

\* A message or request: kind, peer and, for pings and pongs, a nonce.
M(kind, p, n) == [kind |-> kind, p |-> p, n |-> n]
At(step, p) == [at |-> step, p |-> p]
Waiting == At("wait", Nobody)

Init ==
    /\ TimeoutInit
    /\ status = [p \in Peer |-> "new"]
    /\ hq = <<>> /\ pq = <<>> /\ ctl = <<>>
    /\ hpc = Waiting /\ ppc = Waiting /\ todo = {}
    /\ asked = [p \in Peer |-> NoNonce]
    /\ ev = <<>> /\ cv = <<>> /\ dq = <<>> /\ dv = <<>> /\ expiring = {}
    /\ owes = [p \in Peer |-> {}]
    /\ idle = [h |-> 0, p |-> 0]
    /\ talk = 0
    /\ age = [p \in Peer |-> NoReply]

\* An answer just became expected of p, or is no longer: its age is 0.
Ages ==
    age' = [p \in Peer |-> [k \in Reply |->
               IF expected[p][k] > 0 /\ expected'[p][k] > 0 THEN age[p][k] ELSE 0]]

-----------------------------------------------------------------------------
(***************************************************************************)
(* The header download thread.                                             *)
(***************************************************************************)

\* Take a message; Headers, an Inv of a new block and Connected lead further, if
\* is_serving_blocks finds the peer in the map.
HeaderMessage ==
    /\ hpc = Waiting
    /\ hq # <<>>
    /\ LET m == Head(hq)
       IN  hpc' \in IF m.p \notin InMap \cap Serving THEN {Waiting}
                    ELSE CASE m.kind = "Connected" -> {At("check", m.p)}
                           [] m.kind = "Headers" -> {At("received", m.p)}
                           [] m.kind = "Inv" -> {Waiting, At("check", m.p)}
                           [] OTHER -> {Waiting}
    /\ hq' = Tail(hq)
    /\ UNCHANGED <<timeouts, expected, pq, idle, ppc, todo, asked, ctl, netVars, age>>

\* headers(): no longer expected; then nothing was new, or get_headers follows, or
\* the proof of work was wrong.
HeaderReceived ==
    /\ hpc.at = "received"
    /\ received(hpc.p, 1, "Headers")
    /\ \/ hpc' \in {Waiting, At("check", hpc.p)} /\ UNCHANGED ctl
       \/ hpc' = Waiting /\ ctl' = Append(ctl, M("Ban", hpc.p, NoNonce))
    /\ Ages
    /\ UNCHANGED <<hq, pq, idle, ppc, todo, asked, netVars>>

\* Mutant: ask without looking.
HeaderAskAnyway ==
    /\ hpc.at = "check"
    /\ hpc' = At("ask", hpc.p)
    /\ UNCHANGED <<timeouts, expected, hq, pq, ppc, todo, asked, ctl, netVars, idle, age>>

\* get_headers: look whether the peer is busy ...
HeaderCheckBusy ==
    /\ hpc.at = "check"
    /\ hpc' = IF is_busy_with(hpc.p, "Headers") THEN Waiting ELSE At("ask", hpc.p)
    /\ UNCHANGED <<timeouts, expected, hq, pq, ppc, todo, asked, ctl, netVars, idle, age>>

\* ... and in another critical section, expect the answer; then send.
HeaderAsk ==
    /\ hpc.at = "ask"
    /\ expect(hpc.p, 1, "Headers")
    /\ ctl' = Append(ctl, M("GetHeaders", hpc.p, NoNonce))
    /\ hpc' = Waiting
    /\ Ages
    /\ UNCHANGED <<hq, pq, ppc, todo, asked, netVars, idle>>

Bans(whats) == SetToSeq({M("Ban", p, NoNonce) : p \in TooSlow(whats)})

\* recv_timeout ended without message.
HeaderIdles ==
    /\ hpc = Waiting /\ hq = <<>> /\ idle.h >= HeaderIdle
    /\ check({"Headers"})
    /\ ctl' = ctl \o Bans({"Headers"})
    /\ idle' = [idle EXCEPT !.h = 0]
    /\ Ages
    /\ UNCHANGED <<hq, pq, threadVars, netVars>>

-----------------------------------------------------------------------------
(***************************************************************************)
(* The ping thread.                                                        *)
(***************************************************************************)
PingMessage ==
    /\ ppc = Waiting
    /\ pq # <<>>
    /\ LET m == Head(pq)
       IN  /\ CASE m.kind = "Disconnected" -> forget(m.p)
                [] m.kind = "Pong" /\ asked[m.p] = m.n -> received(m.p, 1, "Pong")
                [] OTHER -> UNCHANGED timeoutVars
           /\ asked' = IF m.kind \in {"Disconnected", "Pong"}
                       THEN [asked EXCEPT ![m.p] = NoNonce] ELSE asked
    /\ pq' = Tail(pq)
    /\ Ages
    /\ UNCHANGED <<hq, idle, hpc, ppc, todo, ctl, netVars>>

\* Mutant: nobody is checked.
PingIdlesUnchecked ==
    /\ ppc = Waiting /\ pq = <<>> /\ idle.p >= SECS
    /\ ppc' = At("peers", Nobody)
    /\ idle' = [idle EXCEPT !.p = 0]
    /\ UNCHANGED <<timeouts, expected, hq, pq, hpc, todo, asked, ctl, netVars, age>>

\* recv_timeout ended without message: check ...
PingIdles ==
    /\ ppc = Waiting /\ pq = <<>> /\ idle.p >= SECS
    /\ check({"Pong"})
    /\ ctl' = ctl \o Bans({"Pong"})
    /\ ppc' = At("peers", Nobody)
    /\ idle' = [idle EXCEPT !.p = 0]
    /\ Ages
    /\ UNCHANGED <<hq, pq, hpc, todo, asked, netVars>>

\* Mutant: only through those asked before.
PingAskedPeers ==
    /\ ppc.at = "peers"
    /\ todo' = {p \in InMap : asked[p] # NoNonce}
    /\ ppc' = At("loop", Nobody)
    /\ UNCHANGED <<timeouts, expected, hq, pq, hpc, asked, ctl, netVars, idle, age>>

\* ... then go through the peers of the moment, connected or not,
PingPeers ==
    /\ ppc.at = "peers"
    /\ todo' = InMap
    /\ ppc' = At("loop", Nobody)
    /\ UNCHANGED <<timeouts, expected, hq, pq, hpc, asked, ctl, netVars, idle, age>>

PingLoopEnds ==
    /\ ppc.at = "loop" /\ todo = {}
    /\ ppc' = Waiting
    /\ UNCHANGED <<timeouts, expected, hq, pq, hpc, todo, asked, ctl, netVars, idle, age>>

PingCheckBusy ==
    /\ ppc.at = "loop"
    /\ \E p \in todo :
          /\ todo' = todo \ {p}
          /\ ppc' = IF is_busy(p) THEN ppc ELSE At("ask", p)
    /\ UNCHANGED <<timeouts, expected, hq, pq, hpc, asked, ctl, netVars, idle, age>>

\* What p may still get or may have answered: next_u64 gives a nonce unlike any.
InFlight(p) ==
    {m \in Range(ctl \o pq \o ev \o dq \o dv) \cup owes[p] : m.p = p}

\* and ping those that were not busy.
PingAsk ==
    /\ ppc.at = "ask"
    /\ LET p == ppc.p
           n == CHOOSE n \in Nonce : \A r \in InFlight(p) : r.n # n
       IN  /\ asked' = [asked EXCEPT ![p] = n]
           /\ expect(p, 1, "Pong")
           /\ ctl' = Append(ctl, M("Ping", p, n))
    /\ ppc' = At("loop", Nobody)
    /\ Ages
    /\ UNCHANGED <<hq, pq, hpc, todo, netVars, idle>>

-----------------------------------------------------------------------------
(***************************************************************************)
(* The p2p threads.  A message for the dispatcher waits, and its thread    *)
(* with it, while the dispatcher's queue is full; and the dispatcher waits *)
(* while the queue of the listener whose turn it is is full.               *)
(***************************************************************************)
send(m) ==
    /\ Len(dq) < Queue
    /\ dq' = Append(dq, m)

DispatchToHeaders ==
    /\ dq # <<>> /\ dv = <<>>
    /\ Len(hq) < Queue
    /\ hq' = Append(hq, Head(dq))
    /\ dv' = <<Head(dq)>>
    /\ dq' = Tail(dq)
    /\ idle' = [idle EXCEPT !.h = 0]
    /\ UNCHANGED <<timeouts, expected, pq, threadVars, ctl, status, ev, cv, expiring, owes, talk, age>>

DispatchToPing ==
    /\ dv # <<>>
    /\ Len(pq) < Queue
    /\ pq' = pq \o dv
    /\ dv' = <<>>
    /\ idle' = [idle EXCEPT !.p = 0]
    /\ UNCHANGED <<timeouts, expected, hq, threadVars, ctl, status, ev, cv, dq, expiring, owes, talk, age>>

add_peer(p) ==
    /\ status[p] = "new"
    /\ status' = [status EXCEPT ![p] = "connecting"]
    /\ UNCHANGED <<timeouts, expected, hq, pq, threadVars, ctl, ev, cv, dq, dv, expiring, owes, talk, idle, age>>

\* The future of connecting is polled when CONNECT_TIMEOUT_SECONDS are over and
\* finds the peer not connected ...
Expire(p) ==
    /\ status[p] = "connecting" /\ p \notin expiring
    /\ expiring' = expiring \cup {p}
    /\ UNCHANGED <<timeouts, expected, hq, pq, threadVars, ctl, status, ev, cv, dq, dv, owes, talk, idle, age>>

RemovePeer(p) ==
    /\ status' = [status EXCEPT ![p] = "gone"]
    /\ owes' = [owes EXCEPT ![p] = {}]

\* ... then map_err removes it, and no message tells of it.
ExpireRemove(p) ==
    /\ p \in expiring
    /\ expiring' = expiring \ {p}
    /\ RemovePeer(p)
    /\ UNCHANGED <<timeouts, expected, hq, pq, threadVars, ctl, ev, cv, dq, dv, talk, idle, age>>

Answer(r) ==
    [r EXCEPT !.kind = CASE @ = "Ping" -> "Pong" [] @ = "GetHeaders" -> "Headers" [] OTHER -> @]

\* The event loop reads from a peer in the map: the end of the handshake and what
\* follows it, several answers at once, anything else (an Inv stands for it) ...
EventRead(p) ==
    /\ ev = <<>>
    /\ p \in InMap
    /\ \E q \in SetToAllKPermutations(owes[p]) \cup {<<M("Inv", p, NoNonce)>>} :
          /\ IF q = <<>> \/ p \in Chatty THEN UNCHANGED talk ELSE talk < Budget /\ talk' = talk + 1
          /\ ev' = (IF status[p] = "connecting" THEN <<M("Connected", p, NoNonce)>> ELSE <<>>)
                      \o [i \in DOMAIN q |-> Answer(q[i])]
          /\ owes' = [owes EXCEPT ![p] = @ \ Range(q)]
    /\ ev' # <<>>
    /\ status' = [status EXCEPT ![p] = "connected"]
    /\ UNCHANGED <<timeouts, expected, hq, pq, threadVars, ctl, cv, dq, dv, expiring, idle, age>>

\* ... or the end of the connection, of which an event may also be left in the
\* batch of events when the peer was removed already.
EventEnd(p) ==
    /\ ev = <<>>
    /\ \/ p \in InMap /\ UNCHANGED talk
       \/ status[p] = "gone" /\ talk < Budget /\ talk' = talk + 1
    /\ ev' = <<M("Disconnected", p, NoNonce)>>
    /\ UNCHANGED <<timeouts, expected, hq, pq, threadVars, ctl, status, cv, dq, dv, expiring, owes, idle, age>>

\* disconnect sends its message before it removes the peer from the map.
AfterSend(ms) ==
    IF Head(ms).kind = "Disconnected" THEN <<M("remove", Head(ms).p, NoNonce)>> ELSE Tail(ms)

EventSend ==
    /\ ev # <<>> /\ Head(ev).kind # "remove"
    /\ send(Head(ev))
    /\ ev' = AfterSend(ev)
    /\ UNCHANGED <<timeouts, expected, hq, pq, threadVars, ctl, status, cv, dv, expiring, owes, talk, idle, age>>

EventRemove ==
    /\ ev # <<>> /\ Head(ev).kind = "remove"
    /\ RemovePeer(Head(ev).p)
    /\ ev' = Tail(ev)
    /\ UNCHANGED <<timeouts, expected, hq, pq, threadVars, ctl, cv, dq, dv, expiring, talk, idle, age>>

\* The control loop: a request goes to the peer, a ban (100 is enough) begins
\* to disconnect it; both only if the peer is still there.
ControlTake ==
    /\ cv = <<>>
    /\ ctl # <<>>
    /\ LET c == Head(ctl)
           there == c.p \in InMap
       IN  /\ cv' = IF there /\ c.kind = "Ban" THEN <<M("Disconnected", c.p, NoNonce)>> ELSE <<>>
           /\ owes' = IF there /\ c.kind # "Ban"
                      THEN [owes EXCEPT ![c.p] = @ \cup {c}] ELSE owes
    /\ ctl' = Tail(ctl)
    /\ UNCHANGED <<timeouts, expected, hq, pq, threadVars, status, ev, dq, dv, expiring, talk, idle, age>>

ControlSend ==
    /\ cv # <<>> /\ Head(cv).kind # "remove"
    /\ send(Head(cv))
    /\ cv' = AfterSend(cv)
    /\ UNCHANGED <<timeouts, expected, hq, pq, threadVars, ctl, status, ev, dv, expiring, owes, talk, idle, age>>

ControlRemove ==
    /\ cv # <<>> /\ Head(cv).kind = "remove"
    /\ RemovePeer(Head(cv).p)
    /\ cv' = Tail(cv)
    /\ UNCHANGED <<timeouts, expected, hq, pq, threadVars, ctl, ev, dq, dv, expiring, talk, idle, age>>

Tick ==
    /\ Len(ctl) < MaxControl
    /\ TimePasses
    /\ idle' = [h |-> IF hpc = Waiting /\ hq = <<>> THEN AtMost(idle.h + 1, HeaderIdle) ELSE 0,
                p |-> IF ppc = Waiting /\ pq = <<>> THEN AtMost(idle.p + 1, SECS) ELSE 0]
    /\ age' = [p \in Peer |-> [k \in Reply |->
                  IF expected[p][k] > 0 THEN AtMost(age[p][k] + 1, TIMEOUT + 1) ELSE 0]]
    /\ UNCHANGED <<expected, hq, pq, threadVars, ctl, netVars>>

-----------------------------------------------------------------------------
HeaderThread == HeaderMessage \/ HeaderReceived \/ HeaderCheckBusy \/ HeaderAsk \/ HeaderIdles
PingThread == PingMessage \/ PingIdles \/ PingPeers \/ PingLoopEnds \/ PingCheckBusy \/ PingAsk
Dispatcher == DispatchToHeaders \/ DispatchToPing
EventLoop == EventSend \/ EventRemove
ControlLoop == ControlTake \/ ControlSend \/ ControlRemove

Next ==
    \/ HeaderThread \/ PingThread \/ Dispatcher \/ EventLoop \/ ControlLoop \/ Tick
    \/ \E p \in Peer : add_peer(p) \/ EventRead(p) \/ EventEnd(p) \/ Expire(p) \/ ExpireRemove(p)

\* Threads run and time passes; what peers send is up to them.
Spec ==
    /\ Init /\ [][Next]_watchVars
    /\ WF_watchVars(HeaderThread) /\ WF_watchVars(PingThread)
    /\ WF_watchVars(Dispatcher) /\ WF_watchVars(EventLoop) /\ WF_watchVars(ControlLoop)
    /\ WF_watchVars(Tick)
    /\ \A p \in Peer : WF_watchVars(Expire(p)) /\ WF_watchVars(ExpireRemove(p))

-----------------------------------------------------------------------------
(***************************************************************************)
(* Properties.                                                             *)
(***************************************************************************)

\* No peer is ever asked for the same thing twice at a time, although busy peers
\* are looked for in one critical section and the answer is expected in another.
OneRequestEach == \A p \in Peer : \A k \in Reply : expected[p][k] <= 1

\* Two kinds of requests share one timeout, yet whoever check finds overdue with an
\* answer has owed that very answer for more than TIMEOUT seconds.
NoEarlyBan ==
    \A p \in Peer : \A k \in Reply :
        timeouts[p] = Overdue /\ expected[p][k] > 0 => age[p][k] > TIMEOUT

\* Why both hold: the timeout of a peer never runs ahead of the youngest answer it
\* owes, and a thread that is about to ask for something knows that it is not owed,
\* although the other thread may have asked for its own in the meanwhile.
WatchInv ==
    /\ TimeoutTypeOK /\ BusyIffOwing /\ OneRequestEach
    /\ age \in [Peer -> [Reply -> 0 .. TIMEOUT + 1]]
    /\ \A p \in Peer : \A k \in Reply :
          expected[p][k] > 0 => age[p][k] + timeouts[p] >= TIMEOUT
    /\ hpc.at = "ask" /\ hpc.p \in Peer => expected[hpc.p]["Headers"] = 0
    /\ ppc.at = "ask" /\ ppc.p \in Peer => expected[ppc.p]["Pong"] = 0

\* Whatever is still dispatched or asked after a peer has gone, its timeout does
\* not stay: PeerIds are never used again, so nobody else would remove it.
GoneForgotten == \A p \in Peer : status[p] = "gone" ~> ~is_busy(p)

\* A peer that stops answering is banned: no order of steps of the threads leaves
\* it connected for ever.
SilentBanned == \A p \in Peer : status[p] = "connected" ~> status[p] = "gone"

\* A peer of whom nothing is asked is pinged (or leaves), as the comment on SECS
\* in ping.rs says.
PingedRegularly ==
    \A p \in Peer : status[p] = "connected" /\ ~is_busy(p) ~> is_busy(p) \/ status[p] = "gone"

=============================================================================
