----------------------------- MODULE Connections -----------------------------
(***************************************************************************)
(* How connections come about, are watched and end: the futures of         *)
(* add_peer, the event loop's handshake, disconnect and ban (p2p.rs), and  *)
(* KeepConnected (constructor.rs).                                         *)
(*                                                                         *)
(* The futures run on a thread pool, the event loop and the control loop   *)
(* on a thread each.  They meet at the peer map (a RwLock), the mutex of a *)
(* peer and the map of wakers.  A step is what happens in one critical     *)
(* section.                                                                *)
(*                                                                         *)
(*   fut      where the future of an id is                                 *)
(*   addr     its address, outgoing: who connects                          *)
(*   map      the ids in the peer map, peer: struct Peer                   *)
(*   waker    the ids with a waker, woken: the tasks to be polled again    *)
(*   due      its time for the handshake is up                             *)
(*   at       what the event loop and the control loop do next, on: to     *)
(*            which id, handshake, incoming: event_processor's local       *)
(*            variables, got: a message was decoded in this event          *)
(*   backlog  addresses that connect to the listener, edge: its event      *)
(*   earlier  addresses KeepConnected remembers                            *)
(*   faults   history: how often a remote end or a connection failed       *)
(***************************************************************************)
EXTENDS Integers, FiniteSets, Sequences

CONSTANTS Pid,             \* ids; one that nothing refers to any more is used again
          Address,
          dns,             \* the addresses KeepConnected chooses from
          Startup,         \* the ids connecting at startup, with their addresses
          min_connections,
          BAN, Penalty,    \* the score to be banned, and for an event that fails
          MaxKnock,        \* bound: connections from outside
          MaxFaults        \* bound: failures of remote ends and connections

ASSUME ConnectionsAssumption ==
  /\ Pid \subseteq Nat \ {0}
  /\ dns \subseteq Address
  /\ DOMAIN Startup \subseteq Pid /\ \A p \in DOMAIN Startup : Startup[p] \in Address
  /\ {BAN, Penalty, min_connections} \subseteq Nat \ {0}
  /\ {MaxKnock, MaxFaults} \subseteq Nat

VARIABLES fut, addr, outgoing, map, peer, waker, woken, due,
          at, on, handshake, incoming, got,
          backlog, edge, knocks, earlier, faults

futureVars == <<fut, addr, outgoing, woken, due>>
loopVars == <<at, on, handshake, incoming, got>>
listenVars == <<backlog, edge, knocks>>
connVars == <<futureVars, map, peer, waker, loopVars, listenVars, earlier, faults>>

Thread == {"event", "control"}
Nobody == 0

\* Peer::new.  History: said, what it was sent of the handshake; told, what the
\* dispatcher heard of it; lost, the event that completed the handshake failed.
Peer_new == [established |-> FALSE, version |-> FALSE, got_verack |-> FALSE,
             connected |-> FALSE, ban |-> 0,
             said |-> << >>, told |-> "nothing", lost |-> FALSE]

anyAddress == CHOOSE a \in Address : TRUE

ConnInit ==
  /\ fut = [p \in Pid |-> IF p \in DOMAIN Startup THEN "check" ELSE "none"]
  /\ addr = [p \in Pid |-> IF p \in DOMAIN Startup THEN Startup[p] ELSE anyAddress]
  /\ outgoing = [p \in Pid |-> TRUE]
  /\ map = {} /\ peer = [p \in Pid |-> Peer_new]
  /\ waker = {} /\ woken = {} /\ due = {}
  /\ at = [t \in Thread |-> "idle"] /\ on = [t \in Thread |-> Nobody]
  /\ handshake = FALSE /\ incoming = FALSE /\ got = FALSE
  /\ backlog = << >> /\ edge = FALSE /\ knocks = 0 /\ earlier = {} /\ faults = 0

\* A connection fails, or its remote end does what it should not.
Fault == faults < MaxFaults /\ faults' = faults + 1

Go(p, step) == fut' = [fut EXCEPT ![p] = step] /\ UNCHANGED <<addr, outgoing, woken>>

\* The future is done and dropped, with the task and what it captured.
Done(p) ==
  /\ fut' = [fut EXCEPT ![p] = "gone"]
  /\ addr' = [addr EXCEPT ![p] = anyAddress]
  /\ outgoing' = [outgoing EXCEPT ![p] = TRUE]
  /\ woken' = woken \ {p}

\* The locks: a future about to register for the handshake reads the map; so does
\* the event loop that decodes, with the mutex of the peer.
Decoding == at["event"] = "decode"
Writable == ~Decoding /\ \A p \in Pid : fut[p] # "park"

-----------------------------------------------------------------------------
(***************************************************************************)
(* Ids and the futures of add_peer.                                        *)
(***************************************************************************)

\* Nothing refers to p: its future is done, or rests where nothing will wake it.
Unused(p) ==
  /\ p \notin map
  /\ p \notin {on[t] : t \in Thread}
  /\ \/ fut[p] \in {"none", "gone"}
     \/ fut[p] = "rest" /\ p \notin woken

\* add_peer: a new id, and its future is spawned.
add_peer(a, out) ==
  /\ \E p \in Pid : Unused(p)
  /\ LET p == CHOOSE q \in Pid : Unused(q) /\ \A r \in Pid : Unused(r) => q <= r
     IN  /\ fut' = [fut EXCEPT ![p] = IF out THEN "check" ELSE "accept"]
         /\ addr' = [addr EXCEPT ![p] = a]
         /\ outgoing' = [outgoing EXCEPT ![p] = out]
         /\ waker' = waker \ {p}
  /\ UNCHANGED <<woken, due>>

\* connect: is a connection to this address in the map, as far as its socket knows?
AlreadyConnected(a) == \E q \in map : peer[q].established /\ addr[q] = a

\* Connecting may fail at once.
Check(p) ==
  /\ fut[p] = "check"
  /\ ~Decoding
  /\ \/ AlreadyConnected(addr[p]) /\ Go(p, "expire") /\ UNCHANGED faults
     \/ ~AlreadyConnected(addr[p]) /\ Go(p, "insert") /\ UNCHANGED faults
     \/ ~AlreadyConnected(addr[p]) /\ Go(p, "expire") /\ Fault
  /\ UNCHANGED <<due, map, peer, waker, loopVars, listenVars, earlier>>

\* accept fails if there is nobody to accept.
Accept(p) ==
  /\ fut[p] = "accept"
  /\ ~Decoding
  /\ IF backlog = << >>
       THEN Go(p, "expire") /\ UNCHANGED backlog
       ELSE /\ fut' = [fut EXCEPT ![p] = IF AlreadyConnected(Head(backlog)) THEN "expire" ELSE "insert"]
            /\ addr' = [addr EXCEPT ![p] = Head(backlog)]
            /\ backlog' = Tail(backlog)
            /\ UNCHANGED <<outgoing, woken>>
  /\ UNCHANGED <<due, map, peer, waker, loopVars, edge, knocks, earlier, faults>>

\* Into the map, registered for events; this node's version is queued first if it
\* connects.  Registering may fail, the last time when the version is queued.
Insert(p) ==
  /\ fut[p] = "insert"
  /\ Writable
  /\ map' = map \cup {p}
  /\ peer' = [peer EXCEPT ![p].established = ~outgoing[p],
                          ![p].said = IF outgoing[p] THEN <<"version">> ELSE << >>]
  /\ \/ fut' = [fut EXCEPT ![p] = "wait"] /\ woken' = woken \cup {p} /\ UNCHANGED <<addr, outgoing, faults>>
     \/ Go(p, "expire") /\ Fault
  /\ UNCHANGED <<due, waker, loopVars, listenVars, earlier>>

\* A task is polled for the first time after Insert, then when it was woken.
Polled(p, step) ==
  /\ fut' = [fut EXCEPT ![p] = step]
  /\ woken' = woken \ {p}
  /\ UNCHANGED <<addr, outgoing>>

\* connecting: poll for the handshake ...
Shake(p) ==
  /\ fut[p] = "wait"
  /\ p \in woken \cup due
  /\ ~(Decoding /\ on["event"] = p)
  /\ IF p \notin map THEN Polled(p, "expire") /\ due' = due \ {p}
     ELSE IF peer[p].connected
       THEN /\ fut' = [fut EXCEPT ![p] = "rest"] /\ woken' = woken \cup {p} /\ due' = due \ {p}
            /\ UNCHANGED <<addr, outgoing>>
       ELSE Polled(p, "park") /\ UNCHANGED due
  /\ UNCHANGED <<map, peer, waker, loopVars, listenVars, earlier, faults>>

\* ... and register the waker, the map still locked; then poll the timer.
Park(p) ==
  /\ fut[p] = "park"
  /\ waker' = waker \cup {p}
  /\ Go(p, IF p \in due THEN "expire" ELSE "wait")
  /\ due' = due \ {p}
  /\ UNCHANGED <<map, peer, loopVars, listenVars, earlier, faults>>

\* Mutant: no timeout.
TimeUpNever(p) == FALSE

\* Time for the handshake is up; only a wake-up that was missed makes that no fault.
TimeUp(p) ==
  /\ fut[p] \in {"park", "wait"}
  /\ p \notin due
  /\ IF fut[p] = "wait" /\ peer[p].connected THEN UNCHANGED faults ELSE Fault
  /\ due' = due \cup {p}
  /\ UNCHANGED <<fut, addr, outgoing, woken, map, peer, waker, loopVars, listenVars, earlier>>

\* Mutant: no map_err.
ExpireInMap(p) ==
  /\ fut[p] = "expire"
  /\ Done(p)
  /\ UNCHANGED <<map, peer, due, waker, loopVars, listenVars, earlier, faults>>

\* map_err: out of the map, if it is there.
Expire(p) ==
  /\ fut[p] = "expire"
  /\ Writable
  /\ map' = map \ {p}
  /\ peer' = [peer EXCEPT ![p] = Peer_new]
  /\ Done(p)
  /\ UNCHANGED <<due, waker, loopVars, listenVars, earlier, faults>>

\* add_peer: poll for the end of the connection, and only then, the map unlocked ...
Live(p) ==
  /\ fut[p] = "rest"
  /\ p \in woken
  /\ IF p \in map THEN Polled(p, "settle") ELSE Done(p)
  /\ UNCHANGED <<due, map, peer, waker, loopVars, listenVars, earlier, faults>>

\* ... register the waker.
Settle(p) ==
  /\ fut[p] = "settle"
  /\ waker' = waker \cup {p}
  /\ Go(p, "rest")
  /\ UNCHANGED <<due, map, peer, loopVars, listenVars, earlier, faults>>

-----------------------------------------------------------------------------
(***************************************************************************)
(* The event loop.                                                         *)
(***************************************************************************)

\* A thread has nothing to do; the event loop's local variables are gone.
Idle(t) ==
  /\ at' = [at EXCEPT ![t] = "idle"]
  /\ on' = [on EXCEPT ![t] = Nobody]
  /\ IF t = "event" THEN handshake' = FALSE /\ incoming' = FALSE /\ got' = FALSE
                    ELSE UNCHANGED <<handshake, incoming, got>>

\* What the event loop does next.
Then(step) ==
  IF step = "idle" THEN Idle("event")
  ELSE at' = [at EXCEPT !["event"] = step] /\ UNCHANGED <<on, handshake, incoming, got>>

\* A thread is to disconnect p.
Disconnect(t, p) ==
  /\ at' = [at EXCEPT ![t] = "remove"]
  /\ on' = [on EXCEPT ![t] = p]
  /\ UNCHANGED <<handshake, incoming, got>>

\* The socket of an outgoing connection is connected.
Established(p) ==
  /\ p \in map
  /\ ~peer[p].established
  /\ peer' = [peer EXCEPT ![p].established = TRUE]
  /\ UNCHANGED <<futureVars, map, waker, loopVars, listenVars, earlier, faults>>

\* An event with hup or error set.
HangUp(p) ==
  /\ at["event"] = "idle"
  /\ p \in map
  /\ Fault
  /\ Disconnect("event", p)
  /\ UNCHANGED <<futureVars, map, peer, waker, listenVars, earlier>>

\* An event with readable set, of a peer in the map: the map is read locked.
Readable(p) ==
  /\ at["event"] = "idle"
  /\ p \in map
  /\ peer[p].established
  /\ at' = [at EXCEPT !["event"] = "decode"]
  /\ on' = [on EXCEPT !["event"] = p]
  /\ UNCHANGED <<futureVars, map, peer, waker, handshake, incoming, got, listenVars, earlier, faults>>

\* Nothing was read: the remote end has closed, or reading failed.
ReadsNothing ==
  LET p == on["event"] IN
  /\ Decoding /\ ~got
  /\ Fault
  /\ Disconnect("event", p)
  /\ UNCHANGED <<futureVars, map, peer, waker, listenVars, earlier>>

\* A message that does not decode ends the event with an error.
Garbled ==
  LET p == on["event"] IN
  /\ Decoding
  /\ Fault
  /\ at' = [at EXCEPT !["event"] = "ban"]
  /\ peer' = [peer EXCEPT ![p].lost = @ \/ handshake]
  /\ UNCHANGED <<futureVars, map, waker, on, handshake, incoming, got, listenVars, earlier>>

\* Mutant: the messages first.
NoMoreDispatch ==
  /\ Decoding
  /\ got
  /\ Then(IF incoming THEN "dispatch" ELSE IF handshake THEN "greet" ELSE "idle")
  /\ UNCHANGED <<futureVars, map, peer, waker, listenVars, earlier, faults>>

\* No further message is complete: the locks are released.
NoMore ==
  /\ Decoding
  /\ got
  /\ Then(IF handshake THEN "greet" ELSE IF incoming THEN "dispatch" ELSE "idle")
  /\ UNCHANGED <<futureVars, map, peer, waker, listenVars, earlier, faults>>

\* After the handshake: messages are kept for the dispatcher.
Incoming ==
  /\ Decoding
  /\ peer[on["event"]].connected
  /\ incoming' = TRUE
  /\ got' = TRUE
  /\ UNCHANGED <<futureVars, map, peer, waker, at, on, handshake, listenVars, earlier, faults>>

\* A message of the handshake is accepted; with both it is complete.
Accepted(p, q) ==
  LET done == q.version /\ q.got_verack IN
  /\ Decoding
  /\ ~peer[p].connected
  /\ peer' = [peer EXCEPT ![p] = [q EXCEPT !.connected = done]]
  /\ handshake' = (handshake \/ done)
  /\ got' = TRUE
  /\ UNCHANGED <<futureVars, map, waker, at, on, incoming, listenVars, earlier, faults>>

\* Mutant: every version.
VersionAgain ==
  LET p == on["event"]
      q == peer[p]
  IN  /\ Decoding
      /\ Accepted(p, [q EXCEPT !.version = TRUE,
                               !.said = q.said \o (IF outgoing[p] THEN <<"verack">> ELSE <<"version", "verack">>)])

\* The first version: answered with this node's, if it was the other to connect,
\* and with verack.
Version ==
  LET p == on["event"]
      q == peer[p]
  IN  /\ Decoding
      /\ ~q.version
      /\ Accepted(p, [q EXCEPT !.version = TRUE,
                               !.said = q.said \o (IF outgoing[p] THEN <<"verack">> ELSE <<"version", "verack">>)])

Verack ==
  LET p == on["event"] IN
  /\ Decoding
  /\ ~peer[p].got_verack
  /\ Accepted(p, [peer[p] EXCEPT !.got_verack = TRUE])

\* Before the handshake is complete: a second version or verack, or any other
\* message; a version with this node's nonce, one too old or without the services
\* needed or, when this node connects, of a node that is behind.
Refused ==
  LET p == on["event"] IN
  /\ Decoding
  /\ ~peer[p].connected
  /\ Fault
  /\ Disconnect("event", p)
  /\ UNCHANGED <<futureVars, map, peer, waker, listenVars, earlier>>

\* poll_events: an event that failed costs the peer Penalty.
EventBan ==
  LET p == on["event"] IN
  /\ at["event"] = "ban"
  /\ IF p \notin map THEN Then("idle") /\ UNCHANGED peer
     ELSE /\ peer' = [peer EXCEPT ![p].ban = @ + Penalty]
          /\ IF peer[p].ban + Penalty >= BAN
               THEN Disconnect("event", p)
               ELSE Then("idle")
  /\ UNCHANGED <<futureVars, map, waker, listenVars, earlier, faults>>

\* The dispatcher hears of p, if it is still there to remember.
Hears(p, what) == peer' = IF p \in map THEN [peer EXCEPT ![p].told = what] ELSE peer

\* connected: tell the dispatcher ...
Greet ==
  /\ at["event"] = "greet"
  /\ Hears(on["event"], "connected")
  /\ Then("wakeup")
  /\ UNCHANGED <<futureVars, map, waker, listenVars, earlier, faults>>

\* Mutant: the waker is taken and not used.
WakeUpSilently ==
  LET p == on["event"] IN
  /\ at["event"] = "wakeup"
  /\ waker' = waker \ {p}
  /\ Then(IF incoming THEN "dispatch" ELSE "idle")
  /\ UNCHANGED <<futureVars, map, peer, listenVars, earlier, faults>>

\* ... and wake the future.
WakeUp ==
  LET p == on["event"] IN
  /\ at["event"] = "wakeup"
  /\ waker' = waker \ {p}
  /\ woken' = IF p \in waker THEN woken \cup {p} ELSE woken
  /\ Then(IF incoming THEN "dispatch" ELSE "idle")
  /\ UNCHANGED <<fut, addr, outgoing, due, map, peer, listenVars, earlier, faults>>

\* The messages go to the dispatcher.
Dispatch ==
  LET p == on["event"] IN
  /\ at["event"] = "dispatch"
  /\ Hears(p, IF peer[p].told = "nothing" THEN "incoming" ELSE peer[p].told)
  /\ Then("idle")
  /\ UNCHANGED <<futureVars, map, waker, listenVars, earlier, faults>>

-----------------------------------------------------------------------------
(***************************************************************************)
(* disconnect, by the event loop or the control loop, and the control loop.*)
(***************************************************************************)

\* The dispatcher hears Disconnected, and the peer leaves the map ...
Remove(t) ==
  /\ at[t] = "remove"
  /\ Writable
  /\ map' = map \ {on[t]}
  /\ peer' = [peer EXCEPT ![on[t]] = Peer_new]
  /\ at' = [at EXCEPT ![t] = "wake"]
  /\ UNCHANGED <<futureVars, waker, on, handshake, incoming, got, listenVars, earlier, faults>>

\* ... and the future is woken.
Wake(t) ==
  /\ at[t] = "wake"
  /\ waker' = waker \ {on[t]}
  /\ woken' = IF on[t] \in waker THEN woken \cup {on[t]} ELSE woken
  /\ Idle(t)
  /\ UNCHANGED <<fut, addr, outgoing, due, map, peer, listenVars, earlier, faults>>

\* A listener has the peer banned for what it said.
ControlBan(p) ==
  /\ at["control"] = "idle"
  /\ p \in map
  /\ peer[p].told # "nothing"
  /\ ~(Decoding /\ on["event"] = p)
  /\ Fault
  /\ peer' = [peer EXCEPT ![p].ban = @ + BAN]
  /\ Disconnect("control", p)
  /\ UNCHANGED <<futureVars, map, waker, listenVars, earlier>>

-----------------------------------------------------------------------------
(***************************************************************************)
(* The listener and KeepConnected.                                         *)
(***************************************************************************)

\* Somebody connects to the listener, registered for edge triggered events.
Knock(a) ==
  /\ knocks < MaxKnock
  /\ knocks' = knocks + 1
  /\ backlog' = Append(backlog, a)
  /\ edge' = TRUE
  /\ UNCHANGED <<futureVars, map, peer, waker, loopVars, earlier, faults>>

\* poll_events: one event of the listener, one future that accepts.
ListenerEvent ==
  /\ at["event"] = "idle"
  /\ edge
  /\ edge' = FALSE
  /\ add_peer(anyAddress, FALSE)
  /\ UNCHANGED <<map, peer, loopVars, backlog, knocks, earlier, faults>>

\* Mutant: KeepConnected itself is polled, not a clone of it, and remembers.
KeepRemembering(a) ==
  /\ Cardinality(map) < min_connections
  /\ a \in dns \ earlier
  /\ earlier' = earlier \cup {a}
  /\ add_peer(a, TRUE)
  /\ UNCHANGED <<map, peer, loopVars, listenVars, faults>>

\* KeepConnected, each time the interval has passed.  A clone of it is polled: what
\* it adds to earlier is forgotten.
KeepConnected(a) ==
  /\ Cardinality(map) < min_connections
  /\ a \in dns \ earlier
  /\ add_peer(a, TRUE)
  /\ UNCHANGED <<map, peer, loopVars, listenVars, earlier, faults>>

\* There are connections enough, or no address to choose.
KeepIdle ==
  /\ Cardinality(map) >= min_connections \/ dns \subseteq earlier
  /\ UNCHANGED connVars

-----------------------------------------------------------------------------

Future(p) ==
  \/ Check(p) \/ Accept(p) \/ Insert(p)
  \/ Shake(p) \/ Park(p) \/ Expire(p)
  \/ Live(p) \/ Settle(p)

\* What the event loop does once it has an event.
Handle ==
  \/ ReadsNothing \/ Garbled \/ NoMore \/ Incoming \/ Version \/ Verack \/ Refused
  \/ EventBan \/ Greet \/ WakeUp \/ Dispatch
  \/ Remove("event") \/ Wake("event")

Control == Remove("control") \/ Wake("control")

ConnNext ==
  \/ \E p \in Pid : Future(p) \/ TimeUp(p) \/ Established(p) \/ HangUp(p) \/ Readable(p) \/ ControlBan(p)
  \/ Handle \/ Control \/ ListenerEvent \/ KeepIdle
  \/ \E a \in Address : Knock(a) \/ KeepConnected(a)

ConnSafety == ConnInit /\ [][ConnNext]_connVars

\* The pool polls every task that can go on, timers fire and both loops run: a
\* thread that waits for a lock which is free again and again gets it.  Connections
\* are established and the messages of the handshake arrive, each in the end;
\* KeepConnected chooses at random, so that no address is left out for good.
ConnSpec ==
  /\ ConnSafety
  /\ \A p \in Pid :
       /\ SF_connVars(Future(p))
       /\ WF_connVars(Established(p))
       /\ WF_connVars(TimeUp(p))
       /\ SF_connVars(~peer[p].connected /\ Readable(p))
  /\ WF_connVars(Handle)
  /\ SF_connVars(Control)
  /\ \A a \in dns : SF_connVars(KeepConnected(a))

-----------------------------------------------------------------------------

\* Nobody is in the map without a future that looks after them: not after a failed
\* connect, a handshake that timed out, nor one who was disconnected meanwhile.
NoOrphan == \A p \in map : fut[p] \in {"park", "wait", "expire", "settle", "rest"}

\* A future that waits for its peer, in the map, will hear of it: its waker is
\* registered or has been used, though the handshake and the timer race for it;
\* only while waiting for the handshake may it have missed the wake-up, and then
\* the handshake is complete and the timer helps.
Wakeable ==
  \A p \in map :
    /\ fut[p] = "wait" => p \in waker \cup woken \/ peer[p].connected
    /\ fut[p] = "rest" => p \in waker \cup woken

\* The dispatcher hears Connected once, and before any message, as long as the peer
\* is there and unless the event that completed the handshake failed.
NotifyOrder ==
  LET p == on["event"] IN
  p \in map => /\ at["event"] = "greet" => peer[p].told = "nothing"
               /\ at["event"] = "dispatch" => peer[p].told = "connected" \/ peer[p].lost

\* When the handshake is complete, the peer was sent one version and then one
\* verack, whoever connected and in whichever order its own messages came.
Greeted == \A p \in map : peer[p].connected => peer[p].said = <<"version", "verack">>

\* The handshake of a peer ends one way or the other, wake-up missed or not.
HandshakeEnds ==
  \A p \in Pid : fut[p] = "insert" ~> fut[p] \in {"rest", "gone"}

\* "keep connections with at least this number of peers" (Constructor::run): as
\* long as there are enough addresses that answer, the node ends up connected to
\* min_connections peers, whatever the others do.
Maintained == <>[](Cardinality({p \in map : peer[p].connected}) >= min_connections)

\* "remove from peers before waking up, so disconnect is recognized" (disconnect):
\* a future that rests after its peer left the map is woken, or about to be.
DisconnectRecognized ==
  \A p \in Pid : fut[p] = "rest" /\ p \notin map =>
    \/ p \in woken
    \/ p \in waker /\ \E t \in Thread : on[t] = p /\ at[t] \in {"remove", "wake"}

=============================================================================
