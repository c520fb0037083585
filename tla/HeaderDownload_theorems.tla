---------------------- MODULE HeaderDownload_theorems ----------------------
(***************************************************************************)
(* The node gets what its peers have.  Nothing is lost between a node that *)
(* asks only peers that owe no answer, and a peer that announces a tip     *)
(* only once: as long as the tip of a peer is not known there is a request *)
(* or a message on its way, or handled, that will lead to it.              *)
(***************************************************************************)
EXTENDS HeaderDownload_proofs

\* The tip of p's chain.
TipOf(p) == Tips[p][grown[p]]

\* The headers messages.
HeadersMessage == {m \in Message : m.kind = "Headers"}

\* The messages that end with the tip of p, or make the node ask again.
Fresh(p) ==
    {m \in HeadersMessage :
        \/ TipOf(p) \in Known
        \/ m.headers # <<>> /\ Last(m.headers) = TipOf(p)
        \/ Len(m.headers) = MAX_HEADERS}

\* Among the messages s is one of F, or a headers message before an x.
Awaits(s, F, x) ==
    \E i \in 1 .. Len(s) :
        \/ s[i] \in F
        \/ s[i] \in HeadersMessage /\ \E j \in 1 .. Len(s) : i < j /\ s[j] = x

\* What p was asked, or its answer, is on its way; if the answer is older than the
\* tip of p then the announcement of the tip follows it.
Answered(p) == req[p] # <<>> \/ Awaits(out[p], Fresh(p), Inv(TipOf(p)))

\* A message on its way will make the node ask.
Prompted(p) == \E i \in 1 .. Len(out[p]) : out[p][i] \in {Connected, Inv(TipOf(p))}

\* The message that is handled ends with the tip of p, or has something new.
Led(p) ==
    \/ pc.queue # <<>> /\ Last(pc.queue) = TipOf(p)
    \/ pc.peer = p /\ (pc.some_new \/ \E h \in Range(pc.queue) : h \notin Known)

\* The tip of p is known, or there is something that leads to it.
Underway(p) == TipOf(p) \in Known \/ Answered(p) \/ Prompted(p) \/ Led(p)

\* What holds of a peer that is connected.
PeerSync(p) == (p \in asked => Answered(p)) /\ Underway(p)

\* Locators of headers the node knows.
Locator == UNION {[D -> Known] : D \in SUBSET Nat}

\* The inductive invariant, of a node that lost no header to a failed write.
SyncInv ==
    ~cut =>
      /\ live \subseteq Peer
      /\ req \in [Peer -> Seq(Locator)]
      /\ pc.at = "wait" => pc = Waiting
      /\ pc.at = "finish" => pc.queue = <<>>
      /\ phase = "down" => /\ asked = {} /\ req = [p \in Peer |-> <<>>]
                           /\ \A p \in live : out[p] = <<Connected>>
      /\ \A p \in live : PeerSync(p)

\* A message that comes later changes nothing of what is awaited.
LEMMA AwaitsAppend ==
    ASSUME NEW s \in Seq(Message), NEW m \in Message, NEW F, NEW x, Awaits(s, F, x)
    PROVE  Awaits(Append(s, m), F, x)
<1>1. /\ Len(s) \in Nat /\ Len(Append(s, m)) = Len(s) + 1
      /\ \A i \in 1 .. Len(s) : i \in 1 .. Len(s) + 1 /\ Append(s, m)[i] = s[i]
  BY Appended
<1> QED BY <1>1 DEF Awaits

\* Nor does it if the message at the head is taken and is no headers message.
LEMMA AwaitsTail ==
    ASSUME NEW s \in Seq(Message), s # <<>>, Head(s) \notin HeadersMessage,
           NEW F, F \subseteq HeadersMessage, NEW x, Awaits(s, F, x)
    PROVE  Awaits(Tail(s), F, x)
<1>1. /\ Len(s) \in Nat /\ Len(Tail(s)) = Len(s) - 1 /\ s[1] = Head(s)
      /\ \A i \in 1 .. Len(s) - 1 : Tail(s)[i] = s[i + 1]
  BY HeadTail
<1>2. PICK i \in 1 .. Len(s) :
         s[i] \in F \/ (s[i] \in HeadersMessage /\ \E j \in 1 .. Len(s) : i < j /\ s[j] = x)
  BY DEF Awaits
<1>3. /\ i # 1 /\ i - 1 \in 1 .. Len(s) - 1 /\ Tail(s)[i - 1] = s[i]
  BY <1>1, <1>2
<1>4. ASSUME NEW j \in 1 .. Len(s), i < j, s[j] = x
      PROVE  \E k \in 1 .. Len(s) - 1 : i - 1 < k /\ Tail(s)[k] = x
  <2>1. j - 1 \in 1 .. Len(s) - 1 /\ i - 1 < j - 1 /\ Tail(s)[j - 1] = s[j]
    BY <1>1, <1>3, <1>4
  <2> QED BY <1>4, <2>1
<1> QED BY <1>1, <1>2, <1>3, <1>4, Zenon DEF Awaits

\* Whatever is awaited comes before what is announced next.
LEMMA AwaitsNext ==
    ASSUME NEW s \in Seq(Message), NEW F, F \subseteq HeadersMessage, NEW x, Awaits(s, F, x),
           NEW G, NEW y \in Message
    PROVE  Awaits(Append(s, y), G, y)
<1>1. /\ Len(s) \in Nat /\ Len(Append(s, y)) = Len(s) + 1 /\ Append(s, y)[Len(s) + 1] = y
      /\ \A i \in 1 .. Len(s) : i \in 1 .. Len(s) + 1 /\ i < Len(s) + 1 /\ Append(s, y)[i] = s[i]
  BY Appended
<1>2. PICK i \in 1 .. Len(s) : s[i] \in HeadersMessage
  BY DEF Awaits
<1>3. Len(s) + 1 \in 1 .. Len(s) + 1
  BY <1>1
<1> QED BY <1>1, <1>2, <1>3 DEF Awaits

\* An answer to a locator of known ids ends with the tip of the peer or is full, if
\* the tip is not known.
LEMMA FollowingReaches ==
    ASSUME NEW chain \in Seq(Hash), chain # <<>>, chain[1] \in Known, NEW locator \in Locator
    PROVE  LET hs == Following(chain, locator)
               t == chain[Len(chain)]
           IN  \/ t \in Known
               \/ hs # <<>> /\ Last(hs) = t
               \/ Len(hs) = MAX_HEADERS
<1> DEFINE on == {i \in DOMAIN locator : locator[i] \in Range(chain)}
           I == {1} \cup {i \in 1 .. Len(chain) : on # {} /\ chain[i] = locator[Min(on)]}
           from == Max(I)
           last == Min({Len(chain), from + MAX_HEADERS})
<1>1. Following(chain, locator) = SubSeq(chain, from + 1, last)
  BY DEF Following
<1>2. Len(chain) \in Nat /\ Len(chain) >= 1 /\ \A i \in 1 .. Len(chain) : chain[i] \in Hash
  BY EmptySeq, SeqElement
<1>3. \A i \in I : i \in 1 .. Len(chain) /\ chain[i] \in Known
  <2>1. on \in SUBSET Nat /\ \A i \in on : locator[i] \in Known
    BY DEF Locator
  <2>2. on # {} => locator[Min(on)] \in Known
    <3> HIDE DEF on
    <3> QED BY <2>1, MinNat, Zenon
  <2> HIDE DEF on
  <2> QED BY <1>2, <2>2
<1>4. from \in I
  <2>1. I \in SUBSET (0 .. Len(chain)) /\ I # {}
    <3>1. 1 \in I
      OBVIOUS
    <3> HIDE DEF I
    <3> QED BY <1>2, <1>3, <3>1
  <2> HIDE DEF I
  <2> QED BY <1>2, <2>1, MaxNat, Zenon
<1>5. from \in 1 .. Len(chain) /\ chain[from] \in Known
  <2> HIDE DEF I, from
  <2> QED BY <1>3, <1>4
<1> HIDE DEF from
<1>6. last \in {Len(chain), from + MAX_HEADERS} /\ last <= Len(chain)
  <2> DEFINE S == {Len(chain), from + MAX_HEADERS}
  <2>1. S \in SUBSET Nat /\ S # {} /\ Len(chain) \in S
    BY <1>2, <1>5, DownloadAssumption
  <2>2. Min(S) \in S /\ \A k \in S : Min(S) <= k
    <3> HIDE DEF S
    <3> QED BY <2>1, MinNat
  <2> QED BY <2>1, <2>2
<1> HIDE DEF last
<1>7. CASE from = Len(chain)
  BY <1>5, <1>7
<1>8. CASE from # Len(chain)
  <2>1. from + 1 \in Int /\ last \in Int /\ from + 1 <= last /\ last <= Len(chain)
    BY <1>2, <1>5, <1>6, <1>8, DownloadAssumption
  <2>2. \A i \in from + 1 .. last : chain[i] \in Hash
    BY <1>2, <1>5, <2>1
  <2> DEFINE hs == SubSeq(chain, from + 1, last)
  <2>3. /\ hs \in Seq(Hash) /\ Len(hs) = last - from
        /\ \A i \in 1 .. last - from : hs[i] = chain[from + i]
    <3>1. /\ hs \in Seq(Hash)
          /\ Len(hs) = IF from + 1 <= last THEN last - (from + 1) + 1 ELSE 0
          /\ \A i \in 1 .. last - (from + 1) + 1 : hs[i] = chain[(from + 1) + i - 1]
      BY <2>1, <2>2, PartOfSeq
    <3> HIDE DEF hs
    <3> QED BY <1>2, <1>5, <2>1, <3>1
  <2> HIDE DEF hs
  <2>4. CASE last = Len(chain)
    <3>1. Len(hs) \in 1 .. last - from /\ from + Len(hs) = Len(chain)
      BY <1>2, <1>5, <2>1, <2>3, <2>4
    <3>2. hs # <<>> /\ Last(hs) = chain[Len(chain)]
      BY <2>3, <3>1, EmptySeq DEF Last
    <3> QED BY <1>1, <3>2 DEF hs
  <2>5. CASE last = from + MAX_HEADERS
    <3>1. Len(hs) = MAX_HEADERS
      BY <1>5, <2>3, <2>5, DownloadAssumption
    <3> QED BY <1>1, <3>1, Zenon DEF hs
  <2> QED BY <1>6, <2>4, <2>5
<1> QED BY <1>7, <1>8

\* So is the answer of a peer that is asked.
LEMMA AnswerIsFresh ==
    ASSUME DownloadInv, Genesis \in Known, NEW p \in Peer, NEW locator \in Locator
    PROVE  Headers(Following(ChainTo[TipOf(p)], locator)) \in Fresh(p)
<1> DEFINE chain == ChainTo[TipOf(p)]
           hs == Following(chain, locator)
<1>1. grown[p] \in 1 .. Len(Tips[p])
  BY DEF DownloadInv
<1>2. /\ chain \in Seq(Hash) /\ chain # <<>>
      /\ \E c \in Chains : chain = Reverse(c) /\ c[1] = TipOf(p) /\ Last(c) = Genesis
  BY <1>1, ServedChain, Zenon DEF TipOf
<1>3. PICK c \in Chains : chain = Reverse(c) /\ c[1] = TipOf(p) /\ Last(c) = Genesis
  BY <1>2
<1> HIDE DEF chain
<1>4. chain[1] = Genesis /\ chain[Len(chain)] = TipOf(p)
  <2>1. c \in Seq(Hash) /\ Len(c) \in Nat /\ Len(c) >= 1
    BY ChainProperties, PeriodAssumption
  <2>2. Len(chain) = Len(c) /\ \A i \in 1 .. Len(c) : chain[i] = c[(Len(c) - i) + 1]
    BY <1>3, <2>1, ReverseProperties
  <2> QED BY <1>3, <2>1, <2>2 DEF Last
<1>5. hs \in Seq(Hash)
  BY <1>2, FollowingType
<1>6. TipOf(p) \in Known \/ (hs # <<>> /\ Last(hs) = TipOf(p)) \/ Len(hs) = MAX_HEADERS
  BY <1>2, <1>4, FollowingReaches
<1> HIDE DEF hs
<1>7. Headers(hs).headers = hs /\ Headers(hs) \in HeadersMessage
  BY <1>5 DEF Headers, HeadersMessage, Message
<1>8. Headers(hs) \in Fresh(p)
  BY <1>6, <1>7 DEF Fresh
<1> QED BY <1>8 DEF hs, chain

\* What the node asks with is known.
LEMMA LocatorIsKnown ==
    ASSUME CacheOK
    PROVE  locator_hashes \in Locator
<1> DEFINE distance(k) == IF k <= DENSE + 1 THEN k - 1 ELSE DENSE + 2 ^ (k - DENSE - 1) - 1
           D == {k \in 1 .. Len(trunk) : distance(k) \in 0 .. Len(trunk) - 1}
<1>1. locator_hashes = [k \in D |-> trunk[Len(trunk) - distance(k)]]
  BY DEF locator_hashes
<1>2. D \in SUBSET Nat /\ \A k \in D : distance(k) \in 0 .. Len(trunk) - 1
  OBVIOUS
<1> HIDE DEF D, distance
<1>3. \A k \in D : trunk[Len(trunk) - distance(k)] \in Known
  <2>1. trunk \in Seq(Known) /\ Len(trunk) \in Nat
    BY DEF CacheOK
  <2> SUFFICES ASSUME NEW k \in D PROVE trunk[Len(trunk) - distance(k)] \in Known
    OBVIOUS
  <2>2. Len(trunk) - distance(k) \in 1 .. Len(trunk)
    BY <1>2, <2>1
  <2> QED BY <2>1, <2>2, SeqElement
<1>4. locator_hashes \in [D -> Known]
  BY <1>1, <1>3
<1> QED BY <1>2, <1>4 DEF Locator

\* Headers stay known as long as the process runs, and with them what was good for
\* a peer.
LEMMA KnownGrows ==
    ASSUME Known \subseteq Known', NEW p, grown'[p] = grown[p]
    PROVE  /\ TipOf(p)' = TipOf(p) /\ Fresh(p) \subseteq Fresh(p)'
           /\ \A s : Awaits(s, Fresh(p), Inv(TipOf(p))) => Awaits(s, Fresh(p)', Inv(TipOf(p)))
<1>1. TipOf(p)' = TipOf(p)
  BY DEF TipOf
<1>2. Fresh(p) \subseteq Fresh(p)'
  BY <1>1, Zenon DEF Fresh
<1> QED BY <1>1, <1>2, Zenon DEF Awaits

\* So are the ids of a locator.
LEMMA LocatorsGrow ==
    ASSUME Known \subseteq Known', req \in [Peer -> Seq(Locator)], req' = req
    PROVE  req' \in [Peer -> Seq(Locator')]
<1>1. Locator \subseteq Locator'
  <2> SUFFICES ASSUME NEW f \in Locator PROVE f \in Locator'
    OBVIOUS
  <2>1. PICK D \in SUBSET Nat : f \in [D -> Known]
    BY DEF Locator
  <2>2. f \in [D -> Known']
    BY <2>1
  <2> QED BY <2>2 DEF Locator
<1>2. \A p \in Peer : req[p] \in Seq(Locator')
  BY <1>1, SeqGrows, Zenon
<1> QED BY <1>2

\* A thread that waits leads to nothing.
LEMMA WaitingLeadsNowhere ==
    ASSUME pc = Waiting, NEW p
    PROVE  ~Led(p)
<1>1. pc.queue = <<>> /\ ~pc.some_new
  BY DEF Waiting, Frame
<1>2. Range(<<>>) = {}
  BY DEF Range
<1> QED BY <1>1, <1>2 DEF Led

\* A step that has nothing to do with a peer.
LEMMA PeerKept ==
    ASSUME NEW p, PeerSync(p), Known \subseteq Known',
           out'[p] = out[p], req'[p] = req[p], grown'[p] = grown[p],
           p \in asked' => p \in asked, Led(p) => Led(p)'
    PROVE  PeerSync(p)'
<1>1. /\ TipOf(p)' = TipOf(p)
      /\ \A s : Awaits(s, Fresh(p), Inv(TipOf(p))) => Awaits(s, Fresh(p)', Inv(TipOf(p)))
  BY KnownGrows
<1>2. Answered(p) => Answered(p)'
  BY <1>1, Zenon DEF Answered
<1>3. Prompted(p) => Prompted(p)'
  BY <1>1 DEF Prompted
<1> QED BY <1>1, <1>2, <1>3 DEF PeerSync, Underway

\* A request, unless the peer owes an answer already: in any case one is on its way.
LEMMA AskIsAnswered ==
    ASSUME req \in [Peer -> Seq(Locator)], CacheOK, live \subseteq Peer, NEW p, get_headers(p),
           UNCHANGED <<headers, live, grown>>, p \in live => PeerSync(p),
           p \in live /\ Awaits(out[p], Fresh(p), Inv(TipOf(p))) =>
               Awaits(out'[p], Fresh(p), Inv(TipOf(p)))
    PROVE  /\ p \in live => PeerSync(p)'
           /\ \A q \in live : q # p => req'[q] = req[q] /\ (q \in asked' => q \in asked)
           /\ req' \in [Peer -> Seq(Locator')]
<1>1. Known' = Known /\ Locator' = Locator
  BY DEF Known, Locator
<1>2. /\ TipOf(p)' = TipOf(p)
      /\ \A s : Awaits(s, Fresh(p), Inv(TipOf(p))) => Awaits(s, Fresh(p)', Inv(TipOf(p)))
  BY <1>1, KnownGrows
<1>3. CASE p \in asked
  <2>1. asked' = asked /\ req' = req
    BY <1>3 DEF get_headers
  <2>2. p \in live => Answered(p)'
    BY <1>2, <1>3, <2>1, Zenon DEF PeerSync, Answered
  <2> QED BY <1>1, <2>1, <2>2 DEF PeerSync, Underway
<1>4. CASE p \notin asked
  <2>1. /\ asked' = asked \cup {p}
        /\ req' = IF p \in live THEN [req EXCEPT ![p] = Append(@, locator_hashes)] ELSE req
    BY <1>4, Zenon DEF get_headers
  <2>2. CASE p \in live
    <3>1. locator_hashes \in Locator
      BY LocatorIsKnown
    <3>2. req[p] \in Seq(Locator) /\ p \in Peer
      BY <2>2
    <3> DEFINE r == Append(req[p], locator_hashes)
    <3>3. r \in Seq(Locator) /\ r # <<>>
      BY <3>1, <3>2, Appended
    <3>4. req' = [req EXCEPT ![p] = r]
      BY <2>1, <2>2
    <3> HIDE DEF r
    <3>5. /\ req' \in [Peer -> Seq(Locator)] /\ req'[p] # <<>>
          /\ \A q \in live : q # p => req'[q] = req[q]
      BY <3>2, <3>3, <3>4
    <3> QED BY <1>1, <2>1, <3>5 DEF PeerSync, Underway, Answered
  <2>3. CASE p \notin live
    BY <1>1, <2>1, <2>3
  <2> QED BY <2>2, <2>3
<1> QED BY <1>3, <1>4

\* run takes a message that is no headers message: it asks, or knows what is announced.
LEMMA TakeSync ==
    ASSUME DownloadInv, TypeOK, SyncInv, ~cut, NEW p \in Peer, HandleConnected(p) \/ inv(p)
    PROVE  SyncInv'
<1>1. /\ phase = "up" /\ pc.at = "wait" /\ p \in live /\ out[p] # <<>>
      /\ out' = [out EXCEPT ![p] = Tail(@)]
      /\ UNCHANGED <<headers, trunk, phase, live, grown, cut, pc>>
      /\ \/ Head(out[p]).kind = "Connected" /\ get_headers(p)
         \/ /\ Head(out[p]).kind = "Inv" /\ Head(out[p]).hash \in Known
            /\ UNCHANGED <<asked, req>>
         \/ Head(out[p]).kind = "Inv" /\ get_headers(p)
  BY Zenon DEF HandleConnected, inv, Take, chainVars, ghosts
<1>2. /\ live \subseteq Peer /\ req \in [Peer -> Seq(Locator)] /\ pc = Waiting
      /\ \A q \in live : PeerSync(q)
  BY <1>1, Zenon DEF SyncInv
<1>3. CacheOK /\ Known' = Known /\ Locator' = Locator
  BY <1>1 DEF TypeOK, CacheOK, Known, Locator
<1>4. /\ out[p] \in Seq(Message) /\ Head(out[p]) \in Message /\ Head(out[p]) \notin HeadersMessage
      /\ out'[p] = Tail(out[p])
      /\ \A q \in live : q # p => out'[q] = out[q]
  <2>1. out \in [Peer -> Seq(Message)]
    BY DEF DownloadInv
  <2>2. out[p] \in Seq(Message) /\ Head(out[p]) \in Message
    BY <1>1, <2>1, HeadTail
  <2> QED BY <1>1, <1>2, <2>1, <2>2 DEF HeadersMessage
<1>5. Fresh(p) \subseteq HeadersMessage
  BY DEF Fresh
<1>6. Awaits(out[p], Fresh(p), Inv(TipOf(p))) => Awaits(out'[p], Fresh(p), Inv(TipOf(p)))
  BY <1>1, <1>4, <1>5, AwaitsTail
<1>7. /\ PeerSync(p)'
      /\ \A q \in live : q # p => req'[q] = req[q] /\ (q \in asked' => q \in asked)
      /\ req' \in [Peer -> Seq(Locator')]
  <2>1. CASE get_headers(p)
    BY <1>1, <1>2, <1>3, <1>6, <2>1, AskIsAnswered
  <2>2. CASE /\ Head(out[p]).kind = "Inv" /\ Head(out[p]).hash \in Known
             /\ UNCHANGED <<asked, req>>
    <3>1. /\ TipOf(p)' = TipOf(p)
          /\ \A s : Awaits(s, Fresh(p), Inv(TipOf(p))) => Awaits(s, Fresh(p)', Inv(TipOf(p)))
      BY <1>1, <1>3, KnownGrows
    <3>2. Answered(p) => Answered(p)'
      BY <1>6, <2>2, <3>1, Zenon DEF Answered
    <3>3. Prompted(p) => Prompted(p)' \/ TipOf(p) \in Known
      <4> SUFFICES ASSUME NEW i \in 1 .. Len(out[p]), out[p][i] \in {Connected, Inv(TipOf(p))}
                   PROVE  Prompted(p)' \/ TipOf(p) \in Known
        BY DEF Prompted
      <4>0. out[p] \in Seq(Message) /\ out[p] # <<>> /\ out'[p] = Tail(out[p])
        BY <1>1, <1>4
      <4>1. /\ out[p][1] = Head(out[p]) /\ Len(out[p]) \in Nat
            /\ Len(out'[p]) = Len(out[p]) - 1
            /\ \A j \in 1 .. Len(out[p]) - 1 : out'[p][j] = out[p][j + 1]
        BY <4>0, HeadTail
      <4>2. CASE i = 1
        BY <2>2, <4>1, <4>2 DEF Connected, Inv
      <4>3. CASE i # 1
        <5>1. i - 1 \in 1 .. Len(out'[p]) /\ out'[p][i - 1] = out[p][i]
          BY <4>1, <4>3
        <5> QED BY <3>1, <5>1 DEF Prompted
      <4> QED BY <4>2, <4>3
    <3>4. ~Led(p)
      BY <1>2, WaitingLeadsNowhere
    <3> QED BY <1>2, <1>3, <2>2, <3>1, <3>2, <3>3, <3>4, <1>1, Zenon DEF PeerSync, Underway
  <2> QED BY <1>1, <2>1, <2>2
<1>8. ASSUME NEW q \in live PROVE PeerSync(q)'
  <2>1. CASE q # p
    BY <1>1, <1>2, <1>3, <1>4, <1>7, <2>1, PeerKept, WaitingLeadsNowhere
  <2> QED BY <1>7, <2>1
<1> QED BY <1>1, <1>2, <1>7, <1>8, Zenon DEF SyncInv

\* headers() begins with a message: if it was to lead to the tip of the peer, it still is.
LEMMA ReceiveSync ==
    ASSUME DownloadInv, SyncInv, FullMessageHelps, ~cut, NEW p \in Peer, ReceiveHeaders(p)
    PROVE  SyncInv'
<1> DEFINE m == Head(out[p])
<1>1. /\ phase = "up" /\ pc.at = "wait" /\ p \in live /\ out[p] # <<>> /\ m.kind = "Headers"
      /\ out' = [out EXCEPT ![p] = Tail(@)] /\ asked' = asked \ {p}
      /\ UNCHANGED <<headers, phase, live, grown, cut, req>>
      /\ pc' = IF m.headers = <<>> THEN Waiting
               ELSE [Frame("add") EXCEPT !.peer = p, !.queue = m.headers,
                                         !.height = headers[tip_hash].height]
  BY Zenon DEF ReceiveHeaders, Take, chainVars, ghosts
<1>2. /\ live \subseteq Peer /\ req \in [Peer -> Seq(Locator)] /\ pc = Waiting
      /\ \A q \in live : PeerSync(q)
  BY <1>1, Zenon DEF SyncInv
<1>3. Known' = Known /\ Locator' = Locator /\ TipOf(p)' = TipOf(p)
  BY <1>1 DEF Known, Locator, TipOf
<1>4. /\ out[p] \in Seq(Message) /\ m \in HeadersMessage /\ out'[p] = Tail(out[p])
      /\ \A q \in live : q # p => out'[q] = out[q]
  <2>1. out \in [Peer -> Seq(Message)]
    BY DEF DownloadInv
  <2>2. out[p] \in Seq(Message) /\ m \in Message
    BY <1>1, <2>1, HeadTail
  <2> QED BY <1>1, <1>2, <2>1, <2>2 DEF HeadersMessage
<1>5. /\ m.headers = <<>> => pc' = Waiting
      /\ m.headers # <<>> => pc'.queue = m.headers /\ pc'.peer = p /\ pc'.at = "add"
  <2>1. CASE m.headers # <<>>
    <3> HIDE DEF m
    <3> QED BY <1>1, <2>1 DEF Frame
  <2> QED BY <1>1, <2>1
<1> HIDE DEF m
<1>6. Underway(p)'
  <2>1. CASE m \in Fresh(p)
    <3>1. CASE m.headers # <<>> /\ Last(m.headers) = TipOf(p)
      BY <1>3, <1>5, <3>1 DEF Underway, Led
    <3>2. CASE Len(m.headers) = MAX_HEADERS /\ TipOf(p) \notin Known
      <4>1. m.headers # <<>>
        BY <3>2, DownloadAssumption
      <4>2. \E h \in Range(m.headers) : h \notin Known
        BY <1>1, <3>2 DEF FullMessageHelps, Idle, TipOf, m
      <4> QED BY <1>3, <1>5, <4>1, <4>2, Zenon DEF Underway, Led
    <3> QED BY <1>3, <2>1, <3>1, <3>2 DEF Fresh, Underway
  <2>2. CASE m \notin Fresh(p)
    <3>1. /\ out[p][1] = m /\ Len(out[p]) \in Nat
          /\ Len(out'[p]) = Len(out[p]) - 1
          /\ \A j \in 1 .. Len(out[p]) - 1 : out'[p][j] = out[p][j + 1]
      <4>1. out[p] \in Seq(Message) /\ out[p] # <<>> /\ out'[p] = Tail(out[p])
        BY <1>1, <1>4
      <4> QED BY <4>1, HeadTail DEF m
    <3>2. ASSUME NEW i \in 1 .. Len(out[p]), i # 1
          PROVE  i - 1 \in 1 .. Len(out'[p]) /\ out'[p][i - 1] = out[p][i]
      BY <3>1, <3>2
    <3>3. ASSUME NEW i \in 1 .. Len(out[p]), i # 1,
                 out[p][i] \in Fresh(p) \cup {Connected, Inv(TipOf(p))}
          PROVE  Underway(p)'
      <4>1. Fresh(p)' = Fresh(p)
        BY <1>3 DEF Fresh
      <4>2. out'[p][i - 1] \in Fresh(p)' => Answered(p)'
        BY <3>2, <3>3 DEF Answered, Awaits
      <4>3. out'[p][i - 1] \in {Connected, Inv(TipOf(p))} => Prompted(p)'
        BY <1>3, <3>2, <3>3 DEF Prompted
      <4> QED BY <3>2, <3>3, <4>1, <4>2, <4>3, Zenon DEF Underway
    <3>4. CASE Awaits(out[p], Fresh(p), Inv(TipOf(p)))
      <4>1. PICK i \in 1 .. Len(out[p]) :
               \/ out[p][i] \in Fresh(p)
               \/ \E j \in 1 .. Len(out[p]) : i < j /\ out[p][j] = Inv(TipOf(p))
        BY <3>4 DEF Awaits
      <4>2. CASE out[p][i] \in Fresh(p)
        BY <2>2, <3>1, <3>3, <4>2
      <4>3. ASSUME NEW j \in 1 .. Len(out[p]), i < j, out[p][j] = Inv(TipOf(p))
            PROVE  Underway(p)'
        <5>1. j # 1
          BY <3>1, <4>3
        <5> QED BY <3>3, <4>3, <5>1
      <4> QED BY <4>1, <4>2, <4>3
    <3>5. CASE Prompted(p)
      <4>1. PICK i \in 1 .. Len(out[p]) : out[p][i] \in {Connected, Inv(TipOf(p))}
        BY <3>5 DEF Prompted
      <4>2. i # 1
        BY <1>1, <3>1, <4>1 DEF Connected, Inv
      <4> QED BY <3>3, <4>1, <4>2
    <3>6. CASE TipOf(p) \in Known \/ req[p] # <<>>
      BY <1>1, <1>3, <3>6 DEF Underway, Answered
    <3>7. ~Led(p)
      BY <1>2, WaitingLeadsNowhere
    <3> QED BY <1>1, <1>2, <3>4, <3>5, <3>6, <3>7, Zenon DEF PeerSync, Underway, Answered
  <2> QED BY <2>1, <2>2
<1>7. ASSUME NEW q \in live PROVE PeerSync(q)'
  <2>1. CASE q # p
    BY <1>1, <1>2, <1>3, <1>4, <2>1, PeerKept, WaitingLeadsNowhere
  <2>2. CASE q = p
    BY <1>1, <1>6, <2>2 DEF PeerSync
  <2> QED BY <2>1, <2>2
<1>8. (pc'.at = "wait" => pc' = Waiting) /\ (pc'.at = "finish" => pc'.queue = <<>>)
  BY <1>5, WaitingFrame
<1> QED BY <1>1, <1>2, <1>3, <1>7, <1>8, Zenon DEF SyncInv

\* Both ends of a queue.
LEMMA QueueEnds ==
    ASSUME NEW S, NEW s \in Seq(S), s # <<>>
    PROVE  /\ Head(s) \in S
           /\ Tail(s) = <<>> => Last(s) = Head(s)
           /\ Tail(s) # <<>> => Last(Tail(s)) = Last(s)
           /\ Range(s) = Range(Tail(s)) \cup {Head(s)}
<1>1. /\ Len(s) \in Nat \ {0} /\ Head(s) = s[1] /\ Head(s) \in S
      /\ Tail(s) \in Seq(S) /\ Len(Tail(s)) = Len(s) - 1
      /\ \A i \in 1 .. Len(s) - 1 : Tail(s)[i] = s[i + 1]
  BY EmptySeq, HeadTail
<1>2. ASSUME Tail(s) = <<>> PROVE Last(s) = Head(s)
  <2>1. Len(Tail(s)) = 0
    BY <1>2, EmptySeq, Zenon
  <2>2. Len(s) = 1
    <3> DEFINE n == Len(Tail(s))
    <3>1. n = 0 /\ n = Len(s) - 1 /\ Len(s) \in Nat
      BY <1>1, <2>1, Zenon
    <3> HIDE DEF n
    <3> QED BY <3>1
  <2> QED BY <1>1, <2>2 DEF Last
<1>3. ASSUME Tail(s) # <<>> PROVE Last(Tail(s)) = Last(s)
  <2>1. Len(s) - 1 \in 1 .. Len(s) - 1 /\ (Len(s) - 1) + 1 = Len(s)
    BY <1>1, <1>3, EmptySeq
  <2> QED BY <1>1, <2>1 DEF Last
<1>4. Range(s) = {s[i] : i \in 1 .. Len(s)} /\ Range(Tail(s)) = {Tail(s)[i] : i \in 1 .. Len(s) - 1}
  BY <1>1, RangeOfSeq, Zenon
<1>5. \A i \in 1 .. Len(s) : i = 1 \/ (i - 1 \in 1 .. Len(s) - 1 /\ s[i] = Tail(s)[i - 1])
  BY <1>1
<1>6. \A i \in 1 .. Len(s) - 1 : i + 1 \in 1 .. Len(s) /\ Tail(s)[i] = s[i + 1]
  BY <1>1
<1>7. 1 \in 1 .. Len(s)
  BY <1>1
<1>8. Range(s) = Range(Tail(s)) \cup {Head(s)}
  <2>1. Range(s) \subseteq Range(Tail(s)) \cup {Head(s)}
    BY <1>1, <1>4, <1>5
  <2>2. Range(Tail(s)) \subseteq Range(s) /\ Head(s) \in Range(s)
    BY <1>1, <1>4, <1>6, <1>7
  <2> QED BY <2>1, <2>2
<1> QED BY <1>1, <1>2, <1>3, <1>8

\* A header of the message is known afterwards, and if it was not before then the
\* node will ask for more.
LEMMA AddSync ==
    ASSUME DownloadInv, TypeOK, SyncInv, ~cut, AddNext, ~cut'
    PROVE  SyncInv'
<1> DEFINE h == Head(pc.queue)
<1>1. /\ Skips(h) \/ Stores(h)
      /\ phase = "up" /\ pc.at = "add" /\ pc.queue # <<>>
      /\ UNCHANGED <<out, asked, live, req, grown>>
  BY AddOutcome, Zenon DEF Stops
<1>2. /\ h \in Hash /\ pc.queue \in Seq(Hash)
      /\ Tail(pc.queue) = <<>> => Last(pc.queue) = h
      /\ Tail(pc.queue) # <<>> => Last(Tail(pc.queue)) = Last(pc.queue)
      /\ Range(pc.queue) = Range(Tail(pc.queue)) \cup {h}
  <2>1. pc.queue \in Seq(Hash) /\ pc.queue # <<>>
    BY <1>1 DEF DownloadInv
  <2> QED BY <2>1, QueueEnds
<1>3. CacheOK
  BY DEF TypeOK, CacheOK
<1> HIDE DEF h
<1>4. /\ pc'.queue = Tail(pc.queue) /\ pc'.peer = pc.peer /\ pc'.at \in {"add", "batch"}
      /\ phase' = "up"
      /\ \/ Known' = Known /\ h \in Known /\ pc'.some_new = pc.some_new
         \/ Known' = Known \cup {h} /\ pc'.some_new
  <2>1. CASE Skips(h)
    BY <1>1, <2>1 DEF Skips, chainVars, Known
  <2>2. CASE Stores(h)
    <3>1. AddSide(h) \/ MovesTip(h)
      BY <2>2 DEF Stores, AddBranch, AddTip
    <3>2. Known' = Known \cup {h}
      BY <1>2, <1>3, <3>1, AddTypes
    <3> QED BY <1>1, <2>2, <3>2 DEF Stores
  <2> QED BY <1>1, <2>1, <2>2
<1>5. Known \subseteq Known' /\ h \in Known'
  BY <1>4
<1>6. /\ live \subseteq Peer /\ req \in [Peer -> Seq(Locator)]
      /\ \A q \in live : PeerSync(q)
  BY Zenon DEF SyncInv
<1>7. ASSUME NEW q \in live, TipOf(q) # h PROVE Led(q) => Led(q)'
  <2>1. TipOf(q)' = TipOf(q)
    BY <1>1 DEF TipOf
  <2>2. CASE Last(pc.queue) = TipOf(q)
    BY <1>2, <1>4, <1>7, <2>1, <2>2 DEF Led
  <2>3. CASE pc.peer = q /\ pc'.some_new
    BY <1>4, <2>3 DEF Led
  <2>4. ASSUME pc.peer = q, ~pc'.some_new, NEW x \in Range(pc.queue), x \notin Known
        PROVE  Led(q)'
    <3>1. Known' = Known /\ h \in Known
      BY <1>4, <2>4
    <3>2. x \in Range(pc'.queue) /\ x \notin Known'
      BY <1>2, <1>4, <2>4, <3>1
    <3> QED BY <1>4, <2>4, <3>2 DEF Led
  <2>5. pc.some_new => pc'.some_new
    BY <1>4, Zenon
  <2> QED BY <2>2, <2>3, <2>4, <2>5, Zenon DEF Led
<1>8. ASSUME NEW q \in live PROVE PeerSync(q)'
  <2>1. CASE TipOf(q) # h
    BY <1>1, <1>5, <1>6, <1>7, <2>1, PeerKept
  <2>2. CASE TipOf(q) = h
    <3>1. TipOf(q)' = h
      BY <1>1, <2>2 DEF TipOf
    <3>2. Answered(q) => Answered(q)'
      <4>1. /\ TipOf(q)' = TipOf(q)
            /\ \A s : Awaits(s, Fresh(q), Inv(TipOf(q))) => Awaits(s, Fresh(q)', Inv(TipOf(q)))
        BY <1>1, <1>5, KnownGrows
      <4> QED BY <1>1, <4>1, Zenon DEF Answered
    <3> QED BY <1>1, <1>5, <1>6, <3>1, <3>2 DEF PeerSync, Underway
  <2> QED BY <2>1, <2>2
<1>9. req' \in [Peer -> Seq(Locator')]
  BY <1>1, <1>5, <1>6, LocatorsGrow
<1> QED BY <1>1, <1>4, <1>6, <1>8, <1>9 DEF SyncInv

\* The rest of headers() and what happens between messages leave the message alone.
LEMMA LoopSync ==
    ASSUME DownloadInv, SyncInv, ~cut, QueueEmpty \/ SaveBatch \/ Notify
    PROVE  SyncInv'
<1>1. /\ phase = "up" /\ UNCHANGED <<headers, phase, out, asked, live, req, grown, cut>>
      /\ \/ pc' = [pc EXCEPT !.at = "batch"] \/ pc' = [pc EXCEPT !.at = "notify"]
         \/ pc' = [pc EXCEPT !.at = IF pc.queue = <<>> THEN "finish" ELSE "add",
                             !.connected = <<>>, !.disconnected = <<>>]
  BY Zenon DEF QueueEmpty, SaveBatch, Notify, batch, chainVars, peerVars, ghosts
<1>2. /\ pc'.queue = pc.queue /\ pc'.peer = pc.peer /\ pc'.some_new = pc.some_new
      /\ pc'.at \in {"batch", "notify", "add"} \/ (pc'.at = "finish" /\ pc.queue = <<>>)
  <2>1. IsFrame(pc)
    BY DEF DownloadInv
  <2> QED BY <1>1, <2>1, Zenon DEF IsFrame
<1>3. Known' = Known /\ Locator' = Locator
  BY <1>1 DEF Known, Locator
<1>4. /\ live \subseteq Peer /\ req \in [Peer -> Seq(Locator)]
      /\ \A q \in live : PeerSync(q)
  BY Zenon DEF SyncInv
<1>5. ASSUME NEW q \in live PROVE PeerSync(q)'
  <2>1. TipOf(q)' = TipOf(q)
    BY <1>1 DEF TipOf
  <2>2. Led(q) => Led(q)'
    BY <1>2, <1>3, <2>1, Zenon DEF Led
  <2> QED BY <1>1, <1>3, <1>4, <2>2, PeerKept
<1> QED BY <1>1, <1>2, <1>3, <1>4, <1>5 DEF SyncInv

\* If anything was new, the thread asks before it waits again.
LEMMA FinishSync ==
    ASSUME TypeOK, SyncInv, ~cut, Finish
    PROVE  SyncInv'
<1>0. PICK p : p = pc.peer
  OBVIOUS
<1>1. /\ phase = "up" /\ pc.at = "finish" /\ pc' = Waiting
      /\ UNCHANGED <<headers, trunk, phase, out, live, grown, cut>>
      /\ \/ pc.some_new /\ get_headers(p)
         \/ ~pc.some_new /\ UNCHANGED <<asked, req>>
  BY <1>0, Zenon DEF Finish, chainVars, ghosts
<1>2. /\ live \subseteq Peer /\ req \in [Peer -> Seq(Locator)] /\ pc.queue = <<>>
      /\ \A q \in live : PeerSync(q)
  BY <1>1, Zenon DEF SyncInv
<1>3. CacheOK /\ Known' = Known /\ Locator' = Locator
  BY <1>1 DEF TypeOK, CacheOK, Known, Locator
<1>4. ASSUME NEW q \in live, ~pc.some_new \/ q # p PROVE ~Led(q)
  <2>1. Range(<<>>) = {}
    BY DEF Range
  <2> QED BY <1>0, <1>2, <1>4, <2>1 DEF Led
<1>5. CASE ~pc.some_new /\ UNCHANGED <<asked, req>>
  <2>1. \A q \in live : PeerSync(q)'
    BY <1>1, <1>2, <1>3, <1>4, <1>5, PeerKept
  <2> QED BY <1>1, <1>2, <1>3, <1>5, <2>1, WaitingFrame, Zenon DEF SyncInv
<1>6. CASE pc.some_new /\ get_headers(p)
  <2>1. /\ p \in live => PeerSync(p)'
        /\ \A q \in live : q # p => req'[q] = req[q] /\ (q \in asked' => q \in asked)
        /\ req' \in [Peer -> Seq(Locator')]
    BY <1>1, <1>2, <1>3, <1>6, AskIsAnswered
  <2>2. ASSUME NEW q \in live PROVE PeerSync(q)'
    <3>1. CASE q # p
      BY <1>1, <1>2, <1>3, <1>4, <2>1, <3>1, PeerKept
    <3> QED BY <2>1, <3>1
  <2> QED BY <1>1, <1>2, <2>1, <2>2, WaitingFrame, Zenon DEF SyncInv
<1> QED BY <1>1, <1>5, <1>6

\* What a peer sends comes after all that it sent before; an announcement is for its
\* new tip.
LEMMA SentKept ==
    ASSUME NEW p, NEW m \in Message, PeerSync(p), Known' = Known, pc' = pc, asked' = asked,
           out[p] \in Seq(Message), out'[p] = Append(out[p], m),
           \/ m \in Fresh(p) /\ grown'[p] = grown[p]
           \/ req'[p] = req[p] /\ m = Inv(Tips[p][grown[p] + 1]) /\ grown'[p] = grown[p] + 1
           \/ req'[p] = req[p] /\ grown'[p] = grown[p]
    PROVE  PeerSync(p)'
<1>1. /\ Len(out[p]) \in Nat /\ Len(out'[p]) = Len(out[p]) + 1 /\ out'[p][Len(out[p]) + 1] = m
      /\ \A i \in 1 .. Len(out[p]) : out'[p][i] = out[p][i]
      /\ \A i \in 1 .. Len(out[p]) : i \in 1 .. Len(out[p]) + 1
      /\ Len(out[p]) + 1 \in 1 .. Len(out[p]) + 1
  BY Appended
<1>2. CASE m \in Fresh(p) /\ grown'[p] = grown[p]
  <2>1. m \in Fresh(p)'
    BY <1>2, KnownGrows
  <2>2. Awaits(out'[p], Fresh(p)', Inv(TipOf(p))')
    BY <1>1, <2>1 DEF Awaits
  <2> QED BY <2>2, Zenon DEF PeerSync, Underway, Answered
<1>3. CASE req'[p] = req[p] /\ m = Inv(Tips[p][grown[p] + 1]) /\ grown'[p] = grown[p] + 1
  <2>1. m = Inv(TipOf(p))'
    BY <1>3 DEF TipOf, Inv
  <2>2. Underway(p)'
    BY <1>1, <2>1 DEF Underway, Prompted, Inv
  <2>3. Answered(p) => Answered(p)'
    <3>1. Fresh(p) \subseteq HeadersMessage
      BY DEF Fresh
    <3>2. Awaits(out[p], Fresh(p), Inv(TipOf(p))) => Awaits(out'[p], Fresh(p)', m)
      BY <3>1, AwaitsNext
    <3> QED BY <1>3, <2>1, <3>2, Zenon DEF Answered
  <2> QED BY <2>2, <2>3 DEF PeerSync
<1>4. CASE req'[p] = req[p] /\ grown'[p] = grown[p]
  <2>1. /\ TipOf(p)' = TipOf(p)
        /\ \A s : Awaits(s, Fresh(p), Inv(TipOf(p))) => Awaits(s, Fresh(p)', Inv(TipOf(p)))
    BY <1>4, KnownGrows
  <2>2. Answered(p) => Answered(p)'
    <3>1. Awaits(out[p], Fresh(p), Inv(TipOf(p))) => Awaits(out'[p], Fresh(p), Inv(TipOf(p)))
      BY AwaitsAppend
    <3> QED BY <1>4, <2>1, <3>1, Zenon DEF Answered
  <2>3. Prompted(p) => Prompted(p)'
    BY <1>1, <2>1 DEF Prompted
  <2>4. Led(p) => Led(p)'
    BY <2>1 DEF Led
  <2> QED BY <2>1, <2>2, <2>3, <2>4 DEF PeerSync, Underway
<1> QED BY <1>2, <1>3, <1>4

\* A step of a peer: it answers, with what leads to its tip, announces its new tip, or
\* sends headers that were not asked for.
LEMMA SendSync ==
    ASSUME DownloadInv, SyncInv, ~cut, Genesis \in Known,
           NEW p \in Peer, Answer(p) \/ Announce(p) \/ SendOdd(p)
    PROVE  SyncInv'
<1>1. PICK m \in Message :
         /\ phase = "up" /\ p \in live /\ out' = [out EXCEPT ![p] = Append(@, m)]
         /\ UNCHANGED <<headers, phase, pc, asked, live, cut>>
         /\ \/ /\ req[p] # <<>> /\ req' = [req EXCEPT ![p] = Tail(@)] /\ grown' = grown
               /\ m \in Fresh(p)
            \/ /\ req' = req /\ m = Inv(Tips[p][grown[p] + 1])
               /\ grown' = [grown EXCEPT ![p] = @ + 1]
            \/ req' = req /\ grown' = grown
  <2>1. CASE Answer(p)
    <3> DEFINE m == Headers(Following(ChainTo[TipOf(p)], Head(req[p])))
    <3>1. /\ req[p] # <<>> /\ Send(p, m) /\ req' = [req EXCEPT ![p] = Tail(@)] /\ grown' = grown
      BY <2>1, Zenon DEF Answer, TipOf
    <3>2. Head(req[p]) \in Locator
      BY <3>1, HeadTail DEF SyncInv
    <3>3. m \in Fresh(p)
      BY <3>2, AnswerIsFresh, Zenon
    <3> HIDE DEF m
    <3>4. m \in Message
      BY <3>3 DEF Fresh, HeadersMessage
    <3> QED BY <3>1, <3>3, <3>4, Zenon DEF Send, chainVars, ghosts
  <2>2. CASE Announce(p)
    <3> DEFINE m == Inv(Tips[p][grown[p] + 1])
    <3>1. /\ grown[p] < Len(Tips[p]) /\ Send(p, m) /\ req' = req
          /\ grown' = [grown EXCEPT ![p] = @ + 1]
      BY <2>2, Zenon DEF Announce
    <3>2. m \in Message
      <4>1. grown[p] \in 1 .. Len(Tips[p]) /\ Len(Tips[p]) \in Nat
        BY TipsAssumption DEF DownloadInv
      <4>2. Tips[p][grown[p] + 1] \in Hash
        BY <3>1, <4>1, TipsAssumption
      <4> QED BY <4>2 DEF Inv, Message
    <3> HIDE DEF m
    <3>3. PICK x \in Message : x = m
      BY <3>2
    <3> QED BY <3>1, <3>3, Zenon DEF Send, chainVars, ghosts, m
  <2>3. CASE SendOdd(p)
    <3>1. PICK hs \in Odd : Send(p, Headers(hs)) /\ req' = req /\ grown' = grown
      BY <2>3, Zenon DEF SendOdd
    <3>2. Headers(hs) \in Message
      BY DownloadAssumption DEF Headers, Message
    <3> QED BY <3>1, <3>2, Zenon DEF Send, chainVars, ghosts
  <2> QED BY <2>1, <2>2, <2>3
<1>2. /\ phase = "up" /\ p \in live /\ out' = [out EXCEPT ![p] = Append(@, m)]
      /\ headers' = headers /\ phase' = phase /\ pc' = pc /\ asked' = asked /\ live' = live
      /\ cut' = cut
  BY <1>1, Zenon
<1>3. /\ live \subseteq Peer /\ req \in [Peer -> Seq(Locator)]
      /\ \A q \in live : PeerSync(q)
  BY Zenon DEF SyncInv
<1>4. Known' = Known /\ Locator' = Locator
  BY <1>2 DEF Known, Locator
<1>5. /\ out[p] \in Seq(Message) /\ out'[p] = Append(out[p], m)
      /\ \A q \in live : q # p => out'[q] = out[q]
  BY <1>2, <1>3 DEF DownloadInv
<1>6. /\ req' \in [Peer -> Seq(Locator)]
      /\ \A q \in live : q # p => req'[q] = req[q] /\ grown'[q] = grown[q]
  <2>1. req[p] # <<>> => Tail(req[p]) \in Seq(Locator)
    BY <1>3, HeadTail
  <2>2. grown \in [Peer -> Nat]
    BY DEF DownloadInv
  <2>3. CASE req' = [req EXCEPT ![p] = Tail(@)] /\ grown' = grown /\ req[p] # <<>>
    BY <1>3, <2>1, <2>3
  <2>4. CASE req' = req /\ grown' = [grown EXCEPT ![p] = @ + 1]
    BY <1>3, <2>2, <2>4
  <2>5. CASE req' = req /\ grown' = grown
    BY <1>3, <2>5
  <2> QED BY <1>1, <2>3, <2>4, <2>5, Zenon
<1>7. PeerSync(p)'
  <2>1. PeerSync(p) /\ p \in Peer /\ req[p] \in Seq(Locator)
    BY <1>2, <1>3
  <2>2. CASE m \in Fresh(p) /\ grown' = grown
    BY <1>2, <1>4, <1>5, <2>1, <2>2, SentKept
  <2>3. CASE /\ req' = req /\ m = Inv(Tips[p][grown[p] + 1])
             /\ grown' = [grown EXCEPT ![p] = @ + 1]
    <3>1. grown'[p] = grown[p] + 1
      BY <2>1, <2>3 DEF DownloadInv
    <3> QED BY <1>2, <1>4, <1>5, <2>1, <2>3, <3>1, SentKept
  <2>4. CASE req' = req /\ grown' = grown
    BY <1>2, <1>4, <1>5, <2>1, <2>4, SentKept
  <2> QED BY <1>1, <2>2, <2>3, <2>4, Zenon
<1>8. ASSUME NEW q \in live PROVE PeerSync(q)'
  <2>1. CASE q # p
    <3>1. Led(q) => Led(q)'
      BY <1>2, <1>4, <1>6, <2>1, Zenon DEF Led, TipOf
    <3> QED BY <1>2, <1>3, <1>4, <1>5, <1>6, <2>1, <3>1, PeerKept, Zenon
  <2> QED BY <1>7, <2>1
<1>9. (pc.at = "wait" => pc = Waiting) /\ (pc.at = "finish" => pc.queue = <<>>)
  BY Zenon DEF SyncInv
<1> QED BY <1>2, <1>3, <1>4, <1>6, <1>8, <1>9, Zenon DEF SyncInv

\* A peer that goes takes with it what was on its way.
LEMMA DropSync ==
    ASSUME DownloadInv, SyncInv, ~cut, NEW p, Drop(p), UNCHANGED <<headers, phase, pc, cut>>
    PROVE  SyncInv'
<1>1. /\ live \subseteq Peer /\ req \in [Peer -> Seq(Locator)]
      /\ (pc.at = "wait" => pc = Waiting) /\ (pc.at = "finish" => pc.queue = <<>>)
      /\ phase = "down" => /\ asked = {} /\ req = [q \in Peer |-> <<>>]
                           /\ \A q \in live : out[q] = <<Connected>>
      /\ \A q \in live : PeerSync(q)
  BY Zenon DEF SyncInv
<1>2. /\ live' = live \ {p} /\ asked' = asked \ {p} /\ grown' = grown
      /\ out' = [out EXCEPT ![p] = <<>>] /\ req' = [req EXCEPT ![p] = <<>>]
  BY Zenon DEF Drop
<1>3. Known' = Known /\ Locator' = Locator
  BY DEF Known, Locator
<1>4. req' \in [Peer -> Seq(Locator)]
  BY <1>1, <1>2, EmptySeq, Zenon
<1>5. ASSUME NEW q \in live' PROVE PeerSync(q)'
  <2>1. q \in live /\ q # p /\ q \in Peer
    BY <1>1, <1>2
  <2>2. out'[q] = out[q] /\ req'[q] = req[q]
    BY <1>1, <1>2, <2>1 DEF DownloadInv
  <2>3. Led(q) => Led(q)'
    BY <1>2, <1>3 DEF Led, TipOf
  <2> QED BY <1>1, <1>2, <1>3, <2>1, <2>2, <2>3, PeerKept
<1>6. phase = "down" => /\ asked' = {} /\ req' = [q \in Peer |-> <<>>]
                        /\ \A q \in live' : out'[q] = <<Connected>>
  <2> SUFFICES ASSUME phase = "down"
               PROVE  /\ asked' = {} /\ req' = [q \in Peer |-> <<>>]
                      /\ \A q \in live' : out'[q] = <<Connected>>
    OBVIOUS
  <2>1. asked' = {} /\ req' = [q \in Peer |-> <<>>]
    BY <1>1, <1>2, Zenon
  <2>2. \A q \in live' : q \in live /\ out'[q] = out[q]
    BY <1>1, <1>2 DEF DownloadInv
  <2> QED BY <1>1, <2>1, <2>2, Zenon
<1> QED BY <1>1, <1>2, <1>3, <1>4, <1>5, <1>6 DEF SyncInv

\* A restart, like the start, begins with every peer connecting.
LEMMA OutsideSync ==
    ASSUME DownloadInv, SyncInv, ~cut,
           \/ Start \/ Control \/ Restart \/ UNCHANGED downloadVars
           \/ \E p \in Peer : Disconnect(p)
    PROVE  SyncInv'
<1>1. /\ live \subseteq Peer /\ req \in [Peer -> Seq(Locator)]
      /\ (pc.at = "wait" => pc = Waiting) /\ (pc.at = "finish" => pc.queue = <<>>)
      /\ phase = "down" => /\ asked = {} /\ req = [p \in Peer |-> <<>>]
                           /\ \A p \in live : out[p] = <<Connected>>
      /\ \A q \in live : PeerSync(q)
  BY Zenon DEF SyncInv
<1>2. ASSUME UNCHANGED <<headers, phase, pc, out, asked, live, req, grown, cut>>
      PROVE  SyncInv'
  BY <1>2, Zenon DEF SyncInv, PeerSync, Underway, Answered, Prompted, Led, Fresh, TipOf, Locator,
                     Known
<1>3. ASSUME asked' = {}, req' = [p \in Peer |-> <<>>], \A p \in live' : out'[p] = <<Connected>>,
             live' \subseteq Peer, pc' = Waiting \/ pc' = pc
      PROVE  SyncInv'
  <2>1. req' \in [Peer -> Seq(Locator')]
    BY <1>3, EmptySeq
  <2>2. ASSUME NEW p \in live' PROVE PeerSync(p)'
    <3>1. Len(out'[p]) = 1 /\ out'[p][1] = Connected
      <4>1. out'[p] = <<Connected>>
        BY <1>3, Zenon
      <4>2. Len(<<Connected>>) = 1 /\ <<Connected>>[1] = Connected
        OBVIOUS
      <4> QED BY <4>1, <4>2, Zenon
    <3>2. Prompted(p)'
      BY <3>1 DEF Prompted, Connected
    <3> QED BY <1>3, <3>2 DEF PeerSync, Underway
  <2> QED BY <1>1, <1>3, <2>1, <2>2, WaitingFrame, Zenon DEF SyncInv
<1>4. CASE Start
  <2>1. UNCHANGED <<pc, out, asked, live, req, grown, cut>>
    BY <1>4 DEF Start, peerVars
  <2>2. CASE phase = "down"
    BY <1>1, <1>3, <2>1, <2>2
  <2>3. CASE phase # "down"
    <3>1. phase = "genesis" /\ phase' = "up" /\ headers' = headers
      BY <1>4, <2>3 DEF Start, LoadHeaders, StoreGenesis, StoreGenesisTip, cacheVars
    <3> QED BY <1>1, <2>1, <3>1, Zenon DEF SyncInv, PeerSync, Underway, Answered, Prompted, Led,
                                       Fresh, TipOf, Locator, Known
  <2> QED BY <2>2, <2>3
<1>5. CASE Control \/ \E p \in Peer : Disconnect(p)
  <2>1. /\ UNCHANGED <<headers, phase, pc, cut>>
        /\ UNCHANGED <<out, asked, live, req, grown>> \/ \E p : Drop(p)
    BY <1>5, Zenon DEF Control, ControlHeight, ControlBan, Disconnect, chainVars, ghosts, peerVars
  <2> QED BY <1>2, <2>1, DropSync
<1>6. CASE Restart
  BY <1>3, <1>6, Zenon DEF Restart
<1>7. CASE UNCHANGED downloadVars
  BY <1>2, <1>7 DEF downloadVars, chainVars, peerVars, ghosts
<1> QED BY <1>4, <1>5, <1>6, <1>7

\* Until headers() stops in the middle of a message, and as long as no full message
\* is one of known headers only: with every peer that neither waits for the node nor
\* has a message on its way, the node knows the tip of the peer and has a tip of at
\* least its work, whatever else peers send, also after lost connections, restarts
\* and reorganisations.  What is left to liveness is that messages are handled.
THEOREM QuietPeersAreSynced ==
    ASSUME OneRoot, WalksComplete
    PROVE  DownloadSpec /\ []FullMessageHelps => []QuietIsSynced
<1> DEFINE Uncut == ~cut => IInv
<1>1. ASSUME DownloadInit PROVE SyncInv
  <2>1. /\ asked = {} /\ req = [p \in Peer |-> <<>>] /\ live = Peer /\ pc = Waiting
        /\ out = [p \in Peer |-> <<Connected>>]
    BY <1>1 DEF DownloadInit
  <2>2. req \in [Peer -> Seq(Locator)]
    BY <2>1, EmptySeq
  <2>3. ASSUME NEW p \in live PROVE PeerSync(p) /\ out[p] = <<Connected>>
    <3>1. out[p] = <<Connected>>
      BY <2>1
    <3>2. Len(<<Connected>>) = 1 /\ <<Connected>>[1] = Connected
      OBVIOUS
    <3>3. Len(out[p]) = 1 /\ out[p][1] = Connected
      BY <3>1, <3>2, Zenon
    <3> QED BY <2>1, <3>1, <3>3 DEF PeerSync, Underway, Prompted
  <2> QED BY <2>1, <2>2, <2>3, WaitingFrame, Zenon DEF SyncInv
<1>2. ASSUME DownloadInv, TypeOK, Uncut, FullMessageHelps, SyncInv, [DownloadNext]_downloadVars
      PROVE  SyncInv'
  <2> SUFFICES ASSUME ~cut' PROVE SyncInv'
    BY DEF SyncInv
  <2>1. ~cut /\ IInv
    BY <1>2, CutStays
  <2>2. ASSUME phase = "up" PROVE Genesis \in Known
    <3>1. trunk # <<>> /\ trunk \in Seq(Known)
      BY <1>2, <2>2 DEF TypeOK
    <3>2. trunk[1] = Genesis
      BY <2>1, <3>1 DEF IInv, CacheInv
    <3>3. 1 \in 1 .. Len(trunk)
      BY <3>1, EmptySeq
    <3> QED BY <3>1, <3>2, <3>3, SeqElement
  <2>3. ASSUME NEW p \in Peer, Answer(p) \/ Announce(p) \/ SendOdd(p) PROVE SyncInv'
    <3>1. phase = "up"
      BY <2>3, Zenon DEF Answer, Announce, SendOdd, Send
    <3> QED BY <1>2, <2>1, <2>2, <2>3, <3>1, SendSync
  <2>4. ~BatchFails
    BY DEF BatchFails
  <2> QED BY <1>2, <2>1, <2>3, <2>4, TakeSync, ReceiveSync, AddSync, LoopSync, FinishSync,
             OutsideSync DEF DownloadNext, Thread
<1>3. Uncut /\ SyncInv => QuietIsSynced
  <2> SUFFICES ASSUME Uncut, SyncInv, Idle, ~cut, NEW p \in live, out[p] = <<>>, req[p] = <<>>
               PROVE  /\ TipOf(p) \in Known
                      /\ headers[TipOf(p)].log2work <= headers[tip_hash].log2work
    BY DEF QuietIsSynced, TipOf
  <2>1. Underway(p) /\ pc = Waiting
    BY DEF SyncInv, PeerSync, Idle
  <2>2. Len(out[p]) = 0 /\ ~Led(p)
    BY <2>1, EmptySeq, WaitingLeadsNowhere, Zenon
  <2>3. TipOf(p) \in Known
    BY <2>1, <2>2 DEF Underway, Answered, Prompted, Awaits
  <2>4. trunk # <<>> /\ TipMostWork
    BY DEF IInv, CacheInv, TypeOK, Idle
  <2> QED BY <2>3, <2>4 DEF TipMostWork
<1>4. DownloadSpec => []Uncut
  BY UncutInvariance
<1>5. /\ DownloadInv /\ TypeOK /\ Uncut /\ FullMessageHelps /\ SyncInv
      /\ [DownloadNext]_downloadVars
      => SyncInv'
  BY <1>2
<1> HIDE DEF Uncut
<1> QED BY <1>1, <1>3, <1>4, <1>5, DownloadInvariance, PTL DEF DownloadSpec
=============================================================================
