--------------------------- MODULE DiscoveryProofs ---------------------------
(***************************************************************************)
(* Peers and metadata are found right for any trackers, any tiers, any     *)
(* DHT nodes and any answers, late, repeated, left over or missing.        *)
(***************************************************************************)
EXTENDS Discovery, DataLemmas, FiniteSetTheorems

Steps == {"next", "http", "connect", "announce", "done"}

Named == SUBSET (Peers \cup {Stale})

Datagrams == [action : {Connect, Announce, Failure}, tid : {ConnectId, AnnounceId, OtherId},
              peers : Named]

-----------------------------------------------------------------------------
(* The inductive invariant.                                                *)

TrackersTypeOK ==
    /\ tiers \in Seq(Seq(URLs))
    /\ ask \in [DOMAIN tiers -> Seq(URLs)]
    /\ tried \in [DOMAIN tiers -> SUBSET URLs]
    /\ step \in [DOMAIN tiers -> Steps]
    /\ inbox \in [DOMAIN tiers -> SUBSET Datagrams]
    /\ answer \in [DOMAIN tiers -> [responded : BOOLEAN, peers : Named]]

\* A tier without an answer has tried what it is not still going to ask; a tier that
\* goes on has none.
TiersFollow ==
    \A k \in DOMAIN tiers :
        /\ step[k] # "done" => answer[k] = NoAnswer
        /\ ~answer[k].responded =>
              /\ answer[k].peers = {}
              /\ tried[k] \cup ToSet(ask[k]) = ToSet(tiers[k])
              /\ step[k] = "done" => ask[k] = <<>>

HeardByTiers == at = "trackers" => heard = TrackerPeers

\* One query is waited for at a time and its first answer ends the wait, so what the
\* lookup has not taken yet is at the head of its channel.
LookupInv ==
    /\ pending \subseteq {awaiting}
    /\ dhtAt \notin {"wait", "clean_up"} => pending = {}
    /\ dhtAt # "wait" => heard = dhtPeers
    /\ dhtAt = "wait" =>
          \/ mailbox = <<>> /\ heard = dhtPeers
          \/ mailbox # <<>> /\ pending = {} /\ heard = dhtPeers \cup Head(mailbox).peers

HeardByLookup == at \in {"dht", "second_dht"} => LookupInv

\* What the caller of announce_all may rely on.
FlowFollows ==
    /\ at # "trackers" => Joined
    /\ at \in {"dht", "second_start", "second_dht"} => TrackerPeers = {}
    /\ at = "second_start" => heard = {}
    /\ at = "found" => found = heard /\ (found = {} => TrackerPeers = {})
    /\ outcome # "none" => at = "over"
    /\ outcome = "EmptySwarm" => TrackerPeers = {} /\ AnyResponded
    /\ outcome = "NoTrackers" /\ known => ~AnyResponded

\* The counter counts the pieces that have data.
PiecesCounted ==
    /\ claimed \in Nat
    /\ exAt \in {"connect", "handshake", "hello"} => claimed = 0
    /\ exAt \in {"requests", "pieces"} =>
          pieces \in [0 .. claimed - 1 -> {None} \cup {Some(data) : data \in Payloads}]
    /\ DOMAIN pieces = 0 .. claimed - 1
    /\ received = Cardinality({i \in DOMAIN pieces : pieces[i] # None})

\* A peer that has not lied so far claimed the right size, and what is kept is right.
HonestSoFar ==
    ~lied =>
        /\ exAt \in {"requests", "pieces"} => claimed = InfoPieces
        /\ \A i \in DOMAIN pieces : pieces[i] # None => pieces[i] = Some(<<i>>)

ExchangeSound == PiecesCounted /\ HonestSoFar

IInv ==
    /\ TrackersTypeOK /\ TiersFollow /\ HeardByTiers /\ HeardByLookup /\ FlowFollows
    /\ ExchangeSound

-----------------------------------------------------------------------------
(* The tiers.                                                              *)

\* Listed is defined for every announce-list, and holds tiers.
LEMMA ListedType == Listed[Len(AnnounceList)] \in Seq(Seq(URLs))
<1> DEFINE L == Len(AnnounceList)
           S == Seq(Seq(URLs))
           h == [n \in 1 .. L |-> [s \in S |->
                   IF AnnounceList[n] = <<>> THEN s ELSE Append(s, AnnounceList[n])]]
<1>1. L \in Nat /\ \A n \in 1 .. L : AnnounceList[n] \in Seq(URLs)
  BY TrackerConstants
<1>2. <<>> \in S
  OBVIOUS
<1>3. h \in [1 .. L -> [S -> S]]
  <2>1. ASSUME NEW n \in 1 .. L, NEW s \in S
        PROVE  (IF AnnounceList[n] = <<>> THEN s ELSE Append(s, AnnounceList[n])) \in S
    BY <1>1
  <2> HIDE DEF L, S
  <2> QED BY <2>1
<1>4. PICK f : /\ f \in [0 .. L -> S]
              /\ f[0] = <<>> /\ \A n \in 1 .. L : f[n] = h[n][f[n - 1]]
  <2> HIDE DEF L, S, h
  <2>1. \E f : Recurs(f, L, S, <<>>, h)
    BY <1>1, <1>2, <1>3, RecursionExists
  <2> QED BY <2>1 DEF Recurs
<1>5. f = [n \in 0 .. L |-> IF n = 0 THEN <<>>
                           ELSE IF AnnounceList[n] = <<>> THEN f[n - 1]
                           ELSE Append(f[n - 1], AnnounceList[n])]
  <2>1. ASSUME NEW n \in 1 .. L PROVE n - 1 \in 0 .. L
    BY <1>1
  <2> HIDE DEF L, S
  <2>2. ASSUME NEW n \in 1 .. L
        PROVE  f[n] = IF AnnounceList[n] = <<>> THEN f[n - 1] ELSE Append(f[n - 1], AnnounceList[n])
    <3>1. f[n - 1] \in S
      BY <1>4, <2>1
    <3> QED BY <1>4, <3>1
  <2> HIDE DEF h
  <2>3. \A n \in 0 .. L : n # 0 => n \in 1 .. L
    BY <1>1
  <2> QED BY <1>4, <2>2, <2>3
<1>6. Listed = [n \in 0 .. L |-> IF n = 0 THEN <<>>
                           ELSE IF AnnounceList[n] = <<>> THEN Listed[n - 1]
                           ELSE Append(Listed[n - 1], AnnounceList[n])]
  BY <1>5 DEF Listed
<1> DEFINE T == {n \in 0 .. L : Listed[n] \in S}
<1>7. 0 \in T
  BY <1>1, <1>6
<1>8. ASSUME NEW n \in 1 .. L, n - 1 \in T PROVE n \in T
  <2>1. n \in 0 .. L /\ n # 0 /\ Listed[n - 1] \in S /\ AnnounceList[n] \in Seq(URLs)
    BY <1>1, <1>8
  <2>2. Append(Listed[n - 1], AnnounceList[n]) \in S
    BY <2>1
  <2> QED BY <1>6, <2>1, <2>2
<1>9. 0 .. L \subseteq T
  <2> HIDE DEF T, S
  <2> QED BY <1>1, <1>7, <1>8, RangeInduction
<1> QED BY <1>1, <1>9

LEMMA TiersType == TorrentTiers \in Seq(Seq(URLs)) /\ MagnetTiers \in Seq(Seq(URLs))
<1>1. MagnetTiers \in Seq(Seq(URLs))
  <2>1. \A k \in DOMAIN MagnetURLs : <<MagnetURLs[k]>> \in Seq(URLs)
    BY TrackerConstants
  <2>2. Len(MagnetURLs) \in Nat /\ DOMAIN MagnetURLs = 1 .. Len(MagnetURLs)
    BY TrackerConstants
  <2> QED BY <2>1, <2>2 DEF MagnetTiers
<1> DEFINE listed == Listed[Len(AnnounceList)]
<1>2. listed \in Seq(Seq(URLs))
  BY ListedType
<1>3. TorrentTiers \in Seq(Seq(URLs))
  <2>1. CASE AnnounceURL = NoURL
    BY <1>2, <2>1 DEF TorrentTiers
  <2>2. CASE AnnounceURL # NoURL
    <3>1. AnnounceURL \in URLs /\ <<AnnounceURL>> \in Seq(URLs)
      BY <2>2, TrackerConstants
    <3>2. CASE listed = <<>>
      <4>1. <<<<AnnounceURL>>>> \in Seq(Seq(URLs))
        BY <3>1
      <4> QED BY <2>2, <3>2, <4>1 DEF TorrentTiers
    <3>3. CASE listed # <<>>
      <4>1. Head(listed) \in Seq(URLs) /\ Tail(listed) \in Seq(Seq(URLs))
        BY <1>2, <3>3
      <4>2. <<AnnounceURL>> \o Head(listed) \in Seq(URLs)
        BY <3>1, <4>1
      <4>3. <<<<AnnounceURL>> \o Head(listed)>> \o Tail(listed) \in Seq(Seq(URLs))
        BY <4>1, <4>2
      <4> QED BY <1>2, <2>2, <3>3, <4>3 DEF TorrentTiers
    <3> QED BY <3>2, <3>3
  <2> QED BY <2>1, <2>2
<1> QED BY <1>1, <1>3

-----------------------------------------------------------------------------
(* The trackers.                                                           *)

TrackersInv == TrackersTypeOK /\ TiersFollow

LEMMA NothingAnswered ==
    ASSUME answer = [k \in DOMAIN tiers |-> NoAnswer]
    PROVE  TrackerPeers = {}
BY DEF TrackerPeers, NoAnswer

LEMMA AnnounceInitInv ==
    ASSUME tiers \in Seq(Seq(URLs)), AnnounceInit
    PROVE  TrackersInv /\ heard = TrackerPeers
<1>1. \A k \in DOMAIN tiers : tiers[k] \in Seq(URLs)
  OBVIOUS
<1>2. TrackersTypeOK
  BY <1>1 DEF AnnounceInit, TrackersTypeOK, NoAnswer, Steps, Named
<1>3. TiersFollow
  BY DEF AnnounceInit, TiersFollow, NoAnswer
<1>4. heard = TrackerPeers
  BY NothingAnswered DEF AnnounceInit
<1> QED BY <1>2, <1>3, <1>4 DEF TrackersInv

LEMMA AnnounceAgainInv ==
    ASSUME TrackersInv, AnnounceAgain
    PROVE  TrackersInv' /\ heard' = TrackerPeers'
<1>1. \A k \in DOMAIN tiers : tiers[k] \in Seq(URLs)
  BY DEF TrackersInv, TrackersTypeOK
<1>2. TrackersTypeOK'
  BY <1>1 DEF AnnounceAgain, TrackersInv, TrackersTypeOK, NoAnswer, Steps, Named
<1>3. TiersFollow'
  BY DEF AnnounceAgain, TiersFollow, NoAnswer
<1>4. heard' = TrackerPeers'
  BY DEF AnnounceAgain, TrackerPeers, NoAnswer
<1> QED BY <1>2, <1>3, <1>4 DEF TrackersInv

LEMMA NextTrackerInv ==
    ASSUME TrackersInv, NEW k \in DOMAIN tiers, NextTracker(k)
    PROVE  TrackersInv' /\ UNCHANGED <<tiers, answer, heard>>
<1> USE DEF TrackersInv, TrackersTypeOK
<1> DEFINE url == Head(ask[k])
<1>1. /\ ask[k] \in Seq(URLs) /\ ask[k] # <<>>
      /\ url \in URLs /\ Tail(ask[k]) \in Seq(URLs)
      /\ ToSet(ask[k]) = {url} \cup ToSet(Tail(ask[k]))
  BY ToSetHeadTail DEF NextTracker
<1>2. /\ step' = [step EXCEPT ![k] = step'[k]] /\ step'[k] \in Steps /\ step'[k] # "done"
      /\ tried' = [tried EXCEPT ![k] = @ \cup {url}]
      /\ ask' = [ask EXCEPT ![k] = Tail(@)]
      /\ UNCHANGED <<tiers, answer, heard>>
  BY DEF NextTracker, Steps
<1>3. inbox' \in [DOMAIN tiers -> SUBSET Datagrams]
  <2>1. LeftOver \in Datagrams
    BY DEF LeftOver, Datagram, Datagrams, Named
  <2> QED BY <2>1 DEF NextTracker
<1>4. TrackersTypeOK'
  BY <1>1, <1>2, <1>3
<1>5. TiersFollow'
  <2> SUFFICES ASSUME NEW j \in DOMAIN tiers
               PROVE  /\ step'[j] # "done" => answer[j] = NoAnswer
                      /\ ~answer[j].responded =>
                            /\ answer[j].peers = {}
                            /\ tried'[j] \cup ToSet(ask'[j]) = ToSet(tiers[j])
                            /\ step'[j] = "done" => ask'[j] = <<>>
    BY <1>2 DEF TiersFollow
  <2>1. CASE j # k
    BY <1>2, <2>1 DEF TiersFollow
  <2>2. CASE j = k
    <3>0. answer[k] = NoAnswer
      BY DEF NextTracker, TiersFollow
    <3>1. answer[k] = NoAnswer /\ tried[k] \cup ToSet(ask[k]) = ToSet(tiers[k])
      <4>1. ~answer[k].responded
        BY <3>0 DEF NoAnswer
      <4> QED BY <3>0, <4>1 DEF TiersFollow
    <3>2. tried'[k] = tried[k] \cup {url} /\ ask'[k] = Tail(ask[k])
      BY <1>2
    <3> QED BY <1>1, <1>2, <2>2, <3>1, <3>2 DEF NoAnswer
  <2> QED BY <2>1, <2>2
<1> QED BY <1>2, <1>4, <1>5

LEMMA NoTrackerInv ==
    ASSUME TrackersInv, NEW k \in DOMAIN tiers, NoTracker(k)
    PROVE  TrackersInv' /\ UNCHANGED <<tiers, answer, heard>>
<1> USE DEF TrackersInv, TrackersTypeOK, NoTracker
<1>1. TrackersTypeOK'
  BY DEF Steps
<1>2. TiersFollow'
  BY DEF TiersFollow
<1> QED BY <1>1, <1>2

LEMMA TrackerFailsInv ==
    ASSUME TrackersInv, NEW k \in DOMAIN tiers, TrackerFails(k), step[k] # "done"
    PROVE  TrackersInv' /\ UNCHANGED <<tiers, answer, heard>>
<1> USE DEF TrackersInv, TrackersTypeOK, TrackerFails
<1>1. TrackersTypeOK'
  BY DEF Steps
<1>2. TiersFollow'
  BY DEF TiersFollow
<1> QED BY <1>1, <1>2

\* The answer that settles a tier is the only one the tier contributes.
LEMMA TrackerAnswersInv ==
    ASSUME TrackersInv, NEW k \in DOMAIN tiers, NEW peers \in Named, step[k] # "done",
           TrackerAnswers(k, peers), heard' = heard \cup peers, heard = TrackerPeers
    PROVE  TrackersInv' /\ heard' = TrackerPeers'
<1> USE DEF TrackersInv, TrackersTypeOK, TrackerAnswers
<1>1. TrackersTypeOK'
  BY DEF Steps
<1>2. TiersFollow'
  BY DEF TiersFollow
<1>3. answer[k].peers = {}
  BY DEF TiersFollow, NoAnswer
<1>4. /\ answer'[k].peers = peers /\ tiers' = tiers
      /\ \A j \in DOMAIN tiers : j # k => answer'[j] = answer[j]
  OBVIOUS
<1>5. TrackerPeers' = TrackerPeers \cup peers
  BY <1>3, <1>4 DEF TrackerPeers
<1> QED BY <1>1, <1>2, <1>5

LEMMA HttpPeers == ASSUME NEW peers \in HttpAnswers PROVE peers \in Named
<1>1. ASSUME NEW reply \in HttpReplies PROVE ParseResponse(reply) \in Named
  BY DEF HttpReplies, ParseResponse, Named
<1> QED BY <1>1 DEF HttpAnswers

LEMMA TrackerStepInv ==
    ASSUME TrackersInv, heard = TrackerPeers, TrackerStep
    PROVE  TrackersInv' /\ heard' = TrackerPeers' /\ tiers' = tiers
<1> PICK k \in DOMAIN tiers :
        \/ NextTracker(k) \/ NoTracker(k) \/ HttpAnswer(k) \/ HttpFails(k)
        \/ UdpConnected(k) \/ UdpAnswer(k) \/ UdpInvalid(k) \/ UdpFails(k)
  BY DEF TrackerStep
<1>1. ASSUME TrackersInv', UNCHANGED <<tiers, answer, heard>>
      PROVE  TrackersInv' /\ heard' = TrackerPeers' /\ tiers' = tiers
  BY <1>1 DEF TrackerPeers
<1>2. CASE NextTracker(k) \/ NoTracker(k)
  BY <1>1, <1>2, NextTrackerInv, NoTrackerInv
<1>3. CASE HttpFails(k) \/ UdpFails(k) \/ UdpInvalid(k)
  <2>1. TrackerFails(k) /\ step[k] # "done"
    BY <1>3 DEF HttpFails, UdpFails, UdpInvalid
  <2> QED BY <1>1, <2>1, TrackerFailsInv
<1>4. CASE HttpAnswer(k)
  <2>1. PICK peers \in HttpAnswers : TrackerAnswers(k, peers) /\ heard' = heard \cup peers
    BY <1>4 DEF HttpAnswer
  <2>2. step[k] # "done" /\ peers \in Named /\ tiers' = tiers
    BY <1>4, <2>1, HttpPeers DEF HttpAnswer, TrackerAnswers
  <2> QED BY <2>1, <2>2, TrackerAnswersInv
<1>5. CASE UdpConnected(k)
  <2>1. inbox' \in [DOMAIN tiers -> SUBSET Datagrams]
    BY <1>5 DEF UdpConnected, Received, TrackersInv, TrackersTypeOK
  <2>2. TrackersTypeOK'
    BY <1>5, <2>1 DEF UdpConnected, TrackersInv, TrackersTypeOK, Steps
  <2>3. TiersFollow'
    BY <1>5 DEF UdpConnected, TrackersInv, TrackersTypeOK, TiersFollow
  <2> QED BY <1>1, <1>5, <2>2, <2>3 DEF UdpConnected, TrackersInv
<1>6. CASE UdpAnswer(k)
  <2>1. PICK d \in inbox[k] : /\ Validate(d, Announce, AnnounceId)
                            /\ TrackerAnswers(k, d.peers)
                            /\ heard' = IF d.tid = AnnounceId THEN heard \cup d.peers ELSE heard
    BY <1>6 DEF UdpAnswer
  <2>2. d.peers \in Named
    BY DEF TrackersInv, TrackersTypeOK, Datagrams
  <2>3. step[k] # "done" /\ heard' = heard \cup d.peers /\ tiers' = tiers
    BY <1>6, <2>1 DEF UdpAnswer, Validate, TrackerAnswers
  <2> QED BY <2>1, <2>2, <2>3, TrackerAnswersInv
<1> QED BY <1>2, <1>3, <1>4, <1>5, <1>6

LEMMA UdpReplyInv ==
    ASSUME TrackersInv, NEW k \in DOMAIN tiers, UdpReply(k)
    PROVE  TrackersInv' /\ UNCHANGED <<tiers, ask, tried, step, answer, heard>>
<1>1. inbox' \in [DOMAIN tiers -> SUBSET Datagrams]
  <2>1. PICK peers \in SUBSET Peers, a \in {Connect, Announce, Failure},
             id \in {ConnectId, AnnounceId} :
                inbox' = [inbox EXCEPT ![k] = @ \cup {Datagram(a, id, peers)}]
    BY DEF UdpReply
  <2>2. Datagram(a, id, peers) \in Datagrams
    BY DEF Datagram, Datagrams, Named
  <2> QED BY <2>1, <2>2 DEF TrackersInv, TrackersTypeOK
<1>2. UNCHANGED <<tiers, ask, tried, step, answer, heard>>
  BY DEF UdpReply
<1> QED BY <1>1, <1>2 DEF TrackersInv, TrackersTypeOK, TiersFollow

-----------------------------------------------------------------------------
(* The lookup.                                                             *)

\* What the lookup receives first of an answer holds the peers the answer names.
LEMMA PeersFirst ==
    ASSUME NEW r \in Responses
    PROVE  \/ Events(r) = <<>> /\ r.values = {}
           \/ Events(r) # <<>> /\ Head(Events(r)).peers = r.values
<1> DEFINE peers == [type |-> "peers", peers |-> r.values, nodes |-> {}]
           nodes == [type |-> "nodes", peers |-> {}, nodes |-> r.nodes]
           token == [type |-> "token", peers |-> {}, nodes |-> {}]
           S == {peers, nodes, token}
           first == IF r.hasValues THEN <<peers>> ELSE <<>>
           second == IF r.hasNodes THEN <<nodes>> ELSE <<>>
           third == IF r.token /\ r.id THEN <<token>> ELSE <<>>
<1>1. Events(r) = first \o second \o third
  BY DEF Events
<1>2. first \in Seq(S) /\ second \in Seq(S) /\ third \in Seq(S)
  <2>1. <<peers>> \in Seq(S) /\ <<nodes>> \in Seq(S) /\ <<token>> \in Seq(S) /\ <<>> \in Seq(S)
    OBVIOUS
  <2> HIDE DEF peers, nodes, token, S
  <2> QED BY <2>1
<1>3. ~r.hasValues => r.values = {}
  BY DEF Responses
<1>4. peers.peers = r.values /\ nodes.peers = {} /\ token.peers = {}
  OBVIOUS
<1> HIDE DEF peers, nodes, token, S
<1>5. CASE r.hasValues
  <2>1. first = <<peers>>
    BY <1>5
  <2>2. first \o second \o third # <<>> /\ Head(first \o second \o third) = peers
    BY <1>2, <2>1
  <2> QED BY <1>1, <1>4, <2>2
<1>6. CASE ~r.hasValues /\ r.hasNodes
  <2>1. first = <<>> /\ second = <<nodes>>
    BY <1>6
  <2>2. first \o second \o third # <<>> /\ Head(first \o second \o third) = nodes
    BY <1>2, <2>1
  <2> QED BY <1>1, <1>3, <1>4, <1>6, <2>2
<1>7. CASE ~r.hasValues /\ ~r.hasNodes
  <2>1. first = <<>> /\ second = <<>>
    BY <1>7
  <2>2. first \o second \o third = third
    <3>1. \A t \in Seq(S) : <<>> \o <<>> \o t = t
      OBVIOUS
    <3> QED BY <1>2, <2>1, <3>1
  <2>3. third = <<>> \/ (third # <<>> /\ Head(third) = token)
    OBVIOUS
  <2> QED BY <1>1, <1>3, <1>4, <1>7, <2>2, <2>3
<1> QED BY <1>5, <1>6, <1>7

LEMMA EventsType ==
    ASSUME NEW r PROVE <<>> \o Events(r) = Events(r)
<1> DEFINE peers == [type |-> "peers", peers |-> r.values, nodes |-> {}]
           nodes == [type |-> "nodes", peers |-> {}, nodes |-> r.nodes]
           token == [type |-> "token", peers |-> {}, nodes |-> {}]
           S == {peers, nodes, token}
<1>1. \A a, b, c \in Seq(S) : a \o b \o c \in Seq(S)
  OBVIOUS
<1>2. Events(r) \in Seq(S)
  <2>1. <<peers>> \in Seq(S) /\ <<nodes>> \in Seq(S) /\ <<token>> \in Seq(S) /\ <<>> \in Seq(S)
    OBVIOUS
  <2> QED BY <1>1, <2>1 DEF Events
<1> QED BY <1>2

LEMMA DhtStepInv == ASSUME LookupInv, DhtStep, UNCHANGED heard PROVE LookupInv'
<1> USE DEF LookupInv
<1>1. CASE FindNode
  BY <1>1 DEF FindNode
<1>2. CASE LookupStart
  BY <1>2 DEF LookupStart
<1>3. CASE SkipVisited
  BY <1>3 DEF SkipVisited
<1>4. CASE Query
  <2>1. pending = {} /\ heard = dhtPeers
    BY <1>4 DEF Query
  <2> QED BY <1>4, <2>1 DEF Query
<1>5. CASE TakeEvent
  BY <1>5 DEF TakeEvent
<1>6. CASE NoEvent
  BY <1>6 DEF NoEvent
<1>7. CASE CleanUp
  BY <1>7 DEF CleanUp
<1>8. CASE LookupEnd
  BY <1>8 DEF LookupEnd
<1> QED BY <1>1, <1>2, <1>3, <1>4, <1>5, <1>6, <1>7, <1>8 DEF DhtStep

LEMMA HandleResponseInv == ASSUME LookupInv, HandleResponse PROVE LookupInv'
<1> USE DEF LookupInv
<1> PICK q \in asked, r \in Responses :
        LET awaited == q.tid \in pending
        IN  /\ ~awaited => ~r.hasValues /\ ~r.hasNodes /\ ~r.token
            /\ asked' = asked \ {q}
            /\ table' \in Added((IF r.id THEN {q.node} ELSE {}) \cup r.nodes)
            /\ pending' = pending \ {q.tid}
            /\ mailbox' = IF awaited THEN mailbox \o Events(r) ELSE mailbox
            /\ heard' = IF awaited /\ dhtAt = "wait" THEN heard \cup r.values ELSE heard
  BY DEF HandleResponse
<1>1. UNCHANGED <<dhtAt, awaiting, dhtPeers>>
  BY DEF HandleResponse
<1>2. CASE q.tid \notin pending \/ dhtAt # "wait"
  BY <1>1, <1>2
<1>3. CASE q.tid \in pending /\ dhtAt = "wait"
  <2>1. pending' = {} /\ mailbox = <<>> /\ heard = dhtPeers /\ heard' = dhtPeers \cup r.values
    BY <1>3
  <2>2. mailbox' = Events(r)
    <3>1. <<>> \o Events(r) = Events(r)
      BY EventsType
    <3> QED BY <1>3, <2>1, <3>1
  <2> QED BY <1>1, <1>3, <2>1, <2>2, PeersFirst
<1> QED BY <1>2, <1>3

-----------------------------------------------------------------------------
(* The exchange.                                                           *)

LEMMA NoneIsNotSome == \A data : None # Some(data)
BY DEF None, Some

LEMMA ExchangeStays == ASSUME ExchangeSound, UNCHANGED metadataVars PROVE ExchangeSound'
BY DEF ExchangeSound, PiecesCounted, HonestSoFar, metadataVars

LEMMA ResetSound ==
    ASSUME NEW result, result \notin {"requests", "pieces"}, Reset(result)
    PROVE  ExchangeSound'
<1>1. claimed' = 0 /\ DOMAIN pieces' = {} /\ received' = 0 /\ exAt' = result
  BY DEF Reset
<1>2. 0 .. 0 - 1 = {} /\ {i \in DOMAIN pieces' : pieces'[i] # None} = {}
  BY <1>1
<1>3. Cardinality({}) = 0
  BY FS_EmptySet
<1> QED BY <1>1, <1>2, <1>3 DEF ExchangeSound, PiecesCounted, HonestSoFar

LEMMA HelloSound == ASSUME ExchangeSound, ReceiveHello PROVE ExchangeSound'
<1>1. /\ claimed' \in Nat /\ received' = received /\ exAt = "hello" /\ exAt' = "requests"
      /\ pieces' = [i \in 0 .. claimed' - 1 |-> None] /\ lied' = (claimed' # InfoPieces)
  BY DEF ReceiveHello
<1>2. received = 0
  <2>1. claimed = 0 /\ DOMAIN pieces = 0 .. claimed - 1
        /\ received = Cardinality({i \in DOMAIN pieces : pieces[i] # None})
    BY <1>1 DEF ExchangeSound, PiecesCounted
  <2>2. {i \in DOMAIN pieces : pieces[i] # None} = {}
    BY <2>1
  <2> QED BY <2>1, <2>2, FS_EmptySet
<1>3. {i \in DOMAIN pieces' : pieces'[i] # None} = {} /\ Cardinality({}) = 0
  BY <1>1, FS_EmptySet
<1>4. pieces' \in [0 .. claimed' - 1 -> {None} \cup {Some(data) : data \in Payloads}]
      /\ DOMAIN pieces' = 0 .. claimed' - 1
  BY <1>1
<1>5. PiecesCounted'
  BY <1>1, <1>2, <1>3, <1>4 DEF PiecesCounted
<1>6. HonestSoFar'
  BY <1>1 DEF HonestSoFar
<1> QED BY <1>5, <1>6 DEF ExchangeSound

\* A repeated piece changes nothing; a new one is one more that is kept and counted.
LEMMA PieceSound == ASSUME ExchangeSound, ReceivePiece PROVE ExchangeSound'
<1>1. PICK i \in DOMAIN pieces, data \in Payloads :
         Keep(i, data) /\ lied' = (lied \/ (pieces[i] = None /\ data # <<i>>))
  BY DEF ReceivePiece
<1> DEFINE present == {k \in DOMAIN pieces : pieces[k] # None}
           Kept == {None} \cup {Some(d) : d \in Payloads}
<1>2. /\ exAt = "pieces" /\ exAt' = exAt /\ claimed' = claimed /\ claimed \in Nat
      /\ DOMAIN pieces = 0 .. claimed - 1 /\ received = Cardinality(present)
      /\ pieces \in [0 .. claimed - 1 -> Kept]
  BY DEF ReceivePiece, ExchangeSound, PiecesCounted
<1>3. CASE pieces[i] # None
  <2>1. pieces' = pieces /\ received' = received
    BY <1>1, <1>3 DEF Keep
  <2>2. ~lied' => ~lied
    BY <1>1
  <2> QED BY <1>2, <2>1, <2>2 DEF ExchangeSound, PiecesCounted, HonestSoFar
<1>4. CASE pieces[i] = None
  <2>1. pieces' = [pieces EXCEPT ![i] = Some(data)] /\ received' = received + 1
    BY <1>1, <1>4 DEF Keep
  <2>2. pieces' \in [0 .. claimed - 1 -> Kept] /\ DOMAIN pieces' = 0 .. claimed - 1
    <3>1. Some(data) \in Kept
      OBVIOUS
    <3> HIDE DEF Kept
    <3> QED BY <1>2, <2>1, <3>1
  <2>3. {k \in DOMAIN pieces' : pieces'[k] # None} = present \cup {i} /\ i \notin present
    BY <1>2, <1>4, <2>1, <2>2, NoneIsNotSome
  <2>4. IsFiniteSet(present)
    <3>1. IsFiniteSet(0 .. claimed - 1)
      BY <1>2, FS_Interval
    <3> QED BY <1>2, <3>1, FS_Subset
  <2>5. Cardinality(present \cup {i}) = received + 1
    BY <1>2, <2>3, <2>4, FS_AddElement
  <2>6. PiecesCounted'
    BY <1>2, <2>1, <2>2, <2>3, <2>5 DEF PiecesCounted
  <2>7. HonestSoFar'
    <3>1. SUFFICES ASSUME ~lied'
                   PROVE  /\ claimed' = InfoPieces
                          /\ \A k \in DOMAIN pieces' : pieces'[k] # None => pieces'[k] = Some(<<k>>)
      BY DEF HonestSoFar
    <3>2. ~lied /\ data = <<i>>
      BY <1>1, <1>4, <3>1
    <3>3. /\ claimed = InfoPieces
          /\ \A k \in DOMAIN pieces : pieces[k] # None => pieces[k] = Some(<<k>>)
      BY <1>2, <3>2 DEF ExchangeSound, HonestSoFar
    <3> QED BY <1>2, <2>1, <2>2, <3>2, <3>3
  <2> QED BY <2>6, <2>7 DEF ExchangeSound
<1> QED BY <1>3, <1>4

LEMMA ExchangeInv == ASSUME ExchangeSound, ExchangeStep \/ PeerStep PROVE ExchangeSound'
<1>1. ASSUME UNCHANGED <<claimed, pieces, received, lied>>,
             exAt' \in {"connect", "handshake", "hello"} =>
                exAt \in {"connect", "handshake", "hello"},
             exAt' \in {"requests", "pieces"} => exAt \in {"requests", "pieces"}
      PROVE  ExchangeSound'
  BY <1>1 DEF ExchangeSound, PiecesCounted, HonestSoFar
<1>2. CASE ExchangeConnect \/ Handshake \/ SendRequests \/ HangUp \/ KeepBusy
  BY <1>1, <1>2 DEF ExchangeConnect, Handshake, SendRequests, GoesOn, HangUp, KeepBusy
<1>3. CASE NoConnection \/ BadHello \/ ExchangeError \/ PeerFails
  <2>1. Reset("failed")
    BY <1>3 DEF NoConnection, BadHello, ExchangeError, PeerFails, ExchangeFails
  <2> QED BY <2>1, ResetSound
<1>4. CASE ExchangePanics
  BY <1>4, ResetSound DEF ExchangePanics
<1>5. CASE ReceiveHello
  BY <1>5, HelloSound
<1>6. CASE ReceivePiece
  BY <1>6, PieceSound
<1>7. CASE ReadOther
  BY <1>7, ExchangeStays DEF ReadOther
<1>8. CASE Assemble
  <2>1. CASE ExchangeFails
    BY <2>1, ResetSound DEF ExchangeFails
  <2>2. CASE exAt' = "fetched" /\ UNCHANGED <<claimed, pieces, received, link, lied>>
    BY <1>1, <2>2
  <2> QED BY <1>8, <2>1, <2>2 DEF Assemble
<1> QED BY <1>2, <1>3, <1>4, <1>5, <1>6, <1>7, <1>8 DEF ExchangeStep, PeerStep

-----------------------------------------------------------------------------
(* download(), up to its peers.                                            *)

LEMMA InitInv == Init => IInv
<1> SUFFICES ASSUME Init PROVE IInv
  OBVIOUS
<1>1. TrackersInv /\ heard = TrackerPeers
  <2>1. tiers \in Seq(Seq(URLs))
    BY TiersType DEF Init
  <2> QED BY <2>1, AnnounceInitInv DEF Init
<1>2. HeardByTiers /\ HeardByLookup /\ FlowFollows
  BY <1>1 DEF Init, HeardByTiers, HeardByLookup, FlowFollows
<1>3. ExchangeSound
  <2>1. exAt = "off" /\ claimed = 0 /\ DOMAIN pieces = {} /\ received = 0
    BY DEF Init, ExchangeOff
  <2>2. 0 .. 0 - 1 = {} /\ {i \in DOMAIN pieces : pieces[i] # None} = {} /\ Cardinality({}) = 0
    BY <2>1, FS_EmptySet
  <2> QED BY <2>1, <2>2 DEF ExchangeSound, PiecesCounted, HonestSoFar
<1> QED BY <1>1, <1>2, <1>3 DEF IInv, TrackersInv

\* Nothing of the trackers changes.
LEMMA TrackersStay ==
    ASSUME TrackersInv, UNCHANGED <<tiers, ask, tried, step, inbox, answer>>
    PROVE  /\ TrackersInv'
           /\ TrackerPeers' = TrackerPeers /\ Joined' = Joined /\ AnyResponded' = AnyResponded
BY DEF TrackersInv, TrackersTypeOK, TiersFollow, TrackerPeers, Joined, AnyResponded

LEMMA FlowStepInv == ASSUME IInv, FlowStep PROVE IInv'
<1> USE DEF IInv
<1>1. TrackersInv
  BY DEF TrackersInv
<1> DEFINE Stay == UNCHANGED trackerVars
<1>2. ASSUME Stay
      PROVE  /\ TrackersTypeOK' /\ TiersFollow'
             /\ TrackerPeers' = TrackerPeers /\ Joined' = Joined /\ AnyResponded' = AnyResponded
  BY <1>1, <1>2, TrackersStay DEF trackerVars, TrackersInv
<1>3. CASE JoinTiers
  <2>1. Stay /\ found' = TrackerPeers /\ heard = TrackerPeers /\ heard' = heard
        /\ UNCHANGED <<metadataVars, known, outcome>> /\ Joined /\ outcome = "none"
    BY <1>3 DEF JoinTiers, trackerVars, HeardByTiers, FlowFollows
  <2>2. \/ found' = {} /\ at' = "dht" /\ DhtStart
        \/ found' # {} /\ at' = "found" /\ UNCHANGED dhtVars
    BY <1>3 DEF JoinTiers
  <2>3. HeardByLookup'
    BY <2>1, <2>2 DEF HeardByLookup, LookupInv, DhtStart, DhtReset
  <2>4. HeardByTiers' /\ FlowFollows'
    BY <1>2, <2>1, <2>2 DEF HeardByTiers, FlowFollows
  <2>5. ExchangeSound'
    BY <2>1, ExchangeStays
  <2> QED BY <1>2, <2>1, <2>3, <2>4, <2>5
<1>4. CASE JoinDht
  <2>1. Stay /\ found' = dhtPeers /\ heard' = heard /\ heard = dhtPeers
        /\ at \in {"dht", "second_dht"}
        /\ UNCHANGED <<metadataVars, known, outcome>> /\ outcome = "none"
    BY <1>4 DEF JoinDht, trackerVars, HeardByLookup, LookupInv, FlowFollows
  <2>2. at' = "found" \/ (at' = "second_start" /\ found' = {})
    BY <1>4 DEF JoinDht
  <2>3. HeardByTiers' /\ HeardByLookup' /\ FlowFollows'
    BY <1>2, <2>1, <2>2 DEF HeardByTiers, HeardByLookup, FlowFollows
  <2>4. ExchangeSound'
    BY <2>1, ExchangeStays
  <2> QED BY <1>2, <2>1, <2>3, <2>4
<1>5. CASE SecondDht
  <2>1. Stay /\ at = "second_start" /\ at' = "second_dht" /\ heard' = heard
        /\ UNCHANGED <<metadataVars, known, found, outcome>>
    BY <1>5 DEF SecondDht, trackerVars
  <2>2. HeardByLookup'
    BY <1>5, <2>1 DEF SecondDht, HeardByLookup, LookupInv, DhtStart, DhtReset, FlowFollows
  <2>3. HeardByTiers' /\ FlowFollows'
    BY <1>2, <2>1 DEF HeardByTiers, FlowFollows
  <2>4. ExchangeSound'
    BY <2>1, ExchangeStays
  <2> QED BY <1>2, <2>1, <2>2, <2>3, <2>4
<1>6. ASSUME NEW result, Return(result), at # "trackers",
             result = "EmptySwarm" => TrackerPeers = {} /\ AnyResponded,
             result = "NoTrackers" /\ known => ~AnyResponded
      PROVE  IInv'
  <2>1. Stay /\ at' = "over" /\ outcome' = result /\ UNCHANGED <<metadataVars, known>>
    BY <1>6 DEF Return, trackerVars
  <2>2. HeardByTiers' /\ HeardByLookup' /\ FlowFollows'
    BY <1>2, <1>6, <2>1 DEF HeardByTiers, HeardByLookup, FlowFollows
  <2>3. ExchangeSound'
    BY <2>1, ExchangeStays
  <2> QED BY <1>2, <2>1, <2>2, <2>3
<1>7. CASE Decide
  BY <1>6, <1>7 DEF Decide, FlowFollows
<1>8. CASE NobodyToFetchFrom
  BY <1>6, <1>8 DEF NobodyToFetchFrom
<1>9. CASE BeginFetch \/ AskPeer
  <2>1. Stay /\ at \in {"found", "fetch"} /\ at' = "fetch" /\ UNCHANGED <<known, found, outcome>>
    BY <1>9 DEF BeginFetch, AskPeer, trackerVars
  <2>2. HeardByTiers' /\ HeardByLookup' /\ FlowFollows'
    BY <1>2, <2>1 DEF HeardByTiers, HeardByLookup, FlowFollows
  <2>3. UNCHANGED metadataVars \/ Reset("connect")
    BY <1>9 DEF BeginFetch, AskPeer, ExchangeStart
  <2>4. ExchangeSound'
    <3>1. CASE Reset("connect")
      BY <3>1, ResetSound
    <3> QED BY <2>3, <3>1, ExchangeStays
  <2> QED BY <1>2, <2>1, <2>2, <2>4
<1>10. CASE FetchFailed
  BY <1>6, <1>10 DEF FetchFailed
<1>11. CASE Fetched
  <2>1. TrackersInv' /\ heard' = TrackerPeers'
    BY <1>1, <1>11, AnnounceAgainInv DEF Fetched
  <2>2. at' = "trackers" /\ outcome' = outcome /\ outcome = "none"
    BY <1>11 DEF Fetched, FlowFollows
  <2>3. ExchangeSound'
    BY <1>11, ResetSound DEF Fetched
  <2>4. HeardByTiers' /\ HeardByLookup' /\ FlowFollows'
    BY <2>1, <2>2 DEF HeardByTiers, HeardByLookup, FlowFollows
  <2> QED BY <2>1, <2>3, <2>4 DEF TrackersInv
<1>12. CASE Panicked
  BY <1>6, <1>12 DEF Panicked
<1> QED BY <1>3, <1>4, <1>5, <1>7, <1>8, <1>9, <1>10, <1>11, <1>12 DEF FlowStep

\* A step of the trackers, the DHT or the exchange leaves the rest alone.
LEMMA TurnInv ==
    ASSUME IInv, UNCHANGED flowVars,
           TrackerTurn \/ UdpTracker \/ DhtTurn \/ DhtAnswer \/ ExchangeTurn \/ PeerTurn
    PROVE  IInv'
<1> USE DEF IInv
<1>1. TrackersInv
  BY DEF TrackersInv
<1>2. UNCHANGED <<at, known, found, outcome>>
  BY DEF flowVars
<1>3. ASSUME UNCHANGED metadataVars PROVE ExchangeSound'
  BY <1>3, ExchangeStays
<1>4. ASSUME UNCHANGED <<tiers, ask, tried, step, inbox, answer>>
      PROVE  TrackersTypeOK' /\ TiersFollow' /\ (at \notin {"found", "second_start"} => FlowFollows')
  <2>1. /\ TrackersInv'
        /\ TrackerPeers' = TrackerPeers /\ Joined' = Joined /\ AnyResponded' = AnyResponded
    BY <1>1, <1>4, TrackersStay
  <2>2. ASSUME at # "found", at # "second_start" PROVE FlowFollows'
    BY <1>2, <2>1, <2>2 DEF FlowFollows
  <2> QED BY <2>1, <2>2 DEF TrackersInv
<1>5. CASE TrackerTurn
  <2>1. at = "trackers" /\ TrackerStep /\ UNCHANGED <<dhtVars, metadataVars>>
    BY <1>5 DEF TrackerTurn
  <2>2. TrackersInv' /\ heard' = TrackerPeers' /\ tiers' = tiers
    BY <1>1, <2>1, TrackerStepInv DEF HeardByTiers
  <2>3. HeardByTiers' /\ HeardByLookup' /\ FlowFollows'
    BY <1>2, <2>1, <2>2 DEF HeardByTiers, HeardByLookup, FlowFollows
  <2> QED BY <1>3, <2>1, <2>2, <2>3 DEF TrackersInv
<1>6. CASE UdpTracker
  <2>1. at = "trackers" /\ UNCHANGED <<dhtVars, metadataVars>>
    BY <1>6 DEF UdpTracker
  <2>2. PICK k \in DOMAIN tiers : UdpReply(k)
    BY <1>6 DEF UdpTracker
  <2>3. TrackersInv' /\ UNCHANGED <<tiers, answer, heard>>
    BY <1>1, <2>2, UdpReplyInv
  <2>4. TrackerPeers' = TrackerPeers
    BY <2>3 DEF TrackerPeers
  <2>5. HeardByTiers' /\ HeardByLookup' /\ FlowFollows'
    BY <1>2, <2>1, <2>3, <2>4 DEF HeardByTiers, HeardByLookup, FlowFollows
  <2> QED BY <1>3, <2>1, <2>3, <2>5 DEF TrackersInv
<1>7. CASE DhtTurn
  <2>1. at \in {"dht", "second_dht"} /\ DhtStep /\ UNCHANGED <<trackerVars, metadataVars>>
    BY <1>7 DEF DhtTurn
  <2>2. LookupInv'
    BY <2>1, DhtStepInv DEF HeardByLookup, LookupInv, trackerVars
  <2>3. HeardByTiers' /\ HeardByLookup'
    BY <1>2, <2>1, <2>2 DEF HeardByTiers, HeardByLookup, LookupInv
  <2> QED BY <1>3, <1>4, <2>1, <2>3 DEF trackerVars
<1>8. CASE DhtAnswer
  <2>1. at \in {"dht", "second_dht"} /\ HandleResponse
        /\ UNCHANGED <<tiers, ask, tried, step, inbox, answer, metadataVars>>
    BY <1>8 DEF DhtAnswer
  <2>2. LookupInv'
    BY <2>1, HandleResponseInv DEF HeardByLookup, LookupInv
  <2>3. HeardByTiers' /\ HeardByLookup'
    BY <1>2, <2>1, <2>2 DEF HeardByTiers, HeardByLookup, LookupInv
  <2> QED BY <1>3, <1>4, <2>1, <2>3
<1>9. CASE ExchangeTurn \/ PeerTurn
  <2>1. at = "fetch" /\ (ExchangeStep \/ PeerStep) /\ UNCHANGED <<trackerVars, dhtVars>>
    BY <1>9 DEF ExchangeTurn, PeerTurn
  <2>2. ExchangeSound'
    BY <2>1, ExchangeInv
  <2>3. HeardByTiers' /\ HeardByLookup'
    BY <1>2, <2>1 DEF HeardByTiers, HeardByLookup
  <2> QED BY <1>4, <2>1, <2>2, <2>3 DEF trackerVars
<1> QED BY <1>5, <1>6, <1>7, <1>8, <1>9

LEMMA NextKeepsInv == IInv /\ [Next]_vars => IInv'
<1> SUFFICES ASSUME IInv, [Next]_vars PROVE IInv'
  OBVIOUS
<1>1. CASE FlowStep
  BY <1>1, FlowStepInv
<1>2. CASE TrackerTurn \/ UdpTracker \/ DhtTurn \/ DhtAnswer \/ ExchangeTurn \/ PeerTurn
  <2>1. UNCHANGED flowVars
    BY <1>2 DEF TrackerTurn, UdpTracker, DhtTurn, DhtAnswer, ExchangeTurn, PeerTurn
  <2> QED BY <1>2, <2>1, TurnInv
<1>3. CASE UNCHANGED vars
  <2>1. UNCHANGED <<trackerVars, dhtVars, metadataVars, flowVars>>
    BY <1>3 DEF vars
  <2>2. /\ TrackersInv'
        /\ TrackerPeers' = TrackerPeers /\ Joined' = Joined /\ AnyResponded' = AnyResponded
    BY <2>1, TrackersStay DEF IInv, TrackersInv, trackerVars
  <2>3. HeardByTiers' /\ HeardByLookup' /\ FlowFollows'
    BY <2>1, <2>2 DEF IInv, HeardByTiers, HeardByLookup, FlowFollows, LookupInv, trackerVars,
       dhtVars, flowVars
  <2>4. ExchangeSound'
    BY <2>1, ExchangeStays DEF IInv
  <2> QED BY <2>2, <2>3, <2>4 DEF IInv, TrackersInv
<1> QED BY <1>1, <1>2, <1>3 DEF Next, Ours, Over

LEMMA InvHolds == Spec => []IInv
BY InitInv, NextKeepsInv, PTL DEF Spec

-----------------------------------------------------------------------------
\* The peers download() goes on with are those that answers to this announce named:
\* no left-over datagram adds one, and no peer of an answer that was waited for is lost.
THEOREM PeersAreHeard == Spec => []PeersHeard
<1>1. IInv => PeersHeard
  BY DEF IInv, FlowFollows, PeersHeard
<1> QED BY <1>1, InvHolds, PTL

\* "No trackers responded" means that every tracker of every tier was tried in vain, an
\* empty swarm that one answered and none named a peer.
THEOREM VerdictsHonest == Spec => []VerdictHonest
<1>1. IInv => VerdictHonest
  <2> SUFFICES ASSUME IInv PROVE VerdictHonest
    OBVIOUS
  <2>1. ASSUME outcome = "NoTrackers", known, NEW k \in DOMAIN tiers
        PROVE  tried[k] = ToSet(tiers[k]) /\ ~answer[k].responded
    <3>1. Joined /\ ~AnyResponded
      BY <2>1 DEF IInv, FlowFollows
    <3>2. step[k] = "done" /\ ~answer[k].responded
      BY <3>1 DEF Joined, AnyResponded
    <3>3. tried[k] \cup ToSet(ask[k]) = ToSet(tiers[k]) /\ ToSet(ask[k]) = {}
      BY <3>2, ToSetEmpty DEF IInv, TiersFollow
    <3> QED BY <3>2, <3>3
  <2>2. ASSUME outcome = "EmptySwarm"
        PROVE  AnyResponded /\ \A k \in DOMAIN tiers : answer[k].peers = {}
    BY <2>2 DEF IInv, FlowFollows, TrackerPeers
  <2> QED BY <2>1, <2>2 DEF VerdictHonest
<1> QED BY <1>1, InvHolds, PTL

\* A peer that is honest about the size and the first data of each piece is never
\* refused for a wrong hash, however many pieces the info dict has and whatever else the
\* peer sends: when the counter says that all pieces are there, each of them is.
THEOREM HonestPeersTrusted == Spec => []HonestPeerTrusted
<1>1. IInv => HonestPeerTrusted
  <2> SUFFICES ASSUME IInv, exAt = "pieces", received = claimed, ~lied PROVE HashMatches
    BY DEF HonestPeerTrusted
  <2> DEFINE present == {i \in DOMAIN pieces : pieces[i] # None}
             Kept == {None} \cup {Some(data) : data \in Payloads}
  <2>1. /\ claimed = InfoPieces /\ claimed \in Nat /\ DOMAIN pieces = 0 .. claimed - 1
        /\ received = Cardinality(present) /\ pieces \in [0 .. claimed - 1 -> Kept]
        /\ \A i \in DOMAIN pieces : pieces[i] # None => pieces[i] = Some(<<i>>)
    BY DEF IInv, ExchangeSound, PiecesCounted, HonestSoFar
  <2>2. IsFiniteSet(0 .. claimed - 1) /\ Cardinality(0 .. claimed - 1) = claimed
    BY <2>1, FS_Interval
  <2>3. present = 0 .. claimed - 1
    BY <2>1, <2>2, FS_Subset
  <2>4. \A i \in 0 .. claimed - 1 : pieces[i] = Some(<<i>>)
    BY <2>1, <2>3
  <2> HIDE DEF Kept
  <2>5. pieces = HonestPieces
    BY <2>1, <2>4 DEF HonestPieces
  <2> QED BY <2>5 DEF HashMatches
<1> QED BY <1>1, InvHolds, PTL
=============================================================================
