------------------------------ MODULE Trackers ------------------------------
(***************************************************************************)
(* The trackers of a torrent and one announce to all of them: announce_all *)
(* (src/src/download.rs:568-634), the UDP protocol of tracker/udp.rs and   *)
(* the answers of tracker/http.rs.  Tiers are asked in parallel, one task  *)
(* each; the trackers of a tier one after the other until one answers.     *)
(*                                                                         *)
(* A UDP exchange has a socket of its own; datagrams may be lost, delayed, *)
(* received twice, or be left over from an earlier use of the port.        *)
(***************************************************************************)
EXTENDS Integers, Sequences, SequencesExt, FiniteSets

CONSTANTS
    Peers,          \* peers of the torrent
    Stale,          \* a peer that only left-over datagrams name
    URLs,
    Scheme,         \* the scheme of a URL: "udp", "http" or another

    AnnounceList,   \* "announce-list" of the torrent file: a sequence of tiers
    AnnounceURL,    \* its "announce", or NoURL
    NoURL,
    MagnetURLs      \* the trackers of the magnet link

ASSUME TrackerConstants ==
    /\ Stale \notin Peers /\ NoURL \notin URLs
    /\ Scheme \in [URLs -> STRING]
    /\ AnnounceList \in Seq(Seq(URLs)) /\ AnnounceURL \in URLs \cup {NoURL}
    /\ MagnetURLs \in Seq(URLs)

VARIABLES
    tiers,
    ask,            \* per tier: trackers not yet asked
    tried,          \* per tier: trackers it asked (a history variable)
    step,           \* per tier: "next", "http", "connect", "announce", "done"
    inbox,          \* per tier: datagrams on their way to its socket
    answer,         \* per tier: what the task returns
    heard           \* peers named in answers to this announce (a history variable)

trackerVars == <<tiers, ask, tried, step, inbox, answer, heard>>

\* The tiers with a tracker among the first n of "announce-list".
Listed[n \in 0 .. Len(AnnounceList)] ==
    IF n = 0 THEN <<>>
    ELSE IF AnnounceList[n] = <<>> THEN Listed[n - 1]
    ELSE Append(Listed[n - 1], AnnounceList[n])

\* parse_trackers: "announce" leads the first tier unless it is in it, or is the only
\* tier.
TorrentTiers ==
    LET listed == Listed[Len(AnnounceList)]
    IN  IF AnnounceURL = NoURL THEN listed
        ELSE IF listed = <<>> THEN <<<<AnnounceURL>>>>
        ELSE IF Contains(Head(listed), AnnounceURL) THEN listed
        ELSE <<<<AnnounceURL>> \o Head(listed)>> \o Tail(listed)

\* placeholder_magnet: every tracker of the link is a tier.
MagnetTiers == [k \in DOMAIN MagnetURLs |-> <<MagnetURLs[k]>>]

NoAnswer == [responded |-> FALSE, peers |-> {}]

\* announce_all begins: a task for every tier.
AnnounceInit ==
    /\ ask = tiers
    /\ tried = [k \in DOMAIN tiers |-> {}]
    /\ step = [k \in DOMAIN tiers |-> "next"]
    /\ inbox = [k \in DOMAIN tiers |-> {}]
    /\ answer = [k \in DOMAIN tiers |-> NoAnswer]
    /\ heard = {}

\* Another announce to the same tiers.
AnnounceAgain ==
    /\ ask' = tiers
    /\ tried' = [k \in DOMAIN tiers |-> {}]
    /\ step' = [k \in DOMAIN tiers |-> "next"]
    /\ inbox' = [k \in DOMAIN tiers |-> {}]
    /\ answer' = [k \in DOMAIN tiers |-> NoAnswer]
    /\ heard' = {}
    /\ UNCHANGED tiers

\* Transaction ids: of the connect request, of the announce, of some other exchange.
ConnectId == 1
AnnounceId == 2
OtherId == 0

\* Actions of a datagram.
Connect == 0
Announce == 1
Failure == 3

Datagram(action, tid, peers) == [action |-> action, tid |-> tid, peers |-> peers]

LeftOver == Datagram(Announce, OtherId, {Stale})

\* Mutant of NextTracker: an unsupported scheme ends the tier.
NextTrackerOrNone(k) ==
    /\ step[k] = "next" /\ ask[k] # <<>>
    /\ LET url == Head(ask[k])
       IN  /\ step' = [step EXCEPT ![k] =
                 CASE Scheme[url] = "udp" -> "connect" [] Scheme[url] = "http" -> "http"
                   [] OTHER -> "done"]
           /\ tried' = [tried EXCEPT ![k] = @ \cup {url}]
    /\ inbox' = [inbox EXCEPT ![k] = {}]
    /\ ask' = [ask EXCEPT ![k] = Tail(@)]
    /\ UNCHANGED <<tiers, answer, heard>>

\* Mutant of NextTracker: the tracker is asked again after a failure.
NextTrackerSame(k) ==
    /\ step[k] = "next" /\ ask[k] # <<>>
    /\ LET url == Head(ask[k])
       IN  /\ step' = [step EXCEPT ![k] =
                 IF Scheme[url] = "udp" THEN "connect" ELSE "http"]
           /\ tried' = [tried EXCEPT ![k] = @ \cup {url}]
    /\ UNCHANGED <<tiers, ask, inbox, answer, heard>>

\* The next tracker of the tier; one of an unsupported scheme is skipped.  A UDP
\* exchange opens its socket and sends the connect request.
NextTracker(k) ==
    /\ step[k] = "next" /\ ask[k] # <<>>
    /\ LET url == Head(ask[k])
       IN  /\ step' = [step EXCEPT ![k] =
                 CASE Scheme[url] = "udp" -> "connect" [] Scheme[url] = "http" -> "http"
                   [] OTHER -> "next"]
           /\ tried' = [tried EXCEPT ![k] = @ \cup {url}]
           /\ \E left \in {{}, {LeftOver}} :
                 /\ Scheme[url] # "udp" => left = {}
                 /\ inbox' = [inbox EXCEPT ![k] = left]
    /\ ask' = [ask EXCEPT ![k] = Tail(@)]
    /\ UNCHANGED <<tiers, answer, heard>>

NoTracker(k) ==
    /\ step[k] = "next" /\ ask[k] = <<>>
    /\ step' = [step EXCEPT ![k] = "done"]
    /\ UNCHANGED <<tiers, ask, tried, inbox, answer, heard>>

\* The tracker does not help: the tier goes on.
TrackerFails(k) ==
    /\ step' = [step EXCEPT ![k] = "next"]
    /\ inbox' = [inbox EXCEPT ![k] = {}]
    /\ UNCHANGED <<tiers, ask, tried, answer, heard>>

\* The first tracker that answers settles the tier, also with no peers.
TrackerAnswers(k, peers) ==
    /\ step' = [step EXCEPT ![k] = "done"]
    /\ inbox' = [inbox EXCEPT ![k] = {}]
    /\ ask' = [ask EXCEPT ![k] = <<>>]
    /\ answer' = [answer EXCEPT ![k] = [responded |-> TRUE, peers |-> peers]]
    /\ UNCHANGED <<tiers, tried>>

\* An HTTP answer: a failure reason, or "peers" in compact form (a length that may be
\* no multiple of 6) or as a list with ports that may be 0, and "peers6".
HttpReplies ==
    [failure : BOOLEAN, compact : BOOLEAN, ragged : BOOLEAN, peers : SUBSET Peers,
     portless : SUBSET Peers, ragged6 : BOOLEAN, peers6 : SUBSET Peers]

Refused(reply) == reply.failure \/ (reply.compact /\ reply.ragged)

\* parse_response: a ragged peers6 is ignored, and list entries without a port are.
ParseResponse(reply) ==
    (IF reply.compact THEN reply.peers ELSE reply.peers \ reply.portless)
        \cup (IF reply.ragged6 THEN {} ELSE reply.peers6)

HttpAnswers == {ParseResponse(reply) : reply \in {r \in HttpReplies : ~Refused(r)}}

HttpAnswer(k) ==
    /\ step[k] = "http"
    /\ \E peers \in HttpAnswers :
          TrackerAnswers(k, peers) /\ heard' = heard \cup peers

\* A refusal, an HTTP status, a body that is not bencode, 30 s without an answer.
HttpFails(k) == step[k] = "http" /\ TrackerFails(k)

\* A UDP tracker answers the request that is open, or reports a failure.
UdpReply(k) ==
    /\ step[k] \in {"connect", "announce"}
    /\ \E peers \in SUBSET Peers :
          LET id == IF step[k] = "connect" THEN ConnectId ELSE AnnounceId
              action == IF step[k] = "connect" THEN Connect ELSE Announce
          IN  /\ step[k] = "connect" => peers = {}
              /\ \A d \in inbox[k] : d.tid # id
              /\ \E a \in {action, Failure} :
                    inbox' = [inbox EXCEPT ![k] = @ \cup {Datagram(a, id, peers)}]
    /\ UNCHANGED <<tiers, ask, tried, step, answer, heard>>

Validate(d, action, tid) == d.tid = tid /\ d.action = action

\* The socket may hold the same datagram once more.
Received(k, d) ==
    /\ d \in inbox[k]
    /\ \E rest \in {inbox[k], inbox[k] \ {d}} : inbox' = [inbox EXCEPT ![k] = rest]

\* The connection id is there: the announce goes out.
UdpConnected(k) ==
    /\ step[k] = "connect"
    /\ \E d \in inbox[k] : Received(k, d) /\ Validate(d, Connect, ConnectId)
    /\ step' = [step EXCEPT ![k] = "announce"]
    /\ UNCHANGED <<tiers, ask, tried, answer, heard>>

UdpAnswer(k) ==
    /\ step[k] = "announce"
    /\ \E d \in inbox[k] :
          /\ Validate(d, Announce, AnnounceId)
          /\ TrackerAnswers(k, d.peers)
          /\ heard' = IF d.tid = AnnounceId THEN heard \cup d.peers ELSE heard

\* What is received first does not fit: the exchange is over, also if it was only a
\* second copy of the connect response.
UdpInvalid(k) ==
    /\ \E d \in inbox[k] :
          \/ step[k] = "connect" /\ ~Validate(d, Connect, ConnectId)
          \/ step[k] = "announce" /\ ~Validate(d, Announce, AnnounceId)
    /\ TrackerFails(k)

\* A bad URL, no address, a socket error, 15 s without a datagram.
UdpFails(k) == step[k] \in {"connect", "announce"} /\ TrackerFails(k)

TrackerStep ==
    \E k \in DOMAIN tiers :
        \/ NextTracker(k) \/ NoTracker(k) \/ HttpAnswer(k) \/ HttpFails(k)
        \/ UdpConnected(k) \/ UdpAnswer(k) \/ UdpInvalid(k) \/ UdpFails(k)

Joined == \A k \in DOMAIN tiers : step[k] = "done"

TrackerPeers == UNION {answer[k].peers : k \in DOMAIN tiers}

AnyResponded == \E k \in DOMAIN tiers : answer[k].responded
=============================================================================
