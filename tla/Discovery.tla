------------------------------ MODULE Discovery ------------------------------
(***************************************************************************)
(* What download() does before its first peer task: fetch the metadata if  *)
(* it was given a magnet link, then find peers (src/src/download.rs:       *)
(* 108-118, 144-156, 568-684), composed of Trackers, Dht and Metadata.     *)
(***************************************************************************)
EXTENDS Dht, Metadata

CONSTANTS
    FetchLimit      \* peers asked for metadata: 20

ASSUME DiscoveryConstants == FetchLimit \in Nat

VARIABLES
    at,             \* "trackers", "dht", "second_start", "second_dht", "found", "fetch", "over"
    magnet,         \* download() was given a magnet link
    known,          \* the metadata is known, from the torrent or fetched
    found,          \* the peers of announce_all
    candidates,     \* peers still to be asked for metadata
    outcome

flowVars == <<at, magnet, known, found, candidates, outcome>>
vars == <<trackerVars, dhtVars, metadataVars, flowVars>>

Init ==
    /\ magnet \in BOOLEAN
    /\ tiers = (IF magnet THEN MagnetTiers ELSE TorrentTiers)
    /\ AnnounceInit
    /\ DhtOff /\ ExchangeOff
    /\ at = "trackers" /\ known = ~magnet
    /\ found = {} /\ candidates = {} /\ outcome = "none"

\* Every tier has been joined.  Without a peer the DHT is tried.
JoinTiers ==
    /\ at = "trackers" /\ Joined
    /\ found' = TrackerPeers
    /\ IF found' = {} THEN at' = "dht" /\ DhtStart ELSE at' = "found" /\ UNCHANGED dhtVars
    /\ UNCHANGED <<trackerVars, metadataVars, magnet, known, candidates, outcome>>

\* The lookup is over, or the socket could not be bound.
JoinDht ==
    /\ at \in {"dht", "second_dht"} /\ dhtAt \in {"bootstrap", "done"}
    /\ dhtAt = "bootstrap" => greet = Routers /\ asked = {}
    /\ found' = dhtPeers
    /\ at' = IF at = "dht" /\ ~known /\ found' = {} THEN "second_start" ELSE "found"
    /\ DhtDropped
    /\ UNCHANGED <<trackerVars, metadataVars, magnet, known, candidates, outcome>>

\* fetch_magnet_metadata tries the DHT itself when announce_all found nobody.
SecondDht ==
    /\ at = "second_start" /\ at' = "second_dht"
    /\ DhtStart
    /\ UNCHANGED <<trackerVars, metadataVars, magnet, known, found, candidates, outcome>>

Return(result) ==
    /\ at' = "over" /\ outcome' = result
    /\ UNCHANGED <<trackerVars, dhtVars, metadataVars, magnet, known, found, candidates>>

\* download() has its peers, or knows why not.
Decide ==
    /\ at = "found" /\ known
    /\ Return(IF found # {} THEN "peers" ELSE IF AnyResponded THEN "EmptySwarm" ELSE "NoTrackers")

\* The same error whether or not a tracker answered.
NobodyToFetchFrom == at = "found" /\ ~known /\ found = {} /\ Return("NoTrackers")

\* The first peers are asked one after the other.
BeginFetch ==
    /\ at = "found" /\ ~known /\ found # {}
    /\ at' = "fetch"
    /\ \E first \in SUBSET found :
          /\ Cardinality(first) = Min({FetchLimit, Cardinality(found)})
          /\ candidates' = first
    /\ UNCHANGED <<trackerVars, dhtVars, metadataVars, magnet, known, found, outcome>>

AskPeer ==
    /\ at = "fetch" /\ exAt \in {"off", "failed"}
    /\ \E p \in candidates : candidates' = candidates \ {p}
    /\ ExchangeStart
    /\ UNCHANGED <<trackerVars, dhtVars, at, magnet, known, found, outcome>>

FetchFailed ==
    /\ at = "fetch" /\ exAt = "failed" /\ candidates = {}
    /\ Return("NoMetadata")

\* The info dict is parsed; the trackers stay those of the link, and are asked again
\* with what is now known.
Fetched ==
    /\ at = "fetch" /\ exAt = "fetched"
    /\ known' = TRUE /\ at' = "trackers"
    /\ found' = {} /\ candidates' = {}
    /\ AnnounceAgain /\ Reset("off")
    /\ UNCHANGED <<dhtVars, magnet, outcome>>

\* fetch_from_peer runs in the task of download() itself.
Panicked == at = "fetch" /\ exAt = "panicked" /\ Return("panic")

Over == at = "over" /\ UNCHANGED vars

FlowStep ==
    \/ JoinTiers \/ JoinDht \/ SecondDht \/ Decide \/ NobodyToFetchFrom \/ BeginFetch
    \/ AskPeer \/ FetchFailed \/ Fetched \/ Panicked

TrackerTurn ==
    at = "trackers" /\ TrackerStep /\ UNCHANGED <<dhtVars, metadataVars, flowVars>>

UdpTracker ==
    /\ at = "trackers" /\ \E k \in DOMAIN tiers : UdpReply(k)
    /\ UNCHANGED <<dhtVars, metadataVars, flowVars>>

DhtTurn ==
    /\ at \in {"dht", "second_dht"} /\ DhtStep
    /\ UNCHANGED <<trackerVars, metadataVars, flowVars>>

DhtAnswer ==
    /\ at \in {"dht", "second_dht"} /\ HandleResponse
    /\ UNCHANGED <<tiers, ask, tried, step, inbox, answer, metadataVars, flowVars>>

ExchangeTurn == at = "fetch" /\ ExchangeStep /\ UNCHANGED <<trackerVars, dhtVars, flowVars>>

PeerTurn == at = "fetch" /\ PeerStep /\ UNCHANGED <<trackerVars, dhtVars, flowVars>>

Ours == FlowStep \/ TrackerTurn \/ DhtTurn \/ ExchangeTurn

Next == Ours \/ UdpTracker \/ DhtAnswer \/ PeerTurn \/ Over

\* The task of download() is polled when it can run, and its waits for trackers, DHT
\* nodes and a TCP connection have timeouts, as has the wait for the next message of a
\* peer.  No tracker, node or peer is expected to answer.  Steps that wait for a peer
\* without a timeout are the peer's: nothing makes them happen.
Spec == Init /\ [][Next]_vars /\ WF_vars(Ours)

-----------------------------------------------------------------------------
(* Properties                                                              *)

\* The peers found are those that answers to this announce named: none that a
\* left-over datagram named, and none lost that a node named while it was waited
\* for, whatever else its answer held and whatever came in between.
PeersHeard == at = "found" => found = heard

\* Once the metadata is known, "No trackers responded" is only said when every tracker
\* of every tier was tried and none answered; an empty swarm only when one answered and
\* none named a peer.
VerdictHonest ==
    /\ outcome = "NoTrackers" /\ known =>
          \A k \in DOMAIN tiers : tried[k] = ToSet(tiers[k]) /\ ~answer[k].responded
    /\ outcome = "EmptySwarm" =>
          AnyResponded /\ \A k \in DOMAIN tiers : answer[k].peers = {}

\* When the receiving loop has counted its pieces and the peer was honest about the
\* size and the first data of each, what is put together has the hash: no order, no
\* repetition, even with other data, and nothing left of an earlier peer's exchange
\* makes an honest peer's metadata fail.
HonestPeerTrusted == exAt = "pieces" /\ received = claimed /\ ~lied => HashMatches

\* Silence of trackers, DHT nodes and peers ends in peers, an error or a panic.  What can
\* keep download() from that for ever is one peer of the metadata exchange: by silence
\* in the handshake, by not reading what is sent, by hanging up, or by other messages.
DiscoveryEnds ==
    <>(at = "over") \/ <>[](exAt \in {"handshake", "requests"} \/ link # "open")

\* "passing Duration::ZERO causes timeout() to fire immediately" (peer/
\* metadata_exchange.rs:117): the exchange with a peer ends.
ExchangeEnds == exAt = "pieces" ~> exAt # "pieces"
=============================================================================
