--------------------------------- MODULE Dht ---------------------------------
(***************************************************************************)
(* One start of the DHT and one lookup (src/src/dht.rs): the bootstrap,    *)
(* the background task that handles packets, the routing table they share, *)
(* and get_peers, which asks one node at a time.  A node is its id and its *)
(* address.                                                                *)
(***************************************************************************)
EXTENDS Trackers, FiniteSetsExt

CONSTANTS
    Nodes,
    Routers,        \* BOOTSTRAP_NODES
    Distance,       \* XOR distance of a node to the info hash
    K,              \* nodes a lookup starts with
    TableSize,      \* K * 8
    Tids            \* transaction ids: 2^16 in the program, so they may repeat

ASSUME DhtConstants ==
    /\ Routers \subseteq Nodes /\ IsFiniteSet(Nodes)
    /\ Distance \in [Nodes -> Nat]
    /\ \A m, n \in Nodes : Distance[m] = Distance[n] => m = n
    /\ K \in Nat \ {0} /\ TableSize \in Nat
    /\ Tids # {}

VARIABLES
    dhtAt,          \* "off", "bootstrap", "query", "wait", "clean_up", "done"
    greet,          \* bootstrap nodes still to be sent find_node
    table,
    asked,          \* queries on the net: transaction id and node
    queue, visited, \* of the lookup
    awaiting,       \* tid of the query the lookup waits for
    pending,        \* tids an answer would be dispatched for
    mailbox,        \* events in the channel of the query
    dhtPeers

dhtVars == <<dhtAt, greet, table, asked, queue, visited, awaiting, pending, mailbox,
             dhtPeers>>

NoTid == 0

DhtOff ==
    /\ dhtAt = "off" /\ greet = {} /\ table = {} /\ asked = {}
    /\ queue = <<>> /\ visited = {} /\ awaiting = NoTid /\ pending = {}
    /\ mailbox = <<>> /\ dhtPeers = {}

DhtReset(to, nodes) ==
    /\ dhtAt' = to /\ greet' = nodes /\ table' = {} /\ asked' = {}
    /\ queue' = <<>> /\ visited' = {} /\ awaiting' = NoTid /\ pending' = {}
    /\ mailbox' = <<>> /\ dhtPeers' = {}

\* Dht::start: an empty table, the receiving task, then bootstrap().
DhtStart == DhtReset("bootstrap", Routers)

\* The caller drops the Dht: nobody looks at its state again.
DhtDropped == DhtReset("off", {})

\* RoutingTable::closest.
Closest(nodes) ==
    LET sorted == SetToSortSeq(nodes, LAMBDA m, n : Distance[m] < Distance[n])
    IN  SubSeq(sorted, 1, Min({K, Len(sorted)}))

\* A bootstrap node is resolved and sent find_node, under an id nobody waits for.
FindNode ==
    /\ dhtAt = "bootstrap"
    /\ \E n \in greet :
          /\ greet' = greet \ {n}
          /\ asked' \in {asked, asked \cup {[tid |-> NoTid, node |-> n]}}
    /\ UNCHANGED <<dhtAt, table, queue, visited, awaiting, pending, mailbox, dhtPeers>>

\* start() returns without waiting for an answer; the lookup starts from the table.
LookupStart ==
    /\ dhtAt = "bootstrap" /\ greet = {}
    /\ dhtAt' = "query"
    /\ queue' = Closest(table)
    /\ UNCHANGED <<greet, table, asked, visited, awaiting, pending, mailbox, dhtPeers>>

SkipVisited ==
    /\ dhtAt = "query" /\ queue # <<>>
    /\ Head(queue) \in visited
    /\ queue' = Tail(queue)
    /\ UNCHANGED <<dhtAt, greet, table, asked, visited, awaiting, pending, mailbox, dhtPeers>>

\* send_get_peers: registered first, then sent.
Query ==
    /\ dhtAt = "query" /\ queue # <<>>
    /\ Head(queue) \notin visited
    /\ queue' = Tail(queue)
    /\ visited' = visited \cup {Head(queue)}
    /\ \E tid \in Tids :
          /\ awaiting' = tid
          /\ pending' = pending \cup {tid}
          /\ asked' \in {asked, asked \cup {[tid |-> tid, node |-> Head(queue)]}}
    /\ mailbox' = <<>>
    /\ dhtAt' = "wait"
    /\ UNCHANGED <<greet, table, dhtPeers>>

\* RoutingTable::add of nodes that are not in it: only while there is room.
Added(nodes) ==
    {t \in SUBSET (table \cup nodes) :
        /\ table \subseteq t
        /\ Cardinality(t) = Min({Cardinality(table \cup nodes), Max({TableSize, Cardinality(table)})})}

\* What a node may answer: the keys of "r" that are there, and their contents.
Responses ==
    {r \in [id : BOOLEAN, hasValues : BOOLEAN, values : SUBSET Peers,
            hasNodes : BOOLEAN, nodes : SUBSET Nodes, token : BOOLEAN] :
        (~r.hasValues => r.values = {}) /\ (~r.hasNodes => r.nodes = {})}

\* Mutant of Events: the nodes are sent before the peers.
EventsNodesFirst(r) ==
    (IF r.hasNodes THEN <<[type |-> "nodes", peers |-> {}, nodes |-> r.nodes]>> ELSE <<>>)
    \o (IF r.hasValues THEN <<[type |-> "peers", peers |-> r.values, nodes |-> {}]>> ELSE <<>>)
    \o (IF r.token /\ r.id THEN <<[type |-> "token", peers |-> {}, nodes |-> {}]>> ELSE <<>>)

\* The events handle_response sends to the caller that waits.
Events(r) ==
    (IF r.hasValues THEN <<[type |-> "peers", peers |-> r.values, nodes |-> {}]>> ELSE <<>>)
    \o (IF r.hasNodes THEN <<[type |-> "nodes", peers |-> {}, nodes |-> r.nodes]>> ELSE <<>>)
    \o (IF r.token /\ r.id THEN <<[type |-> "token", peers |-> {}, nodes |-> {}]>> ELSE <<>>)

\* The receiving task takes an answer, to whatever query, however late: its node goes
\* into the table; only an answer somebody waits for is looked at further.
HandleResponse ==
    /\ dhtAt \in {"bootstrap", "query", "wait", "clean_up"}
    /\ \E q \in asked, r \in Responses :
          LET awaited == q.tid \in pending
          IN  /\ ~awaited => ~r.hasValues /\ ~r.hasNodes /\ ~r.token
              /\ asked' = asked \ {q}
              /\ table' \in Added((IF r.id THEN {q.node} ELSE {}) \cup r.nodes)
              /\ pending' = pending \ {q.tid}
              /\ mailbox' = IF awaited THEN mailbox \o Events(r) ELSE mailbox
              /\ heard' = IF awaited /\ dhtAt = "wait" THEN heard \cup r.values ELSE heard
    /\ UNCHANGED <<dhtAt, greet, queue, visited, awaiting, dhtPeers>>

\* recv() returns the first event.
TakeEvent ==
    /\ dhtAt = "wait" /\ mailbox # <<>>
    /\ LET event == Head(mailbox)
       IN  /\ dhtPeers' = dhtPeers \cup event.peers
           /\ IF event.type = "nodes"
              THEN \E more \in SetToSeqs(event.nodes \ visited) : queue' = queue \o more
              ELSE UNCHANGED queue
    /\ dhtAt' = "clean_up"
    /\ UNCHANGED <<greet, table, asked, visited, awaiting, pending, mailbox>>

\* Two seconds without an event, or the answer sent none and closed the channel.
NoEvent ==
    /\ dhtAt = "wait" /\ mailbox = <<>>
    /\ dhtAt' = "clean_up"
    /\ UNCHANGED <<greet, table, asked, queue, visited, awaiting, pending, mailbox, dhtPeers>>

\* The pending entry goes, answered or not, and the channel with what is left in it.
CleanUp ==
    /\ dhtAt = "clean_up" /\ dhtAt' = "query"
    /\ pending' = pending \ {awaiting}
    /\ awaiting' = NoTid
    /\ mailbox' = <<>>
    /\ UNCHANGED <<greet, table, asked, queue, visited, dhtPeers>>

\* Nothing is left to ask, or 15 s are over.  announce_peer, sent to the closest nodes
\* whose token was the event taken, changes nothing here.
LookupEnd ==
    /\ dhtAt = "query" /\ dhtAt' = "done"
    /\ UNCHANGED <<greet, table, asked, queue, visited, awaiting, pending, mailbox, dhtPeers>>

DhtStep ==
    \/ FindNode \/ LookupStart \/ SkipVisited \/ Query \/ TakeEvent \/ NoEvent \/ CleanUp
    \/ LookupEnd
=============================================================================
