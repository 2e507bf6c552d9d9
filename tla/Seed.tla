-------------------------------- MODULE Seed --------------------------------
(***************************************************************************)
(* The seed loop and the tasks that serve incoming peers (seed_loop and    *)
(* serve_peer, src/src/download.rs:698-821), over the files of FileStore.  *)
(* download() gets here when every piece is Done, so when every write_piece*)
(* returned; the blocking pool may still be at work.                       *)
(*                                                                         *)
(* An action is the code between two awaits.  The clients are the          *)
(* environment: any request in any order, or silence.                      *)
(***************************************************************************)
EXTENDS FileStore

CONSTANTS
    Clients,        \* incoming connections
    MaxPeers,       \* config.max_peers
    MaxRequest,     \* 1 << 17: the longest block served
    SeedTime,       \* whether config.seed_time is set
    RatioTenths,    \* config.seed_ratio in tenths, or NoRatio
    NoRatio,
    MaxRequests     \* bound: requests of all clients

ASSUME SeedConstants ==
    /\ MaxPeers \in Nat \ {0} /\ MaxRequest \in Nat /\ MaxRequests \in Nat
    /\ SeedTime \in BOOLEAN
    /\ RatioTenths \in Nat \cup {NoRatio} /\ NoRatio \notin Nat

VARIABLES
    seeding,        \* where seed_loop is
    elapsed,        \* seed_time has passed
    permits,        \* permits of seed_sem
    uploaded,
    conn,           \* per client: where its connection is
    request,        \* per client: the request being answered
    unread, data,   \* per client: the files still to be read, the bytes read
    intact,         \* per client: the range was in the files when it was asked for
    requests

loopVars == <<seeding, elapsed>>
clientVars == <<conn, request, unread, data, intact>>
vars == <<storeVars, loopVars, permits, uploaded, clientVars, requests>>

NoRequest == [index |-> 0, begin |-> 0, length |-> 0]

Init ==
    /\ StoreInit
    /\ seeding = "downloading" /\ elapsed = FALSE
    /\ permits = MaxPeers /\ uploaded = 0 /\ requests = 0
    /\ conn = [c \in Clients |-> "outside"]
    /\ request = [c \in Clients |-> NoRequest]
    /\ unread = [c \in Clients |-> {}]
    /\ data = [c \in Clients |-> <<>>]
    /\ intact = [c \in Clients |-> FALSE]

-----------------------------------------------------------------------------
(* seed_loop                                                               *)

Goto(from, to) == seeding = from /\ seeding' = to

\* Every piece is Done; the listener is bound, or that fails.
StartSeeding ==
    /\ \A i \in Pieces : write[i] = "done"
    /\ Goto("downloading", "check") \/ Goto("downloading", "over")
    /\ UNCHANGED <<storeVars, elapsed, permits, uploaded, clientVars, requests>>

RatioReached ==
    /\ RatioTenths # NoRatio
    /\ TotalLength > 0 /\ uploaded * 10 >= RatioTenths * TotalLength

MustStop == elapsed \/ RatioReached

Serving == {c \in Clients : conn[c] \in {"handshake", "serve", "read", "send"}}

\* The locals of the tasks of these clients are gone.
Forget(clients) ==
    /\ request' = [c \in Clients |-> IF c \in clients THEN NoRequest ELSE request[c]]
    /\ unread' = [c \in Clients |-> IF c \in clients THEN {} ELSE unread[c]]
    /\ data' = [c \in Clients |-> IF c \in clients THEN <<>> ELSE data[c]]
    /\ intact' = [c \in Clients |-> c \notin clients /\ intact[c]]

\* A limit is reached: tasks.shutdown() aborts every task where it awaits.
Stop ==
    /\ Goto("check", "over") /\ MustStop
    /\ conn' = [c \in Clients |-> IF c \in Serving THEN "ended" ELSE conn[c]]
    /\ permits' = permits + Cardinality(Serving)
    /\ Forget(Serving)
    /\ UNCHANGED <<storeVars, elapsed, uploaded, requests>>

Listen ==
    /\ Goto("check", "accept") /\ ~MustStop
    /\ UNCHANGED <<storeVars, elapsed, permits, uploaded, clientVars, requests>>

\* A connection is served if a permit is free, and dropped otherwise.
Accept(c) ==
    /\ Goto("accept", "check")
    /\ conn[c] = "outside"
    /\ IF permits > 0
       THEN permits' = permits - 1 /\ conn' = [conn EXCEPT ![c] = "handshake"]
       ELSE UNCHANGED permits /\ conn' = [conn EXCEPT ![c] = "ended"]
    /\ UNCHANGED <<storeVars, elapsed, uploaded, request, unread, data, intact, requests>>

\* Mutant of NoConnection: accept() is awaited without a timeout.
NoConnectionWaits == FALSE /\ UNCHANGED vars

\* One second without a connection, or accept failed.
NoConnection ==
    /\ Goto("accept", "check")
    /\ UNCHANGED <<storeVars, elapsed, permits, uploaded, clientVars, requests>>

SeedTimePasses ==
    /\ SeedTime /\ seeding \in {"check", "accept"} /\ ~elapsed
    /\ elapsed' = TRUE
    /\ UNCHANGED <<storeVars, seeding, permits, uploaded, clientVars, requests>>

-----------------------------------------------------------------------------
(* serve_peer                                                              *)

Step(c, from, to) == conn[c] = from /\ conn' = [conn EXCEPT ![c] = to]

\* The handshake, for which serve_peer has no timeout; BITFIELD and UNCHOKE follow.
Handshaken(c) ==
    /\ Step(c, "handshake", "serve")
    /\ UNCHANGED <<storeVars, loopVars, permits, uploaded, request, unread, data, intact, requests>>

\* Mutant of Valid: the bound is the nominal piece length.
ValidNominal(r) ==
    /\ r.index < PieceCount /\ r.length # 0 /\ r.length <= MaxRequest
    /\ r.begin + r.length <= PieceLength

Valid(r) ==
    /\ r.index < PieceCount /\ r.length # 0 /\ r.length <= MaxRequest
    /\ r.begin + r.length <= PieceLen(r.index)

RequestStart(r) == PieceStart(r.index) + r.begin

Requests ==
    [index : 0 .. PieceCount, begin : 0 .. PieceLength, length : 0 .. MaxRequest + 1]

\* The bytes asked for that are in file f.
Asked(r, f) == Part(RequestStart(r), r.length, f)

AskedFiles(r) == Overlaps(RequestStart(r), r.length)

\* A REQUEST that passes the checks; read_data starts.
Request(c) ==
    /\ Step(c, "serve", "read")
    /\ requests < MaxRequests /\ requests' = requests + 1
    /\ \E r \in Requests :
          /\ Valid(r)
          /\ request' = [request EXCEPT ![c] = r]
          /\ unread' = [unread EXCEPT ![c] = AskedFiles(r)]
          /\ intact' = [intact EXCEPT ![c] = \A f \in AskedFiles(r) : Stored(Asked(r, f))]
    /\ data' = [data EXCEPT ![c] = <<>>]
    /\ UNCHANGED <<storeVars, loopVars, permits, uploaded>>

\* The part read_data reads next.
NextPart(c) == Asked(request[c], Min(unread[c]))

\* One open, seek and read_exact; the block is complete after the last.
ReadPart(c) ==
    /\ conn[c] = "read" /\ unread[c] # {}
    /\ Readable(NextPart(c))
    /\ data' = [data EXCEPT ![c] = @ \o BytesOf(NextPart(c))]
    /\ unread' = [unread EXCEPT ![c] = @ \ {Min(@)}]
    /\ conn' = [conn EXCEPT ![c] = IF unread'[c] = {} THEN "send" ELSE "read"]
    /\ UNCHANGED <<storeVars, loopVars, permits, uploaded, request, intact, requests>>

\* PIECE went out; what counts as uploaded is the length asked for.
Sent(c) ==
    /\ Step(c, "send", "serve")
    /\ uploaded' = uploaded + request[c].length
    /\ Forget({c})
    /\ UNCHANGED <<storeVars, loopVars, permits, requests>>

\* Mutant of Leave: the permit is not dropped.
LeaveKeepingPermit(c) ==
    /\ conn' = [conn EXCEPT ![c] = "ended"]
    /\ Forget({c})
    /\ UNCHANGED <<storeVars, loopVars, permits, uploaded, requests>>

\* The task returns and its permit is dropped.
Leave(c) ==
    /\ conn' = [conn EXCEPT ![c] = "ended"]
    /\ permits' = permits + 1
    /\ Forget({c})
    /\ UNCHANGED <<storeVars, loopVars, uploaded, requests>>

\* A failed handshake; CHOKE, NOT_INTERESTED, an invalid REQUEST, the end of the
\* stream or two minutes without a message; a PIECE that cannot be sent.
Hangup(c) == conn[c] \in {"handshake", "serve", "send"} /\ Leave(c)

\* A part that is not in its file: read_exact meets the end of the file.
ReadFailed(c) ==
    /\ conn[c] = "read" /\ unread[c] # {}
    /\ ~Readable(NextPart(c))
    /\ Leave(c)

-----------------------------------------------------------------------------

StoreStutter == UNCHANGED <<loopVars, permits, uploaded, clientVars, requests>>

Over == seeding = "over" /\ UNCHANGED vars

LoopStep ==
    StartSeeding \/ Stop \/ Listen \/ NoConnection \/ \E c \in Clients : Accept(c)

ClientStep(c) ==
    \/ Handshaken(c) \/ Request(c) \/ ReadPart(c) \/ Sent(c)
    \/ Hangup(c) \/ ReadFailed(c)

Next ==
    \/ StoreStep /\ StoreStutter
    \/ LoopStep
    \/ SeedTimePasses
    \/ \E c \in Clients : ClientStep(c)
    \/ Over

\* The loop is a task that is always polled again; no client is expected to act.
Spec == Init /\ [][Next]_vars /\ WF_vars(LoopStep)

-----------------------------------------------------------------------------
(* Properties                                                              *)

\* A PIECE has the length that was asked for, and every byte of it is the right one
\* or one the blocking pool has not yet put into its file; a block that was in the
\* files when it was asked for is right as a whole, whatever lands while it is read.
ServedRight ==
    \A c \in Clients : conn[c] = "send" =>
        LET right == Stream(RequestStart(request[c]), request[c].length)
        IN  /\ Len(data[c]) = request[c].length
            /\ intact[c] => data[c] = right
            /\ \A k \in DOMAIN data[c] : data[c][k] \in {right[k], Wrong}

\* Every permit is free or held by a client being served; once the loop is over no
\* client is served any more and no permit is missing.
SeedPermits ==
    /\ permits + Cardinality(Serving) = MaxPeers
    /\ seeding = "over" => Serving = {}

\* A limit that is reached ends seeding, although clients stay connected and silent,
\* hold every permit, and nobody new connects.
SeedStops == seeding \in {"check", "accept"} /\ MustStop ~> seeding = "over"
=============================================================================
