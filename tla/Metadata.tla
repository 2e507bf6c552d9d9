------------------------------ MODULE Metadata ------------------------------
(***************************************************************************)
(* The exchange with one peer that fetches the info dict of a magnet link  *)
(* (fetch_from_peer, src/src/peer/metadata_exchange.rs:36-154).  The peer  *)
(* is the environment: it may claim any size, send anything as any piece,  *)
(* in any order and more than once, close the connection, or keep us       *)
(* waiting where the code sets no timeout.                                 *)
(***************************************************************************)
EXTENDS Integers, FiniteSets, SequencesExt

CONSTANTS
    InfoPieces,     \* pieces the info dict has
    MaxClaimed      \* bound: pieces a peer's metadata_size amounts to

ASSUME MetadataConstants == InfoPieces \in Nat \ {0} /\ MaxClaimed \in Nat

VARIABLES
    exAt,           \* "off", "connect", "handshake", "hello", "requests", "pieces",
                    \* "failed", "fetched", "panicked"
    claimed,        \* pieces by the peer's metadata_size
    pieces,         \* per piece: None, or the data kept
    received,       \* the counter of the receiving loop
    link,           \* "open", "closed" by the peer, or "busy" with other messages for ever
    lied            \* history: a wrong size, or wrong data as the first of a piece

metadataVars == <<exAt, claimed, pieces, received, link, lied>>

\* Option<Vec<u8>>.  Data is a sequence of pieces of the info dict, or junk.
None == <<>>
Some(data) == <<data>>

Info == [n \in 1 .. InfoPieces |-> n - 1]

Payloads == {<<>>, <<InfoPieces>>, Info} \cup {<<i>> : i \in 0 .. InfoPieces - 1}

HonestPieces == [i \in 0 .. InfoPieces - 1 |-> Some(<<i>>)]

Reset(result) ==
    /\ exAt' = result
    /\ claimed' = 0 /\ pieces' = <<>> /\ received' = 0 /\ link' = "open" /\ lied' = FALSE

ExchangeOff ==
    exAt = "off" /\ claimed = 0 /\ pieces = <<>> /\ received = 0 /\ link = "open" /\ lied = FALSE

ExchangeFails == Reset("failed")

\* Only the socket address is left of what came before.
ExchangeStart == Reset("connect")

GoesOn(from, to) ==
    /\ exAt = from /\ link = "open" /\ exAt' = to
    /\ UNCHANGED <<claimed, pieces, received, link, lied>>

\* The TCP connection, for which the peer has 10 s.
ExchangeConnect == GoesOn("connect", "handshake")

NoConnection == exAt = "connect" /\ ExchangeFails

\* The extension handshake: ut_metadata and metadata_size.
ReceiveHello ==
    /\ exAt = "hello" /\ link = "open" /\ exAt' = "requests"
    /\ claimed' \in 1 .. MaxClaimed
    /\ pieces' = [i \in 0 .. claimed' - 1 |-> None]
    /\ lied' = (claimed' # InfoPieces)
    /\ UNCHANGED <<received, link>>

\* The extension is not offered or the size is 0; a hello that does not parse.
BadHello == exAt = "hello" /\ link = "open" /\ ExchangeFails

\* Mutants of Keep: a repeated piece is counted again; the last data of a piece is kept.
KeepCountingRepeats(i, data) ==
    /\ pieces' = [pieces EXCEPT ![i] = IF @ = None THEN Some(data) ELSE @]
    /\ received' = received + 1

KeepLast(i, data) ==
    /\ pieces' = [pieces EXCEPT ![i] = Some(data)]
    /\ received' = IF pieces[i] = None THEN received + 1 ELSE received

\* The first data of a piece is kept, whatever its length, and counted.
Keep(i, data) ==
    IF pieces[i] = None
    THEN pieces' = [pieces EXCEPT ![i] = Some(data)] /\ received' = received + 1
    ELSE UNCHANGED <<pieces, received>>

\* A data message.  Rejects and indexes out of range are ignored.
ReceivePiece ==
    /\ exAt = "pieces" /\ link = "open" /\ received < claimed
    /\ \E i \in DOMAIN pieces, data \in Payloads :
          /\ Keep(i, data)
          /\ lied' = (lied \/ (pieces[i] = None /\ data # <<i>>))
    /\ UNCHANGED <<exAt, claimed, link>>

\* A payload that does not parse, an I/O error, 15 s without a message while the hello
\* is awaited, or 60 s in all for the pieces.
ExchangeError == exAt \in {"hello", "pieces"} /\ link = "open" /\ ExchangeFails

\* A string in the payload that claims to be longer than the payload is sliced past its
\* end; a metadata_size that is negative or huge overflows a capacity.
ExchangePanics == exAt \in {"hello", "pieces"} /\ link = "open" /\ Reset("panicked")

\* None, or a message of another kind, is read and ignored.
ReadOther == link # "open" /\ UNCHANGED metadataVars

Full(parts) == FlattenSeq(FlattenSeq([n \in 1 .. Cardinality(DOMAIN parts) |-> parts[n - 1]]))

\* The SHA-1 of what the pieces make together is the info hash.
HashMatches == Full(pieces) = Full(HonestPieces)

\* The counter says that all pieces are there.  What the hash confirms may still be no
\* valid info dict.
Assemble ==
    /\ exAt = "pieces" /\ link = "open" /\ received = claimed
    /\ \/ HashMatches /\ exAt' = "fetched" /\ UNCHANGED <<claimed, pieces, received, link, lied>>
       \/ ExchangeFails

ExchangeStep ==
    \/ ExchangeConnect \/ NoConnection \/ ReceiveHello \/ BadHello \/ ReceivePiece
    \/ ExchangeError \/ ExchangePanics \/ ReadOther \/ Assemble

\* The handshake, and the sending of our hello and of all the requests, end when the
\* peer's side does its part or fails: no timeout is set on them.
Handshake == GoesOn("handshake", "hello")

SendRequests == GoesOn("requests", "pieces")

PeerFails == exAt \in {"handshake", "requests"} /\ ExchangeFails

\* The peer closes.  Both loops then read None again and again: it is ignored like any
\* other message, and it is there before the timeout is looked at.
HangUp ==
    /\ exAt = "hello" \/ (exAt = "pieces" /\ received < claimed)
    /\ link = "open" /\ link' = "closed"
    /\ UNCHANGED <<exAt, claimed, pieces, received, lied>>

\* Other messages come for ever instead of the hello: each restarts the 15 s.
KeepBusy ==
    /\ exAt = "hello" /\ link = "open" /\ link' = "busy"
    /\ UNCHANGED <<exAt, claimed, pieces, received, lied>>

PeerStep == Handshake \/ SendRequests \/ PeerFails \/ HangUp \/ KeepBusy
=============================================================================
