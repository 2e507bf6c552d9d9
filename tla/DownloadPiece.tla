---------------------------- MODULE DownloadPiece ----------------------------
(***************************************************************************)
(* download_piece() (src/src/download.rs): one piece is requested in       *)
(* blocks, at most `pipeline` of them ahead of the blocks that came back,  *)
(* and assembled from whatever PIECE messages arrive.  An action is one    *)
(* send or one message read; the task awaits in between.                   *)
(*                                                                         *)
(* The peer is the environment.  A polite one answers each open request    *)
(* once, in any order; a repeating one also sends such blocks twice or     *)
(* unasked; a wild one sends anything, wherever it begins and however long *)
(* it is, for the code checks neither.  What a message holds is "good"     *)
(* (the piece's bytes at that place) or "bad".                             *)
(***************************************************************************)
EXTENDS Integers, FiniteSets

CONSTANTS
    BlockSize,      \* BLOCK_SIZE
    Pipeline,       \* config.pipeline
    PieceLens,      \* the lengths a piece may have
    MaxData         \* bound: the longest data of a PIECE

ASSUME PieceConfig ==
    /\ BlockSize \in Nat \ {0}
    /\ Pipeline \in Nat \ {0}
    /\ PieceLens \subseteq Nat
    /\ MaxData \in Nat

VARIABLES
    piece_len,      \* length of the piece
    manner,         \* how the peer behaves
    at,             \* "fill" the pipeline, "read" a message, or the result
    next_request,   \* next block index to request
    blocks_done,    \* blocks received
    received,       \* block indices received
    piece_data,     \* the buffer, byte by byte
    open            \* requests the peer has not answered

vars == <<piece_len, manner, at, next_request, blocks_done, received, piece_data, open>>

Manners == {"polite", "repeating", "wild"}

num_blocks == (piece_len + BlockSize - 1) \div BlockSize

Blocks == 0 .. num_blocks - 1

\* Mutant of Request: the last block is requested in full.
RequestFullBlocks(b) == [begin |-> b * BlockSize, length |-> BlockSize]

\* The REQUEST for block b: the last block is what is left of the piece.
Request(b) ==
    [begin  |-> b * BlockSize,
     length |-> IF b = num_blocks - 1 THEN piece_len - b * BlockSize ELSE BlockSize]

\* The block a byte of the piece, or a message that begins there, belongs to.
BlockOf(begin) == begin \div BlockSize

Bytes == 0 .. piece_len - 1

Init ==
    /\ piece_len \in PieceLens
    /\ manner \in Manners
    /\ at = "fill"
    /\ next_request = 0 /\ blocks_done = 0 /\ received = {}
    /\ piece_data = [k \in Bytes |-> "zero"]
    /\ open = {}

\* Mutants of MayRequest: one request too many, and a pipeline that never refills.
MayRequestOneMore ==
    /\ next_request < num_blocks
    /\ next_request - blocks_done <= Pipeline

MayRequestOnce ==
    /\ next_request < num_blocks
    /\ next_request < Pipeline

\* Room in the pipeline; next_request - blocks_done is a usize subtraction.
MayRequest ==
    /\ next_request < num_blocks
    /\ next_request - blocks_done < Pipeline

SendRequest ==
    /\ at = "fill"
    /\ blocks_done < num_blocks
    /\ MayRequest
    /\ open' = open \cup {Request(next_request)}
    /\ next_request' = next_request + 1
    /\ UNCHANGED <<piece_len, manner, at, blocks_done, received, piece_data>>

Filled ==
    /\ at = "fill"
    /\ blocks_done < num_blocks
    /\ ~MayRequest
    /\ at' = "read"
    /\ UNCHANGED <<piece_len, manner, next_request, blocks_done, received, piece_data, open>>

\* The data lands where it begins, as far as the piece goes: `end` is clamped to the
\* length of the piece, not to the end of the block.
Copied(begin, length, content) ==
    [k \in Bytes |-> IF k >= begin /\ k < begin + length THEN content ELSE piece_data[k]]

\* Mutants of Accept: a repeat is counted; a repeat overwrites what was received
\* before; `end` is not clamped.
AcceptRepeats(begin, length, content) ==
    /\ at' = "fill"
    /\ IF BlockOf(begin) \in Blocks
       THEN /\ piece_data' = Copied(begin, length, content)
            /\ received' = received \cup {BlockOf(begin)}
            /\ blocks_done' = blocks_done + 1
       ELSE UNCHANGED <<piece_data, received, blocks_done>>

AcceptOverwrites(begin, length, content) ==
    /\ at' = "fill"
    /\ IF BlockOf(begin) \in Blocks
       THEN /\ piece_data' = Copied(begin, length, content)
            /\ received' = received \cup {BlockOf(begin)}
            /\ blocks_done' = Cardinality(received')
       ELSE UNCHANGED <<piece_data, received, blocks_done>>

AcceptUnclamped(begin, length, content) ==
    \/ /\ BlockOf(begin) \notin Blocks \ received
       /\ at' = "fill"
       /\ UNCHANGED <<piece_data, received, blocks_done>>
    \/ /\ BlockOf(begin) \in Blocks \ received
       /\ begin + length > piece_len
       /\ at' = "panic"
       /\ UNCHANGED <<piece_data, received, blocks_done>>
    \/ /\ BlockOf(begin) \in Blocks \ received
       /\ begin + length <= piece_len
       /\ at' = "fill"
       /\ piece_data' = Copied(begin, length, content)
       /\ received' = received \cup {BlockOf(begin)}
       /\ blocks_done' = blocks_done + 1

\* PIECE for this piece.  A repeat, or a block beyond the last, is dropped; a begin
\* that lies in the last block but past the end of the piece makes the slice
\* start..end panic; anything else is copied and counts as the block it begins in.
Accept(begin, length, content) ==
    \/ /\ BlockOf(begin) \notin Blocks \ received
       /\ at' = "fill"
       /\ UNCHANGED <<piece_data, received, blocks_done>>
    \/ /\ BlockOf(begin) \in Blocks \ received
       /\ begin > piece_len
       /\ at' = "panic"
       /\ UNCHANGED <<piece_data, received, blocks_done>>
    \/ /\ BlockOf(begin) \in Blocks \ received
       /\ begin <= piece_len
       /\ at' = "fill"
       /\ piece_data' = Copied(begin, length, content)
       /\ received' = received \cup {BlockOf(begin)}
       /\ blocks_done' = blocks_done + 1

ReadSolicited(request) ==
    /\ at = "read"
    /\ open' = open \ {request}
    /\ \E content \in {"good", "bad"} : Accept(request.begin, request.length, content)
    /\ UNCHANGED <<piece_len, manner, next_request>>

\* A block sent twice, never requested, or beyond the end of the piece.
ReadUnsolicited(b) ==
    /\ at = "read"
    /\ manner = "repeating"
    /\ \E content \in {"good", "bad"} : Accept(Request(b).begin, Request(b).length, content)
    /\ UNCHANGED <<piece_len, manner, next_request, open>>

\* Data that begins anywhere and is as long as it likes: short, empty, or into the
\* blocks that follow.
ReadWild(begin, length) ==
    /\ at = "read"
    /\ manner = "wild"
    /\ \E content \in {"good", "bad"} : Accept(begin, length, content)
    /\ UNCHANGED <<piece_len, manner, next_request, open>>

\* A block of another piece, HAVE, KEEPALIVE, EXTENSION, ...: back to the loop's top.
ReadOther ==
    /\ at = "read"
    /\ at' = "fill"
    /\ UNCHANGED <<piece_len, manner, next_request, blocks_done, received, piece_data, open>>

\* CHOKE, end of stream, 30 s without a message, or a failed send.
Fail ==
    /\ at \in {"fill", "read"}
    /\ blocks_done < num_blocks
    /\ at' = "error"
    /\ UNCHANGED <<piece_len, manner, next_request, blocks_done, received, piece_data, open>>

Complete ==
    /\ at = "fill"
    /\ blocks_done >= num_blocks
    /\ at' = "assembled"
    /\ UNCHANGED <<piece_len, manner, next_request, blocks_done, received, piece_data, open>>

\* The caller compares the SHA-1 of the buffer with the piece's hash.
Verify ==
    /\ at = "assembled"
    /\ at' = IF \A k \in Bytes : piece_data[k] = "good" THEN "verified" ELSE "error"
    /\ UNCHANGED <<piece_len, manner, next_request, blocks_done, received, piece_data, open>>

Returned == at \in {"verified", "error", "panic"} /\ UNCHANGED vars

Next ==
    \/ SendRequest \/ Filled \/ Complete \/ Verify
    \/ \E request \in open : ReadSolicited(request)
    \/ \E b \in 0 .. num_blocks : ReadUnsolicited(b)
    \/ \E begin \in 0 .. num_blocks * BlockSize, length \in 0 .. MaxData : ReadWild(begin, length)
    \/ ReadOther \/ Fail \/ Returned

Spec == Init /\ [][Next]_vars

\* The task runs, and the peer takes the requests we send, for which no timeout is set,
\* and keeps answering those that are open, between whatever else it sends.  Fail is
\* not forced, but may happen at any time.
FairSpec ==
    /\ Spec
    /\ WF_vars(SendRequest \/ Filled \/ Complete \/ Verify)
    /\ SF_vars(\E request \in open : ReadSolicited(request))

-----------------------------------------------------------------------------
\* Every variable has its shape.
TypeOK ==
    /\ piece_len \in PieceLens
    /\ manner \in Manners
    /\ at \in {"fill", "read", "assembled", "verified", "error", "panic"}
    /\ next_request \in 0 .. num_blocks
    /\ blocks_done \in 0 .. num_blocks
    /\ received \subseteq Blocks
    /\ piece_data \in [Bytes -> {"zero", "good", "bad"}]
    /\ open \subseteq {Request(b) : b \in 0 .. next_request - 1}

\* blocks_done counts the blocks received and never runs ahead of next_request,
\* whatever blocks the peer sends unasked: the usize subtraction in MayRequest
\* does not underflow; no more than a pipeline is requested ahead.  If the peer
\* sends what was asked for, the open requests are those of the missing blocks.
PipelineBound ==
    /\ blocks_done = Cardinality(received)
    /\ blocks_done <= next_request
    /\ next_request <= blocks_done + Pipeline
    /\ manner = "polite" => open = {Request(b) : b \in (0 .. next_request - 1) \ received}

\* The task never waits for a message with nothing left to be answered: among the
\* blocks requested one is still missing.
NeverIdle ==
    at = "read" => \E b \in 0 .. next_request - 1 : b \notin received

\* The requests sent tile the piece from its start: each begins where the one
\* before ends, none is empty, longer than a block or past the end of the piece,
\* and once all are sent they cover it.
RequestsTile ==
    \A b \in 0 .. next_request - 1 :
        /\ Request(b).length \in 1 .. BlockSize
        /\ Request(b).begin + Request(b).length
             = IF b = num_blocks - 1 THEN piece_len ELSE Request(b + 1).begin

\* The buffer goes to the hash only when every block was received, a repeated one
\* counted once; and then every byte of it was received, unless the peer is a wild
\* one, whose short data counts as its whole block.
AssembledFull ==
    at \in {"assembled", "verified"} =>
        /\ next_request = num_blocks
        /\ received = Blocks
        /\ manner # "wild" => \A k \in Bytes : piece_data[k] # "zero"

\* How far a block that was received is safe: nothing that comes later for the same
\* block changes a byte of it.  Only a wild peer's data for a block before it does,
\* when it is accepted for the first time and runs on.
FirstDataKept ==
    [][\A k \in Bytes : BlockOf(k) \in received /\ piece_data'[k] # piece_data[k] =>
          manner = "wild" /\ \E b \in received' \ received : b < BlockOf(k)]_vars

\* The copy panics for nobody but a wild peer, and never when the length of the piece
\* is a multiple of the block size.
PanicsOnlyPastEnd ==
    at = "panic" => manner = "wild" /\ piece_len % BlockSize # 0

\* As long as the peer reads and answers, download_piece comes to an end: the
\* pipeline never runs dry.
Terminates == <>(at \in {"verified", "error", "panic"})
=============================================================================
