------------------------ MODULE DownloadPieceProofs ------------------------
(***************************************************************************)
(* The block pipeline is correct for every block size, pipeline and piece  *)
(* length, and for a peer that sends anything at any time.                 *)
(***************************************************************************)
EXTENDS DownloadPiece, DataLemmas, FiniteSetTheorems

\* num_blocks blocks hold the piece and one fewer does not.
LEMMA NumBlocks ==
    ASSUME piece_len \in PieceLens
    PROVE  /\ num_blocks \in Nat
           /\ piece_len <= num_blocks * BlockSize
           /\ num_blocks * BlockSize < piece_len + BlockSize
<1>1. BlockSize \in Nat \ {0} /\ piece_len \in Nat
  BY PieceConfig
<1> DEFINE t == piece_len + BlockSize - 1
<1>2. t \in Nat
  BY <1>1
<1>3. t = BlockSize * num_blocks + (t % BlockSize) /\ t % BlockSize \in 0 .. BlockSize - 1
      /\ num_blocks \in Nat
  BY <1>1, <1>2, Quotient DEF num_blocks
<1>4. BlockSize * num_blocks = num_blocks * BlockSize
  BY <1>1, <1>3, Successor
<1> QED BY <1>1, <1>3, <1>4

\* The request of block b names block b, starts where the one before ends, and is
\* neither empty nor longer than a block.
LEMMA RequestShape ==
    ASSUME piece_len \in PieceLens, NEW b \in 0 .. num_blocks - 1
    PROVE  /\ BlockOf(Request(b).begin) = b
           /\ Request(b).length \in 1 .. BlockSize
           /\ Request(b).begin + Request(b).length
                = IF b = num_blocks - 1 THEN piece_len ELSE Request(b + 1).begin
<1>1. BlockSize \in Nat \ {0} /\ piece_len \in Nat /\ num_blocks \in Nat /\ b \in Nat
  BY PieceConfig, NumBlocks
<1>2. BlockOf(Request(b).begin) = b
  BY <1>1, ExactQuotient DEF BlockOf, Request
<1>3. /\ b * BlockSize \in Nat
      /\ (b + 1) * BlockSize = b * BlockSize + BlockSize
  BY <1>1, Successor
<1>4. CASE b = num_blocks - 1
  <2>1. num_blocks * BlockSize = b * BlockSize + BlockSize
    BY <1>1, <1>3, <1>4
  <2> QED BY <1>1, <1>2, <1>3, <1>4, <2>1, NumBlocks DEF Request
<1>5. CASE b # num_blocks - 1
  BY <1>1, <1>2, <1>3, <1>5 DEF Request
<1> QED BY <1>4, <1>5

-----------------------------------------------------------------------------
(* Bytes and the blocks they belong to                                     *)

LEMMA BlockBounds ==
    ASSUME NEW k \in Nat
    PROVE  /\ BlockOf(k) \in Nat
           /\ BlockOf(k) * BlockSize <= k
           /\ k < (BlockOf(k) + 1) * BlockSize
<1>1. BlockSize \in Nat \ {0}
  BY PieceConfig
<1>2. /\ k = BlockSize * BlockOf(k) + (k % BlockSize)
      /\ k % BlockSize \in 0 .. BlockSize - 1 /\ BlockOf(k) \in Nat
  BY <1>1, Quotient DEF BlockOf
<1>3. /\ (BlockOf(k) + 1) * BlockSize = BlockOf(k) * BlockSize + BlockSize
      /\ BlockSize * BlockOf(k) = BlockOf(k) * BlockSize
      /\ BlockOf(k) * BlockSize \in Int
  BY <1>1, <1>2, Successor
<1> QED BY <1>1, <1>2, <1>3

\* Multiples of the block size are ordered like their factors.
LEMMA Multiples ==
    ASSUME NEW b \in Nat, NEW c \in Nat
    PROVE  /\ b * BlockSize \in Nat /\ c * BlockSize \in Nat
           /\ b * BlockSize < c * BlockSize <=> b < c
<1>1. BlockSize \in Nat \ {0} /\ b \in Int /\ c \in Int
  BY PieceConfig
<1>2. BlockSize * b = b * BlockSize /\ BlockSize * c = c * BlockSize
  BY <1>1, Successor
<1>3. BlockSize * b < BlockSize * c <=> b < c
  BY <1>1, PositiveFactor
<1>4. b * BlockSize \in Nat /\ c * BlockSize \in Nat
  BY <1>1
<1> QED BY <1>2, <1>3, <1>4

\* A later byte is in no earlier block.
LEMMA BlocksOrdered ==
    ASSUME NEW k \in Nat, NEW l \in Nat, k <= l
    PROVE  BlockOf(k) <= BlockOf(l)
<1> SUFFICES ASSUME BlockOf(l) + 1 <= BlockOf(k) PROVE FALSE
  BY BlockBounds
<1>1. /\ BlockOf(k) \in Nat /\ BlockOf(l) \in Nat /\ BlockOf(l) + 1 \in Nat
      /\ BlockOf(k) * BlockSize <= k /\ l < (BlockOf(l) + 1) * BlockSize
  BY BlockBounds
<1>2. ~(BlockOf(k) * BlockSize < (BlockOf(l) + 1) * BlockSize)
  BY <1>1, Multiples
<1>3. BlockOf(k) * BlockSize \in Nat /\ (BlockOf(l) + 1) * BlockSize \in Nat
  BY <1>1, Multiples
<1> QED BY <1>1, <1>2, <1>3

\* Every byte of the piece belongs to one of its blocks, and what was requested for
\* that block includes it.
LEMMA BytesRequested ==
    ASSUME piece_len \in PieceLens, NEW k \in Bytes
    PROVE  LET request == Request(BlockOf(k)) IN
           /\ BlockOf(k) \in Blocks
           /\ request.begin <= k /\ k < request.begin + request.length
<1>1. BlockSize \in Nat \ {0} /\ piece_len \in Nat /\ k \in Nat /\ k < piece_len
  BY PieceConfig DEF Bytes
<1>2. /\ BlockOf(k) \in Nat /\ BlockOf(k) * BlockSize <= k
      /\ k < (BlockOf(k) + 1) * BlockSize
  BY <1>1, BlockBounds
<1>3. num_blocks \in Nat /\ piece_len <= num_blocks * BlockSize
  BY NumBlocks
<1>4. /\ BlockOf(k) * BlockSize \in Nat /\ num_blocks * BlockSize \in Nat
      /\ BlockOf(k) * BlockSize < num_blocks * BlockSize <=> BlockOf(k) < num_blocks
  BY <1>2, <1>3, Multiples
<1>5. BlockOf(k) \in 0 .. num_blocks - 1
  BY <1>1, <1>2, <1>3, <1>4
<1>6. (BlockOf(k) + 1) * BlockSize = BlockOf(k) * BlockSize + BlockSize
  BY <1>1, <1>2, Successor
<1> QED BY <1>1, <1>2, <1>4, <1>5, <1>6 DEF Request, Blocks

\* A block begins within the piece; only a begin that is no multiple of the block size
\* lies in the last block and past the end, if that block is not full.
LEMMA BeginsInside ==
    ASSUME piece_len \in PieceLens, NEW begin \in Nat, BlockOf(begin) \in Blocks, begin > piece_len
    PROVE  piece_len % BlockSize # 0 /\ \A b \in Nat : begin # b * BlockSize
<1>1. /\ BlockSize \in Nat \ {0} /\ piece_len \in Nat /\ num_blocks \in Nat
      /\ num_blocks * BlockSize < piece_len + BlockSize
      /\ piece_len <= num_blocks * BlockSize
  BY PieceConfig, NumBlocks
<1>2. /\ BlockOf(begin) \in Nat /\ BlockOf(begin) + 1 \in Nat /\ BlockOf(begin) + 1 <= num_blocks
      /\ begin < (BlockOf(begin) + 1) * BlockSize
  BY <1>1, BlockBounds DEF Blocks
<1>3. ~(num_blocks * BlockSize < (BlockOf(begin) + 1) * BlockSize)
  BY <1>1, <1>2, Multiples
<1>4. (BlockOf(begin) + 1) * BlockSize \in Nat /\ num_blocks * BlockSize \in Nat
  BY <1>1, <1>2, Multiples
<1>5. piece_len + 1 < num_blocks * BlockSize
  BY <1>1, <1>2, <1>3, <1>4
<1>6. ASSUME piece_len % BlockSize = 0 PROVE FALSE
  <2> DEFINE q == piece_len \div BlockSize
  <2>1. q \in Nat /\ q + 1 \in Nat /\ piece_len = BlockSize * q
    <3>1. /\ q \in Nat
          /\ piece_len = BlockSize * q + (piece_len % BlockSize)
      BY <1>1, Quotient
    <3>2. BlockSize * q \in Nat /\ BlockSize * q = q * BlockSize
      BY <1>1, <3>1, Multiples
    <3> HIDE DEF q
    <3> QED BY <1>1, <1>6, <3>1, <3>2
  <2>2. /\ BlockSize * q = q * BlockSize
        /\ (q + 1) * BlockSize = q * BlockSize + BlockSize
    BY <1>1, <2>1, Successor
  <2> HIDE DEF q
  <2>3. /\ num_blocks * BlockSize < (q + 1) * BlockSize <=> num_blocks < q + 1
        /\ q * BlockSize < num_blocks * BlockSize <=> q < num_blocks
    BY <1>1, <2>1, Multiples
  <2>4. q * BlockSize \in Nat
    BY <2>1, Multiples
  <2>5. num_blocks < q + 1 /\ q < num_blocks
    BY <1>1, <1>4, <1>5, <2>1, <2>2, <2>3, <2>4
  <2> QED BY <1>1, <2>1, <2>5
<1>7. ASSUME NEW b \in Nat, begin = b * BlockSize PROVE FALSE
  <2>1. b + 1 \in Nat /\ (b + 1) * BlockSize = b * BlockSize + BlockSize
    BY <1>1, Successor
  <2>2. num_blocks * BlockSize < (b + 1) * BlockSize
    BY <1>1, <1>4, <1>7, <2>1
  <2>3. num_blocks < b + 1
    BY <1>1, <2>1, <2>2, Multiples
  <2>4. BlockOf(begin) = b
    BY <1>1, <1>7, ExactQuotient DEF BlockOf
  <2> QED BY <1>1, <1>2, <2>3, <2>4
<1> QED BY <1>6, <1>7

-----------------------------------------------------------------------------
(* The inductive invariant: the counters bound each other, a read happens  *)
(* only with a full pipeline, the bytes of a block received in full have   *)
(* data, and nobody but a wild peer makes the task panic.                  *)

Counted ==
    /\ IsFiniteSet(received)
    /\ blocks_done = Cardinality(received)
    /\ blocks_done <= next_request
    /\ next_request <= blocks_done + Pipeline

ReadsWhenFull == at = "read" => blocks_done < num_blocks /\ ~MayRequest

BufferFollows ==
    /\ manner # "wild" => \A k \in Bytes : BlockOf(k) \in received => piece_data[k] # "zero"
    /\ at \in {"assembled", "verified"} => blocks_done = num_blocks

HonestOpen ==
    manner = "polite" =>
        /\ received \subseteq 0 .. next_request - 1
        /\ open = {Request(b) : b \in (0 .. next_request - 1) \ received}

IInv ==
    TypeOK /\ Counted /\ ReadsWhenFull /\ BufferFollows /\ HonestOpen /\ PanicsOnlyPastEnd

LEMMA BlocksCount ==
    ASSUME piece_len \in PieceLens
    PROVE  IsFiniteSet(Blocks) /\ Cardinality(Blocks) = num_blocks
BY NumBlocks, FS_Interval DEF Blocks

LEMMA InitInv == Init => IInv
<1> SUFFICES ASSUME Init PROVE IInv
  OBVIOUS
<1>1. num_blocks \in Nat
  BY NumBlocks DEF Init
<1>2. TypeOK
  BY <1>1 DEF Init, TypeOK
<1>3. Counted
  BY FS_EmptySet, PieceConfig DEF Init, Counted
<1>4. ReadsWhenFull /\ BufferFollows /\ HonestOpen /\ PanicsOnlyPastEnd
  BY <1>1 DEF Init, ReadsWhenFull, BufferFollows, HonestOpen, PanicsOnlyPastEnd
<1> QED BY <1>2, <1>3, <1>4 DEF IInv

\* A step that changes neither the piece, nor what was received or requested keeps
\* the invariant if the new position allows it.
LEMMA MoveKeepsInv ==
    ASSUME IInv,
           UNCHANGED <<piece_len, manner, next_request, blocks_done, received, piece_data, open>>,
           at' \in {"fill", "read", "assembled", "verified", "error"},
           at' = "read" => blocks_done < num_blocks /\ ~MayRequest,
           at' \in {"assembled", "verified"} => blocks_done = num_blocks
    PROVE  IInv'
<1>1. TypeOK'
  BY DEF IInv, TypeOK, num_blocks, Blocks, Bytes, Request
<1>2. Counted' /\ HonestOpen'
  BY DEF IInv, Counted, HonestOpen, Request, num_blocks
<1>3. ReadsWhenFull'
  BY DEF ReadsWhenFull, MayRequest, num_blocks
<1>4. BufferFollows' /\ PanicsOnlyPastEnd'
  BY DEF IInv, BufferFollows, Bytes, BlockOf, num_blocks, PanicsOnlyPastEnd
<1> QED BY <1>1, <1>2, <1>3, <1>4 DEF IInv

LEMMA SendKeepsInv ==
    ASSUME IInv, SendRequest
    PROVE  IInv'
<1>1. /\ next_request \in Nat /\ num_blocks \in Nat /\ num_blocks' = num_blocks
      /\ next_request < num_blocks /\ next_request' = next_request + 1
      /\ at' = "fill"
  BY NumBlocks DEF IInv, TypeOK, SendRequest, MayRequest, num_blocks
<1>2. \A b : Request(b)' = Request(b)
  BY DEF SendRequest, Request, num_blocks
<1>3. TypeOK'
  <2>1. open' \subseteq {Request(b) : b \in 0 .. next_request' - 1}
    BY <1>1 DEF IInv, TypeOK, SendRequest
  <2>2. next_request' \in 0 .. num_blocks'
    BY <1>1
  <2> QED BY <1>1, <1>2, <2>1, <2>2 DEF IInv, TypeOK, SendRequest, Blocks, Bytes
<1>4. Counted'
  BY <1>1, PieceConfig DEF IInv, TypeOK, Counted, SendRequest, MayRequest
<1>5. ReadsWhenFull' /\ BufferFollows' /\ PanicsOnlyPastEnd'
  BY <1>1 DEF IInv, ReadsWhenFull, BufferFollows, PanicsOnlyPastEnd, SendRequest, Bytes, BlockOf
<1>6. HonestOpen'
  <2> SUFFICES ASSUME manner = "polite"
               PROVE  /\ received \subseteq 0 .. next_request' - 1
                      /\ open' = {Request(b) : b \in (0 .. next_request' - 1) \ received}
    BY <1>2 DEF HonestOpen, SendRequest
  <2>1. /\ received \subseteq 0 .. next_request - 1
        /\ open = {Request(b) : b \in (0 .. next_request - 1) \ received}
    BY DEF IInv, HonestOpen
  <2>2. (0 .. next_request' - 1) \ received = ((0 .. next_request - 1) \ received) \cup {next_request}
    BY <1>1, <2>1
  <2> QED BY <1>1, <1>2, <2>1, <2>2 DEF SendRequest
<1> QED BY <1>3, <1>4, <1>5, <1>6 DEF IInv

\* Reading a block: the part of the invariant that does not speak of open requests.
\* Whoever is not wild sends a block as it is requested.
LEMMA AcceptKeepsCounts ==
    ASSUME IInv, at = "read", NEW begin \in Nat, NEW length \in Nat,
           NEW content \in {"good", "bad"}, Accept(begin, length, content),
           UNCHANGED <<piece_len, manner, next_request>>,
           manner # "wild" => \E b \in Nat : begin = b * BlockSize,
           manner # "wild" /\ BlockOf(begin) \in Blocks => length = Request(BlockOf(begin)).length
    PROVE  /\ at' \in {"fill", "panic"}
           /\ blocks_done' \in 0 .. num_blocks
           /\ received' \subseteq Blocks
           /\ piece_data' \in [Bytes -> {"zero", "good", "bad"}]
           /\ Counted' /\ ReadsWhenFull' /\ BufferFollows' /\ PanicsOnlyPastEnd'
<1>1. /\ num_blocks' = num_blocks /\ Blocks' = Blocks /\ Bytes' = Bytes /\ num_blocks \in Nat
      /\ next_request \in 0 .. num_blocks /\ blocks_done \in 0 .. num_blocks
      /\ at' \in {"fill", "panic"} /\ piece_len \in PieceLens
  BY NumBlocks DEF IInv, TypeOK, num_blocks, Blocks, Bytes, Accept
<1>2. blocks_done < num_blocks /\ ~MayRequest
  BY DEF IInv, ReadsWhenFull
<1>3. next_request >= blocks_done + 1
  BY <1>1, <1>2, PieceConfig DEF MayRequest
<1>4. PanicsOnlyPastEnd'
  <2> SUFFICES ASSUME at' = "panic" PROVE manner = "wild" /\ piece_len % BlockSize # 0
    BY DEF PanicsOnlyPastEnd
  <2>1. BlockOf(begin) \in Blocks /\ begin > piece_len
    BY DEF Accept
  <2> QED BY <1>1, <2>1, BeginsInside
<1>5. CASE /\ BlockOf(begin) \in Blocks \ received
           /\ piece_data' = Copied(begin, length, content)
           /\ received' = received \cup {BlockOf(begin)}
           /\ blocks_done' = blocks_done + 1
           /\ at' = "fill"
  <2>1. IsFiniteSet(received') /\ Cardinality(received') = Cardinality(received) + 1
    BY <1>5, FS_AddElement DEF IInv, Counted
  <2>2. Counted'
    BY <1>1, <1>3, <1>5, <2>1, PieceConfig DEF IInv, Counted
  <2>3. received' \subseteq Blocks
    BY <1>5 DEF IInv, TypeOK
  <2>4. piece_data' \in [Bytes -> {"zero", "good", "bad"}]
    BY <1>5 DEF IInv, TypeOK, Copied
  <2>5. ASSUME manner # "wild", NEW k \in Bytes, BlockOf(k) \in received'
        PROVE  piece_data'[k] # "zero"
    <3>1. CASE BlockOf(k) = BlockOf(begin)
      <4>1. begin = Request(BlockOf(begin)).begin /\ length = Request(BlockOf(begin)).length
        <5>1. PICK b \in Nat : begin = b * BlockSize
          BY <2>5
        <5>2. BlockOf(begin) = b
          BY <5>1, PieceConfig, ExactQuotient DEF BlockOf
        <5> QED BY <1>5, <2>5, <5>1, <5>2 DEF Request
      <4>2. begin <= k /\ k < begin + length
        BY <1>1, <3>1, <4>1, BytesRequested
      <4> QED BY <1>5, <4>2 DEF Copied
    <3>2. CASE BlockOf(k) \in received
      BY <1>5, <2>5, <3>2 DEF IInv, BufferFollows, Copied
    <3> QED BY <1>5, <2>5, <3>1, <3>2
  <2>6. BufferFollows'
    BY <1>1, <1>5, <2>5 DEF BufferFollows, BlockOf
  <2> QED BY <1>1, <1>2, <1>4, <1>5, <2>2, <2>3, <2>4, <2>6 DEF ReadsWhenFull
<1>6. CASE UNCHANGED <<piece_data, received, blocks_done>>
  <2>1. Counted' /\ ReadsWhenFull'
    BY <1>1, <1>6 DEF IInv, Counted, ReadsWhenFull
  <2>2. BufferFollows'
    BY <1>1, <1>6 DEF IInv, BufferFollows, BlockOf
  <2> QED BY <1>1, <1>4, <1>6, <2>1, <2>2 DEF IInv, TypeOK
<1> QED BY <1>5, <1>6 DEF Accept

LEMMA SolicitedKeepsInv ==
    ASSUME IInv, NEW request \in open, ReadSolicited(request)
    PROVE  IInv'
<1>1. PICK content \in {"good", "bad"} : Accept(request.begin, request.length, content)
  BY DEF ReadSolicited
<1>2. /\ at = "read" /\ open' = open \ {request} /\ UNCHANGED <<piece_len, manner, next_request>>
  BY DEF ReadSolicited
<1>3. PICK b \in 0 .. next_request - 1 : request = Request(b)
  BY DEF IInv, TypeOK
<1>4. /\ piece_len \in PieceLens /\ num_blocks \in Nat /\ next_request \in 0 .. num_blocks
      /\ \A c : Request(c)' = Request(c)
      /\ num_blocks' = num_blocks /\ Blocks' = Blocks /\ Bytes' = Bytes
  BY <1>2, NumBlocks DEF IInv, TypeOK, Request, num_blocks, Blocks, Bytes
<1>5. \A c \in 0 .. next_request - 1 : /\ BlockOf(Request(c).begin) = c
                                       /\ Request(c).length \in 1 .. BlockSize
  BY <1>4, RequestShape
<1>6. request.begin = b * BlockSize /\ b \in Nat /\ b * BlockSize \in Nat /\ request.length \in Nat
  BY <1>3, <1>4, <1>5, Multiples, PieceConfig DEF Request
<1>7. /\ at' \in {"fill", "panic"} /\ blocks_done' \in 0 .. num_blocks
      /\ received' \subseteq Blocks /\ piece_data' \in [Bytes -> {"zero", "good", "bad"}]
      /\ Counted' /\ ReadsWhenFull' /\ BufferFollows' /\ PanicsOnlyPastEnd'
  BY <1>1, <1>2, <1>3, <1>5, <1>6, AcceptKeepsCounts
<1>8. TypeOK'
  BY <1>2, <1>4, <1>7 DEF IInv, TypeOK
<1>9. HonestOpen'
  <2> SUFFICES ASSUME manner = "polite"
               PROVE  /\ received' \subseteq 0 .. next_request - 1
                      /\ open' = {Request(c) : c \in (0 .. next_request - 1) \ received'}
    BY <1>2, <1>4 DEF HonestOpen
  <2>1. /\ received \subseteq 0 .. next_request - 1
        /\ open = {Request(c) : c \in (0 .. next_request - 1) \ received}
    BY DEF IInv, HonestOpen
  <2>2. b \notin received
    BY <1>3, <1>5, <2>1
  <2>3. at' # "panic"
    BY <1>2, <1>7 DEF PanicsOnlyPastEnd
  <2>4. received' = received \cup {b}
    BY <1>1, <1>3, <1>4, <1>5, <2>2, <2>3 DEF Accept, Blocks
  <2>5. \A c \in 0 .. next_request - 1 : Request(c) = Request(b) => c = b
    BY <1>5
  <2> QED BY <1>2, <1>3, <2>1, <2>4, <2>5
<1> QED BY <1>7, <1>8, <1>9 DEF IInv

LEMMA UnaskedKeepsInv ==
    ASSUME IInv, at = "read", manner # "polite", UNCHANGED <<piece_len, manner, next_request, open>>,
           NEW begin \in Nat, NEW length \in Nat, NEW content \in {"good", "bad"},
           Accept(begin, length, content),
           manner # "wild" => \E b \in Nat : begin = b * BlockSize,
           manner # "wild" /\ BlockOf(begin) \in Blocks => length = Request(BlockOf(begin)).length
    PROVE  IInv'
<1>1. /\ at' \in {"fill", "panic"} /\ blocks_done' \in 0 .. num_blocks
      /\ received' \subseteq Blocks /\ piece_data' \in [Bytes -> {"zero", "good", "bad"}]
      /\ Counted' /\ ReadsWhenFull' /\ BufferFollows' /\ PanicsOnlyPastEnd'
  BY AcceptKeepsCounts
<1>2. TypeOK'
  <2>1. /\ \A c : Request(c)' = Request(c)
        /\ num_blocks' = num_blocks /\ Blocks' = Blocks /\ Bytes' = Bytes
    BY DEF Request, num_blocks, Blocks, Bytes
  <2> QED BY <1>1, <2>1 DEF IInv, TypeOK
<1>3. HonestOpen'
  BY DEF HonestOpen
<1> QED BY <1>1, <1>2, <1>3 DEF IInv

LEMMA UnsolicitedKeepsInv ==
    ASSUME IInv, NEW b \in 0 .. num_blocks, ReadUnsolicited(b)
    PROVE  IInv'
<1>1. PICK content \in {"good", "bad"} : Accept(Request(b).begin, Request(b).length, content)
  BY DEF ReadUnsolicited
<1>2. /\ at = "read" /\ manner = "repeating" /\ UNCHANGED <<piece_len, manner, next_request, open>>
  BY DEF ReadUnsolicited
<1>3. piece_len \in PieceLens /\ num_blocks \in Nat /\ b \in Nat /\ BlockSize \in Nat \ {0}
  BY NumBlocks, PieceConfig DEF IInv, TypeOK
<1>4. Request(b).begin = b * BlockSize /\ b * BlockSize \in Nat
  BY <1>3, Multiples DEF Request
<1>5. BlockOf(Request(b).begin) = b
  BY <1>3, <1>4, ExactQuotient DEF BlockOf
<1>6. Request(b).length \in Nat
  <2>1. CASE b \in 0 .. num_blocks - 1
    BY <1>3, <2>1, RequestShape
  <2>2. CASE b = num_blocks
    BY <1>3, <2>2 DEF Request
  <2> QED BY <1>3, <2>1, <2>2
<1> QED BY <1>1, <1>2, <1>3, <1>4, <1>5, <1>6, UnaskedKeepsInv

LEMMA WildKeepsInv ==
    ASSUME IInv, NEW begin \in Nat, NEW length \in Nat, ReadWild(begin, length)
    PROVE  IInv'
BY UnaskedKeepsInv DEF ReadWild

LEMMA NextKeepsInv == IInv /\ [Next]_vars => IInv'
<1> SUFFICES ASSUME IInv, [Next]_vars PROVE IInv'
  OBVIOUS
<1>1. CASE SendRequest
  BY <1>1, SendKeepsInv
<1>2. CASE Filled
  BY <1>2, MoveKeepsInv DEF Filled
<1>3. CASE Complete
  <2>1. blocks_done = num_blocks
    BY <1>3, NumBlocks DEF Complete, IInv, TypeOK
  <2> QED BY <1>3, <2>1, MoveKeepsInv DEF Complete
<1>4. CASE Verify
  <2>1. blocks_done = num_blocks
    BY <1>4 DEF Verify, IInv, BufferFollows
  <2> QED BY <1>4, <2>1, MoveKeepsInv DEF Verify
<1>5. ASSUME NEW request \in open, ReadSolicited(request) PROVE IInv'
  BY <1>5, SolicitedKeepsInv
<1>6. ASSUME NEW b \in 0 .. num_blocks, ReadUnsolicited(b) PROVE IInv'
  BY <1>6, UnsolicitedKeepsInv
<1>10. ASSUME NEW begin \in 0 .. num_blocks * BlockSize, NEW length \in 0 .. MaxData,
              ReadWild(begin, length)
       PROVE  IInv'
  <2>1. num_blocks * BlockSize \in Nat /\ MaxData \in Nat
    BY NumBlocks, Multiples, PieceConfig DEF IInv, TypeOK
  <2> QED BY <1>10, <2>1, WildKeepsInv
<1>7. CASE ReadOther
  BY <1>7, MoveKeepsInv DEF ReadOther
<1>8. CASE Fail
  BY <1>8, MoveKeepsInv DEF Fail
<1>9. CASE Returned \/ UNCHANGED vars
  <2>1. UNCHANGED vars
    BY <1>9 DEF Returned
  <2> QED BY <2>1 DEF vars, IInv, TypeOK, Counted, ReadsWhenFull, BufferFollows, HonestOpen,
                     PanicsOnlyPastEnd, MayRequest, Blocks, Bytes, BlockOf, Request, num_blocks
<1> QED BY <1>1, <1>2, <1>3, <1>4, <1>5, <1>6, <1>7, <1>8, <1>9, <1>10 DEF Next

LEMMA InvHolds == Spec => []IInv
BY InitInv, NextKeepsInv, PTL DEF Spec

\* Every local of download_piece stays in its range: no block is requested, counted or
\* kept beyond num_blocks.
THEOREM PieceTypeCorrect == Spec => []TypeOK
BY InvHolds, PTL DEF IInv

\* The pipeline's counters bound each other: next_request - blocks_done never
\* underflows and never exceeds the pipeline.
THEOREM PipelineCorrect == Spec => []PipelineBound
<1>1. IInv => PipelineBound
  BY DEF IInv, Counted, HonestOpen, PipelineBound
<1> QED BY <1>1, InvHolds, PTL

\* Whenever the task waits for a message, a requested block is still missing:
\* fewer blocks were received than requested, so not every request is among them.
THEOREM NeverIdleHolds == Spec => []NeverIdle
<1>1. IInv => NeverIdle
  <2> SUFFICES ASSUME IInv, at = "read", 0 .. next_request - 1 \subseteq received
               PROVE  FALSE
    BY DEF NeverIdle
  <2>1. /\ num_blocks \in Nat /\ next_request \in 0 .. num_blocks
        /\ blocks_done \in 0 .. num_blocks
    BY NumBlocks DEF IInv, TypeOK
  <2>2. blocks_done < next_request
    BY <2>1, PieceConfig DEF IInv, ReadsWhenFull, MayRequest
  <2>3. Cardinality(0 .. next_request - 1) = next_request
    BY <2>1, FS_Interval
  <2>4. next_request <= blocks_done
    <3>1. IsFiniteSet(received) /\ blocks_done = Cardinality(received)
      BY DEF IInv, Counted
    <3>2. (0 .. next_request - 1) \in SUBSET received
      OBVIOUS
    <3>3. Cardinality(0 .. next_request - 1) <= Cardinality(received)
      BY <3>1, <3>2, FS_Subset
    <3> QED BY <2>3, <3>1, <3>3
  <2> QED BY <2>1, <2>2, <2>4
<1> QED BY <1>1, InvHolds, PTL

\* The buffer goes to the hash when every block was received; then every byte has data,
\* unless the peer sends short blocks.
THEOREM AssembledFullHolds == Spec => []AssembledFull
<1>1. IInv => AssembledFull
  <2> SUFFICES ASSUME IInv, at \in {"assembled", "verified"}
               PROVE  /\ next_request = num_blocks /\ received = Blocks
                      /\ manner # "wild" => \A k \in Bytes : piece_data[k] # "zero"
    BY DEF AssembledFull
  <2>1. blocks_done = num_blocks /\ next_request \in 0 .. num_blocks /\ blocks_done <= next_request
    BY DEF IInv, TypeOK, Counted, BufferFollows
  <2>2. received = Blocks
    <3>1. Cardinality(received) = Cardinality(Blocks) /\ received \subseteq Blocks
      BY <2>1, BlocksCount DEF IInv, TypeOK, Counted
    <3> QED BY <3>1, BlocksCount, FS_Subset DEF IInv, TypeOK
  <2>3. piece_len \in PieceLens /\ num_blocks \in Nat
    BY NumBlocks DEF IInv, TypeOK
  <2>4. \A k \in Bytes : BlockOf(k) \in Blocks
    BY <2>3, BytesRequested
  <2> QED BY <2>1, <2>2, <2>3, <2>4 DEF IInv, BufferFollows
<1> QED BY <1>1, InvHolds, PTL

\* The task panics only for a begin that no request has, in a piece that ends within a
\* block.
THEOREM PanicsOnlyPastEndHolds == Spec => []PanicsOnlyPastEnd
BY InvHolds, PTL DEF IInv

\* The requests tile the piece, for every block size and piece length.
THEOREM RequestsTileHolds == Spec => []RequestsTile
<1>1. IInv => RequestsTile
  <2> SUFFICES ASSUME IInv, NEW b \in 0 .. next_request - 1
               PROVE  /\ Request(b).length \in 1 .. BlockSize
                      /\ Request(b).begin + Request(b).length
                           = IF b = num_blocks - 1 THEN piece_len ELSE Request(b + 1).begin
    BY DEF RequestsTile
  <2>1. piece_len \in PieceLens /\ b \in 0 .. num_blocks - 1
    BY NumBlocks DEF IInv, TypeOK
  <2> QED BY <2>1, RequestShape
<1> QED BY <1>1, InvHolds, PTL

\* A byte of a block that was received changes only with wild data for a block before it:
\* what lands at a byte began in its block or before, and its block takes no more data.
THEOREM FirstDataKeptHolds == Spec => FirstDataKept
<1> DEFINE Kept ==
      \A k \in Bytes : BlockOf(k) \in received /\ piece_data'[k] # piece_data[k] =>
          manner = "wild" /\ \E b \in received' \ received : b < BlockOf(k)
<1>1. IInv /\ [Next]_vars => [Kept]_vars
  <2> SUFFICES ASSUME IInv, Next PROVE Kept
    OBVIOUS
  <2>1. ASSUME NEW begin \in Nat, NEW length \in Nat, NEW content,
               Accept(begin, length, content),
               NEW k \in Bytes, BlockOf(k) \in received, piece_data'[k] # piece_data[k]
        PROVE  /\ BlockOf(begin) \in Blocks /\ BlockOf(begin) \in received' \ received
               /\ BlockOf(begin) < BlockOf(k)
               /\ begin <= k /\ k < begin + length
    <3>1. /\ BlockOf(begin) \in Blocks \ received /\ received' = received \cup {BlockOf(begin)}
          /\ piece_data' = Copied(begin, length, content)
      BY <2>1 DEF Accept
    <3>2. begin <= k /\ k < begin + length
      BY <2>1, <3>1 DEF Copied
    <3>3. k \in Nat /\ BlockOf(k) \in Nat /\ BlockOf(begin) \in Nat
      <4>1. piece_len \in Nat
        BY PieceConfig DEF IInv, TypeOK
      <4>2. k \in Nat
        BY <4>1 DEF Bytes
      <4> QED BY <4>2, BlockBounds
    <3>4. BlockOf(begin) <= BlockOf(k)
      BY <3>2, <3>3, BlocksOrdered
    <3> QED BY <2>1, <3>1, <3>2, <3>3, <3>4
  <2>2. ASSUME NEW b \in 0 .. num_blocks, NEW content, Accept(Request(b).begin, Request(b).length, content)
        PROVE  Kept
    <3>1. piece_len \in PieceLens /\ num_blocks \in Nat /\ b \in Nat /\ BlockSize \in Nat \ {0}
      BY NumBlocks, PieceConfig DEF IInv, TypeOK
    <3>2. /\ Request(b).begin = b * BlockSize /\ b * BlockSize \in Nat
          /\ BlockOf(Request(b).begin) = b
      BY <3>1, Multiples, ExactQuotient DEF Request, BlockOf
    <3>3. CASE b \in Blocks
      <4>1. Request(b).length \in 1 .. BlockSize
        BY <3>1, <3>3, RequestShape DEF Blocks
      <4>2. (b + 1) * BlockSize = b * BlockSize + BlockSize /\ b + 1 \in Nat
        BY <3>1, Successor
      <4>3. ASSUME NEW k \in Bytes, BlockOf(k) \in received, piece_data'[k] # piece_data[k]
            PROVE  FALSE
        <5>1. b < BlockOf(k) /\ k < b * BlockSize + Request(b).length
          BY <2>2, <3>2, <4>1, <4>3, <2>1
        <5>2. k \in Nat /\ BlockOf(k) \in Nat /\ BlockOf(k) * BlockSize <= k
          BY <3>1, BlockBounds, PieceConfig DEF Bytes
        <5>3. k < (b + 1) * BlockSize
          BY <3>1, <3>2, <4>1, <4>2, <5>1, <5>2
        <5>4. BlockOf(k) * BlockSize \in Nat /\ (b + 1) * BlockSize \in Nat
          BY <4>2, <5>2, Multiples
        <5>5. BlockOf(k) < b + 1
          BY <4>2, <5>2, <5>3, <5>4, Multiples
        <5> QED BY <3>1, <5>1, <5>2, <5>5
      <4> QED BY <4>3
    <3>4. CASE b \notin Blocks
      BY <2>2, <3>2, <3>4 DEF Accept
    <3> QED BY <3>3, <3>4
  <2>3. CASE UNCHANGED piece_data
    BY <2>3
  <2>4. CASE \E request \in open : ReadSolicited(request)
    <3>1. PICK request \in open, content \in {"good", "bad"} :
                 Accept(request.begin, request.length, content)
      BY <2>4 DEF ReadSolicited
    <3>2. PICK b \in 0 .. next_request - 1 : request = Request(b)
      BY DEF IInv, TypeOK
    <3>3. b \in 0 .. num_blocks
      BY NumBlocks DEF IInv, TypeOK
    <3> QED BY <2>2, <3>1, <3>2, <3>3
  <2>5. CASE \E b \in 0 .. num_blocks : ReadUnsolicited(b)
    BY <2>2, <2>5 DEF ReadUnsolicited
  <2>6. ASSUME NEW begin \in 0 .. num_blocks * BlockSize, NEW length \in 0 .. MaxData,
               ReadWild(begin, length)
        PROVE  Kept
    <3>1. begin \in Nat /\ length \in Nat
      BY NumBlocks, Multiples, PieceConfig DEF IInv, TypeOK
    <3>2. manner = "wild" /\ \E content : Accept(begin, length, content)
      BY <2>6 DEF ReadWild
    <3> QED BY <2>1, <3>1, <3>2
  <2> QED BY <2>3, <2>4, <2>5, <2>6
          DEF Next, SendRequest, Filled, Complete, Verify, ReadOther, Fail, Returned, vars
<1> QED BY <1>1, InvHolds, PTL DEF Spec, FirstDataKept
=============================================================================
