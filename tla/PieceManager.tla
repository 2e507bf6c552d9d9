---------------------------- MODULE PieceManager ----------------------------
(***************************************************************************)
(* The piece table every peer task of one download shares                  *)
(* (src/src/piece_manager.rs).  In the program it lives behind a mutex, so *)
(* each method is one atomic action.  PMNext lets any caller call any      *)
(* method in any order; module Download restricts the calls to those that  *)
(* download() and run_peer() make.                                         *)
(***************************************************************************)
EXTENDS Integers, FiniteSets

CONSTANTS
    PieceCount,     \* number of pieces
    PieceLength,    \* nominal length of a piece, in any unit
    TotalLength,    \* length of the torrent, in the same unit
    Bitfields       \* the peer bitfields claim_piece is called with

Pieces == 0 .. PieceCount - 1

ASSUME PieceConstants ==
    /\ PieceCount \in Nat
    /\ PieceLength \in Nat \ {0}
    /\ TotalLength \in Nat
    /\ Bitfields \subseteq SUBSET Pieces

PieceState == {"Needed", "Claimed", "Done"}

VARIABLES state, downloaded, done_count, needed_count

pmVars == <<state, downloaded, done_count, needed_count>>

InState(s) == {i \in Pieces : state[i] = s}

-----------------------------------------------------------------------------

\* Mutant of LastPiece: piece_count itself is taken for the last index.
LastPieceOffByOne == PieceCount

LastPiece == IF PieceCount = 0 THEN 0 ELSE PieceCount - 1

\* The last piece carries the remainder; a remainder of 0 is a full piece.
PieceLen(i) ==
    LET rem == TotalLength % PieceLength
    IN  IF i = LastPiece /\ rem # 0 THEN rem ELSE PieceLength

\* Mutant of IsComplete: nothing left to claim is taken for nothing left to do.
IsCompleteOnceClaimed == needed_count = 0

IsComplete == done_count = PieceCount

\* Mutant of Needs: a claimed piece is no longer needed.
NeedsUnclaimed(i) == i \in Pieces /\ state[i] = "Needed"

Needs(i) == i \in Pieces /\ state[i] # "Done"

PMInit ==
    /\ state = [i \in Pieces |-> "Needed"]
    /\ downloaded = 0
    /\ done_count = 0
    /\ needed_count = PieceCount

\* Mutant of Claimable: a piece another task works on is handed out again.
ClaimableNotDone(bitfield) == (Pieces \ InState("Done")) \cap bitfield

\* What claim_piece may hand to a peer with this bitfield; none: it returns None.
Claimable(bitfield) == InState("Needed") \cap bitfield

\* claim_piece returns Some(i): the first claimable piece.
ClaimPiece(bitfield, i) ==
    /\ i \in Claimable(bitfield)
    /\ \A j \in Claimable(bitfield) : i <= j
    /\ state' = [state EXCEPT ![i] = "Claimed"]
    /\ needed_count' = needed_count - 1
    /\ UNCHANGED <<downloaded, done_count>>

\* Mutant of ReturnPiece: the state is not looked at.
ReturnPieceUnguarded(i) ==
    IF i \in Pieces
    THEN /\ state' = [state EXCEPT ![i] = "Needed"]
         /\ needed_count' = needed_count + 1
         /\ UNCHANGED <<downloaded, done_count>>
    ELSE UNCHANGED pmVars

\* Only a claimed piece goes back: a late return of a Done piece does nothing.
ReturnPiece(i) ==
    IF i \in InState("Claimed")
    THEN /\ state' = [state EXCEPT ![i] = "Needed"]
         /\ needed_count' = needed_count + 1
         /\ UNCHANGED <<downloaded, done_count>>
    ELSE UNCHANGED pmVars

\* Mutant of MarkDone: needed_count is only kept by claim_piece.
MarkDoneClaimedOnly(i, len) ==
    IF i \in InState("Needed") \cup InState("Claimed")
    THEN /\ state' = [state EXCEPT ![i] = "Done"]
         /\ done_count' = done_count + 1
         /\ downloaded' = downloaded + len
         /\ UNCHANGED needed_count
    ELSE UNCHANGED pmVars

\* Idempotent; a piece restored by the resume code is Needed, not Claimed.
MarkDone(i, len) ==
    IF i \in InState("Needed") \cup InState("Claimed")
    THEN /\ state' = [state EXCEPT ![i] = "Done"]
         /\ needed_count' = needed_count - (IF state[i] = "Needed" THEN 1 ELSE 0)
         /\ done_count' = done_count + 1
         /\ downloaded' = downloaded + len
    ELSE UNCHANGED pmVars

PMNext ==
    \/ \E bitfield \in Bitfields, i \in Pieces : ClaimPiece(bitfield, i)
    \/ \E i \in 0 .. PieceCount : ReturnPiece(i)
    \/ \E i \in 0 .. PieceCount : MarkDone(i, PieceLen(i))

PMSpec == PMInit /\ [][PMNext]_pmVars

-----------------------------------------------------------------------------
\* The wire bitfield: one byte per eight pieces, most significant bit first.

\* Mutant of BuildBitfield: the least significant bit first.
BuildBitfieldReversed ==
    [b \in 0 .. (PieceCount + 7) \div 8 - 1 |->
        {bit \in 0 .. 7 : 8 * b + bit \in InState("Done")}]

BuildBitfield ==
    [b \in 0 .. (PieceCount + 7) \div 8 - 1 |->
        {bit \in 0 .. 7 : 8 * b + (7 - bit) \in InState("Done")}]

\* bytes[b] is the set of the bits of byte b that are 1; bits beyond the last
\* piece are ignored, pieces beyond the last byte are absent.
BitfieldToVec(bytes) ==
    {i \in Pieces : i \div 8 \in DOMAIN bytes /\ 7 - (i % 8) \in bytes[i \div 8]}

-----------------------------------------------------------------------------
\* The table has its declared shape.
PMTypeOK ==
    /\ state \in [Pieces -> PieceState]
    /\ downloaded \in Nat
    /\ done_count \in 0 .. PieceCount
    /\ needed_count \in 0 .. PieceCount

\* The cached counters equal the counts they cache, whatever the order of
\* claims, returns and completions: no -= 1 on a u32 can underflow and
\* is_complete() is true exactly when every piece is Done.
CountersExact ==
    /\ needed_count = Cardinality(InState("Needed"))
    /\ done_count = Cardinality(InState("Done"))

\* The pieces add up to the declared length (metainfo.rs does not check it).
LengthsAgree ==
    /\ PieceCount > 0
    /\ PieceLength * (PieceCount - 1) < TotalLength
    /\ TotalLength <= PieceLength * PieceCount

\* `downloaded` counts every Done piece once and at its own length; when the
\* torrent's lengths agree it reaches total_length exactly at completion.
DownloadedExact ==
    /\ downloaded = PieceLength * done_count
                    - (IF LastPiece \in InState("Done") THEN PieceLength - PieceLen(LastPiece) ELSE 0)
    /\ LengthsAgree => (IsComplete <=> downloaded = TotalLength)

\* bitfield_to_vec reads from what build_bitfield writes exactly the Done pieces,
\* also when the piece count is no multiple of eight.
BitfieldRoundTrip == BitfieldToVec(BuildBitfield) = InState("Done")

\* No call, however late or repeated, takes a Done piece back or counts it
\* again: return_piece and mark_done on it change nothing.
DoneIsFinal ==
    [][\A i \in Pieces : state[i] = "Done" =>
          /\ state'[i] = "Done"
          /\ InState("Done")' = InState("Done") => downloaded' = downloaded]_pmVars
=============================================================================
