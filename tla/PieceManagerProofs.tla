------------------------- MODULE PieceManagerProofs -------------------------
(***************************************************************************)
(* The piece table's counters and its byte count are exact for every       *)
(* number of pieces, every length and every order of calls.                *)
(***************************************************************************)
EXTENDS PieceManager, FiniteSetTheorems, TLAPS

\* Any set of pieces is finite and has at most PieceCount members.
LEMMA PieceSets ==
    ASSUME NEW S, S \subseteq Pieces
    PROVE  IsFiniteSet(S) /\ Cardinality(S) \in 0 .. PieceCount
<1>1. IsFiniteSet(Pieces) /\ Cardinality(Pieces) = PieceCount
  BY PieceConstants, FS_Interval DEF Pieces
<1>2. IsFiniteSet(S) /\ Cardinality(S) <= Cardinality(Pieces)
  BY <1>1, FS_Subset
<1>3. Cardinality(S) \in Nat
  BY <1>2, FS_CardinalityType
<1> QED BY <1>1, <1>2, <1>3, PieceConstants

\* When one piece changes its state, the set it leaves shrinks by one, the set
\* it enters grows by one and the third keeps its members.
LEMMA StateChange ==
    ASSUME state \in [Pieces -> PieceState],
           NEW i \in Pieces, NEW from, NEW to \in PieceState \ {from},
           state[i] = from,
           state' = [state EXCEPT ![i] = to]
    PROVE  /\ state' \in [Pieces -> PieceState]
           /\ Cardinality(InState(to)') = Cardinality(InState(to)) + 1
           /\ Cardinality(InState(from)') = Cardinality(InState(from)) - 1
           /\ \A s \in PieceState \ {to, from} : InState(s)' = InState(s)
           /\ InState(to)' = InState(to) \cup {i}
           /\ InState(from)' = InState(from) \ {i}
<1>1. InState(to)' = InState(to) \cup {i} /\ i \notin InState(to)
  BY DEF InState
<1>2. InState(from)' = InState(from) \ {i} /\ i \in InState(from)
  BY DEF InState
<1>3. \A s \in PieceState \ {to, from} : InState(s)' = InState(s)
  BY DEF InState
<1>4. IsFiniteSet(InState(to)) /\ IsFiniteSet(InState(from))
  BY PieceSets DEF InState
<1>5. Cardinality(InState(to)') = Cardinality(InState(to)) + 1
  BY <1>1, <1>4, FS_AddElement
<1>6. Cardinality(InState(from)') = Cardinality(InState(from)) - 1
  BY <1>2, <1>4, FS_RemoveElement
<1>7. state' \in [Pieces -> PieceState]
  OBVIOUS
<1> QED BY <1>1, <1>2, <1>3, <1>5, <1>6, <1>7

-----------------------------------------------------------------------------
(* One lemma per method: what it does to the counters.  They are stated of *)
(* the actions, so that a module that calls the methods can use them too.  *)

TableInv == PMTypeOK /\ CountersExact

\* Exact counters are in range.
LEMMA ExactInRange ==
    ASSUME state' \in [Pieces -> PieceState], downloaded' \in Nat, CountersExact'
    PROVE  TableInv'
<1>1. InState("Needed")' \subseteq Pieces /\ InState("Done")' \subseteq Pieces
  BY DEF InState
<1>2. /\ Cardinality(InState("Needed")') \in 0 .. PieceCount
      /\ Cardinality(InState("Done")') \in 0 .. PieceCount
  BY <1>1, PieceSets
<1> QED BY <1>2 DEF TableInv, PMTypeOK, CountersExact

LEMMA PieceLenPositive == \A i : PieceLen(i) \in 1 .. PieceLength
BY PieceConstants DEF PieceLen

LEMMA ClaimKeepsTable ==
    ASSUME TableInv, NEW bitfield, NEW i, ClaimPiece(bitfield, i)
    PROVE  TableInv'
<1>1. i \in Pieces /\ state[i] = "Needed" /\ state' = [state EXCEPT ![i] = "Claimed"]
  BY DEF ClaimPiece, Claimable, InState
<1>2. state \in [Pieces -> PieceState]
  BY DEF TableInv, PMTypeOK
<1>3. /\ state' \in [Pieces -> PieceState]
      /\ Cardinality(InState("Needed")') = Cardinality(InState("Needed")) - 1
      /\ InState("Done")' = InState("Done")
  <2>1. /\ "Needed" # "Claimed" /\ "Claimed" \in PieceState
        /\ "Done" \in PieceState \ {"Claimed", "Needed"}
    BY DEF PieceState
  <2> QED BY <1>1, <1>2, <2>1, StateChange
<1>4. CountersExact' /\ downloaded' \in Nat
  BY <1>3 DEF TableInv, PMTypeOK, CountersExact, ClaimPiece
<1> QED BY <1>3, <1>4, ExactInRange

LEMMA ReturnKeepsTable ==
    ASSUME TableInv, NEW i, ReturnPiece(i)
    PROVE  TableInv'
<1>1. CASE i \in InState("Claimed")
  <2>1. i \in Pieces /\ state[i] = "Claimed"
    BY <1>1 DEF InState
  <2>2. /\ state' \in [Pieces -> PieceState]
        /\ Cardinality(InState("Needed")') = Cardinality(InState("Needed")) + 1
        /\ InState("Done")' = InState("Done")
    BY <1>1, <2>1, StateChange DEF TableInv, PMTypeOK, ReturnPiece, PieceState
  <2>3. CountersExact' /\ downloaded' \in Nat
    BY <1>1, <2>2 DEF TableInv, PMTypeOK, CountersExact, ReturnPiece
  <2> QED BY <2>2, <2>3, ExactInRange
<1>2. CASE i \notin InState("Claimed")
  BY <1>2 DEF ReturnPiece, TableInv, PMTypeOK, CountersExact, pmVars, InState
<1> QED BY <1>1, <1>2

LEMMA MarkKeepsTable ==
    ASSUME TableInv, NEW i, NEW len \in Nat, MarkDone(i, len)
    PROVE  TableInv'
<1>1. CASE i \in InState("Needed")
  <2>1. i \in Pieces /\ state[i] = "Needed"
    BY <1>1 DEF InState
  <2>2. /\ state' \in [Pieces -> PieceState]
        /\ Cardinality(InState("Needed")') = Cardinality(InState("Needed")) - 1
        /\ Cardinality(InState("Done")') = Cardinality(InState("Done")) + 1
    BY <1>1, <2>1, StateChange DEF TableInv, PMTypeOK, MarkDone, PieceState
  <2>3. CountersExact' /\ downloaded' \in Nat
    BY <1>1, <2>1, <2>2 DEF TableInv, PMTypeOK, CountersExact, MarkDone
  <2> QED BY <2>2, <2>3, ExactInRange
<1>2. CASE i \in InState("Claimed")
  <2>1. i \in Pieces /\ state[i] = "Claimed"
    BY <1>2 DEF InState
  <2>2. /\ state' \in [Pieces -> PieceState]
        /\ InState("Needed")' = InState("Needed")
        /\ Cardinality(InState("Done")') = Cardinality(InState("Done")) + 1
    BY <1>2, <2>1, StateChange DEF TableInv, PMTypeOK, MarkDone, PieceState
  <2>3. CountersExact' /\ downloaded' \in Nat
    BY <1>2, <2>1, <2>2 DEF TableInv, PMTypeOK, CountersExact, MarkDone
  <2> QED BY <2>2, <2>3, ExactInRange
<1>3. CASE i \notin InState("Needed") \cup InState("Claimed")
  BY <1>3 DEF MarkDone, TableInv, PMTypeOK, CountersExact, pmVars, InState
<1> QED BY <1>1, <1>2, <1>3

LEMMA InitTable == PMInit => TableInv
<1> SUFFICES ASSUME PMInit PROVE TableInv
  OBVIOUS
<1>1. state \in [Pieces -> PieceState] /\ downloaded \in Nat
  BY DEF PMInit, PieceState
<1>2. InState("Needed") = Pieces /\ InState("Done") = {}
  BY DEF PMInit, InState
<1>3. Cardinality(Pieces) = PieceCount
  BY PieceConstants, FS_Interval DEF Pieces
<1>4. CountersExact
  BY <1>2, <1>3, FS_EmptySet DEF PMInit, CountersExact
<1>5. done_count \in 0 .. PieceCount /\ needed_count \in 0 .. PieceCount
  BY PieceConstants DEF PMInit
<1> QED BY <1>1, <1>4, <1>5 DEF TableInv, PMTypeOK

LEMMA StutterKeepsTable == TableInv /\ UNCHANGED pmVars => TableInv'
BY DEF TableInv, PMTypeOK, CountersExact, pmVars, InState

\* The counters the table caches are exact in every reachable state.
THEOREM TableCorrect == PMSpec => [](PMTypeOK /\ CountersExact)
<1>1. PMInit => TableInv
  BY InitTable
<1>2. TableInv /\ [PMNext]_pmVars => TableInv'
  <2> SUFFICES ASSUME TableInv, [PMNext]_pmVars PROVE TableInv'
    OBVIOUS
  <2>1. ASSUME NEW bitfield \in Bitfields, NEW i \in Pieces, ClaimPiece(bitfield, i)
        PROVE  TableInv'
    BY <2>1, ClaimKeepsTable
  <2>2. ASSUME NEW i \in 0 .. PieceCount, ReturnPiece(i)
        PROVE  TableInv'
    BY <2>2, ReturnKeepsTable
  <2>3. ASSUME NEW i \in 0 .. PieceCount, MarkDone(i, PieceLen(i))
        PROVE  TableInv'
    <3>1. PieceLen(i) \in Nat
      BY PieceLenPositive, PieceConstants
    <3> QED BY <2>3, <3>1, MarkKeepsTable
  <2>4. CASE UNCHANGED pmVars
    BY <2>4, StutterKeepsTable
  <2> QED BY <2>1, <2>2, <2>3, <2>4 DEF PMNext
<1>3. TableInv => PMTypeOK /\ CountersExact
  BY DEF TableInv
<1> QED BY <1>1, <1>2, <1>3, PTL DEF PMSpec

-----------------------------------------------------------------------------
(* The byte count                                                          *)

LEMMA Distribute ==
    ASSUME NEW a \in Int, NEW b \in Int
    PROVE  a * (b + 1) = a * b + a
OBVIOUS

LEMMA PositiveFactor ==
    ASSUME NEW a \in Nat \ {0}, NEW b \in Int, NEW c \in Int
    PROVE  /\ a * b = a * c => b = c
           /\ a * b < a * c => b < c
OBVIOUS

\* The closed form of the byte count, the first half of DownloadedExact.
ShortBy == IF LastPiece \in InState("Done") THEN PieceLength - PieceLen(LastPiece) ELSE 0
BytesExact == downloaded = PieceLength * done_count - ShortBy

LEMMA MarkKeepsBytes ==
    ASSUME TableInv, BytesExact, NEW i, MarkDone(i, PieceLen(i))
    PROVE  BytesExact'
<1>1. CASE i \in InState("Needed") \cup InState("Claimed")
  <2>1. i \in Pieces /\ state[i] # "Done" /\ state' = [state EXCEPT ![i] = "Done"]
    BY <1>1 DEF InState, MarkDone
  <2>2. InState("Done")' = InState("Done") \cup {i} /\ i \notin InState("Done")
    BY <2>1 DEF InState, TableInv, PMTypeOK
  <2>3. downloaded' = downloaded + PieceLen(i) /\ done_count' = done_count + 1
    BY <1>1 DEF MarkDone
  <2>4. PieceLength * done_count' = PieceLength * done_count + PieceLength
    BY <2>3, Distribute, PieceConstants DEF TableInv, PMTypeOK
  <2>5. /\ PieceLength * done_count \in Int /\ PieceLength \in Int
        /\ PieceLen(i) \in Int /\ PieceLen(LastPiece) \in Int
    BY PieceLenPositive, PieceConstants DEF TableInv, PMTypeOK
  <2>6. CASE i = LastPiece
    <3>1. ShortBy = 0 /\ ShortBy' = PieceLength - PieceLen(i)
      BY <2>2, <2>6 DEF ShortBy
    <3> QED BY <2>3, <2>4, <2>5, <3>1 DEF BytesExact
  <2>7. CASE i # LastPiece
    <3>1. ShortBy' = ShortBy /\ PieceLen(i) = PieceLength
      BY <2>2, <2>7 DEF ShortBy, PieceLen
    <3>2. ShortBy \in Int
      BY <2>5 DEF ShortBy
    <3> QED BY <2>3, <2>4, <2>5, <3>1, <3>2 DEF BytesExact
  <2> QED BY <2>6, <2>7
<1>2. CASE i \notin InState("Needed") \cup InState("Claimed")
  BY <1>2 DEF MarkDone, BytesExact, ShortBy, InState, pmVars
<1> QED BY <1>1, <1>2

LEMMA Remainder ==
    ASSUME NEW p \in Nat \ {0}, NEW q \in Nat, NEW r \in 0 .. p - 1
    PROVE  (p * q + r) % p = r
OBVIOUS

\* Where the lengths agree, the last piece is what the others leave.
LEMMA LastPieceLen ==
    LengthsAgree => PieceLen(LastPiece) = TotalLength - PieceLength * (PieceCount - 1)
<1> SUFFICES ASSUME LengthsAgree
             PROVE  PieceLen(LastPiece) = TotalLength - PieceLength * (PieceCount - 1)
  OBVIOUS
<1> DEFINE before == PieceLength * (PieceCount - 1)
           rest == TotalLength - before
<1>1. /\ before \in Nat /\ rest \in 1 .. PieceLength
      /\ PieceLength * PieceCount = before + PieceLength
  BY PieceConstants, Distribute DEF LengthsAgree
<1>2. TotalLength = PieceLength * (PieceCount - 1) + rest
  BY <1>1, PieceConstants
<1>3. TotalLength % PieceLength = IF rest = PieceLength THEN 0 ELSE rest
  <2>1. CASE rest = PieceLength
    <3>1. TotalLength = PieceLength * PieceCount + 0
      BY <1>1, <1>2, <2>1, PieceConstants
    <3> HIDE DEF rest
    <3>2. (PieceLength * PieceCount + 0) % PieceLength = 0
      BY PieceConstants, Remainder
    <3> QED BY <2>1, <3>1, <3>2
  <2>2. CASE rest # PieceLength
    <3>1. rest \in 0 .. PieceLength - 1 /\ PieceCount - 1 \in Nat
      BY <1>1, <2>2, PieceConstants DEF LengthsAgree
    <3> HIDE DEF rest
    <3> QED BY <1>2, <2>2, <3>1, PieceConstants, Remainder
  <2> QED BY <2>1, <2>2
<1> QED BY <1>1, <1>3, PieceConstants DEF PieceLen, LastPiece

\* Exact counters and the closed form give DownloadedExact.
LEMMA BytesImplyDownloadedExact == TableInv /\ BytesExact => DownloadedExact
<1> SUFFICES ASSUME TableInv, BytesExact, LengthsAgree
             PROVE  IsComplete <=> downloaded = TotalLength
  BY DEF DownloadedExact, BytesExact, ShortBy
<1> DEFINE before == PieceLength * (PieceCount - 1)
           len == PieceLen(LastPiece)
<1>1. /\ before \in Nat /\ len \in 1 .. PieceLength /\ PieceLength \in Nat \ {0}
      /\ PieceCount \in Nat \ {0} /\ TotalLength \in Nat
      /\ PieceLength * PieceCount = before + PieceLength
  BY PieceConstants, Distribute, PieceLenPositive DEF LengthsAgree
<1>2. TotalLength = before + len /\ before < TotalLength
  BY <1>1, LastPieceLen
<1>3. done_count \in 0 .. PieceCount /\ PieceLength * done_count \in Int
  BY <1>1 DEF TableInv, PMTypeOK
<1>4. LastPiece \in Pieces
  BY <1>1 DEF LastPiece, Pieces
<1> HIDE DEF before, len
<1>5. ASSUME IsComplete PROVE downloaded = TotalLength
  <2>1. Cardinality(InState("Done")) = Cardinality(Pieces)
    BY <1>5, PieceConstants, FS_Interval DEF IsComplete, TableInv, CountersExact, Pieces
  <2>2. InState("Done") = Pieces
    BY <2>1, PieceSets, FS_Subset DEF InState
  <2>3. ShortBy = PieceLength - len
    BY <1>4, <2>2 DEF ShortBy, len
  <2>4. PieceLength * done_count = before + PieceLength
    BY <1>1, <1>5 DEF IsComplete
  <2> QED BY <1>1, <1>2, <2>3, <2>4 DEF BytesExact
<1>6. ASSUME downloaded = TotalLength PROVE IsComplete
  <2>1. CASE LastPiece \in InState("Done")
    <3>1. PieceLength * done_count - (PieceLength - len) = before + len
      BY <1>2, <1>6, <2>1 DEF BytesExact, ShortBy, len
    <3>2. PieceLength * done_count = PieceLength * PieceCount
      BY <1>1, <1>3, <3>1
    <3> QED BY <1>1, <1>3, <3>2, PositiveFactor DEF IsComplete
  <2>2. CASE LastPiece \notin InState("Done")
    <3>1. PieceLength * done_count = TotalLength
      BY <1>3, <1>6, <2>2 DEF BytesExact, ShortBy
    <3>2. PieceLength * (PieceCount - 1) < PieceLength * done_count
      BY <1>2, <3>1 DEF before
    <3>3. PieceCount - 1 < done_count
      BY <1>1, <1>3, <3>2, PositiveFactor
    <3> QED BY <1>1, <1>3, <3>3 DEF IsComplete
  <2> QED BY <2>1, <2>2
<1> QED BY <1>5, <1>6

\* The byte count is exact in every reachable state, for all lengths; where the
\* torrent's lengths agree it equals total_length exactly at completion.
THEOREM DownloadedCorrect == PMSpec => []DownloadedExact
<1>1. PMInit => TableInv /\ BytesExact
  <2> SUFFICES ASSUME PMInit PROVE BytesExact
    BY InitTable
  <2>1. PieceLength * 0 = 0 /\ InState("Done") = {}
    BY PieceConstants DEF PMInit, InState
  <2> QED BY <2>1 DEF PMInit, BytesExact, ShortBy
<1>2. TableInv /\ BytesExact /\ TableInv' /\ [PMNext]_pmVars => BytesExact'
  <2> SUFFICES ASSUME TableInv, BytesExact, [PMNext]_pmVars PROVE BytesExact'
    OBVIOUS
  <2>1. ASSUME NEW bitfield \in Bitfields, NEW i \in Pieces, ClaimPiece(bitfield, i)
        PROVE  BytesExact'
    <3>1. InState("Done")' = InState("Done")
      BY <2>1 DEF ClaimPiece, Claimable, InState, TableInv, PMTypeOK
    <3> QED BY <2>1, <3>1 DEF ClaimPiece, BytesExact, ShortBy
  <2>2. ASSUME NEW i \in 0 .. PieceCount, ReturnPiece(i)
        PROVE  BytesExact'
    <3>1. InState("Done")' = InState("Done")
      BY <2>2 DEF ReturnPiece, InState, TableInv, PMTypeOK, pmVars
    <3> QED BY <2>2, <3>1 DEF ReturnPiece, BytesExact, ShortBy, pmVars
  <2>3. ASSUME NEW i \in 0 .. PieceCount, MarkDone(i, PieceLen(i))
        PROVE  BytesExact'
    BY <2>3, MarkKeepsBytes
  <2>4. CASE UNCHANGED pmVars
    BY <2>4 DEF BytesExact, ShortBy, InState, pmVars
  <2> QED BY <2>1, <2>2, <2>3, <2>4 DEF PMNext
<1>3. PMSpec => []TableInv
  BY TableCorrect, PTL DEF TableInv
<1> QED BY <1>1, <1>2, <1>3, BytesImplyDownloadedExact, PTL DEF PMSpec

\* A Done piece stays Done and is not counted again, whatever is called.
THEOREM DonePieceFinal == PMSpec => DoneIsFinal
<1> DEFINE Kept == \A i \in Pieces : state[i] = "Done" =>
                     /\ state'[i] = "Done"
                     /\ InState("Done")' = InState("Done") => downloaded' = downloaded
<1>1. TableInv /\ [PMNext]_pmVars => [Kept]_pmVars
  <2> SUFFICES ASSUME TableInv, PMNext PROVE Kept
    OBVIOUS
  <2>1. ASSUME NEW bitfield \in Bitfields, NEW j \in Pieces, ClaimPiece(bitfield, j)
        PROVE  Kept
    BY <2>1 DEF ClaimPiece, Claimable, InState, TableInv, PMTypeOK
  <2>2. ASSUME NEW j \in 0 .. PieceCount, ReturnPiece(j)
        PROVE  Kept
    BY <2>2 DEF ReturnPiece, InState, TableInv, PMTypeOK, pmVars
  <2>3. ASSUME NEW j \in 0 .. PieceCount, MarkDone(j, PieceLen(j))
        PROVE  Kept
    BY <2>3 DEF MarkDone, InState, TableInv, PMTypeOK, pmVars
  <2> QED BY <2>1, <2>2, <2>3 DEF PMNext
<1>2. PMSpec => []TableInv
  BY TableCorrect, PTL DEF TableInv
<1> QED BY <1>1, <1>2, PTL DEF PMSpec, DoneIsFinal

-----------------------------------------------------------------------------
(* The wire bitfield                                                       *)

\* Piece i is bit 7 - i % 8 of byte i \div 8, and of no other byte.
LEMMA BitPlace ==
    ASSUME NEW i \in Nat, NEW n \in Nat, i < n
    PROVE  /\ i \div 8 \in 0 .. (n + 7) \div 8 - 1
           /\ 7 - (i % 8) \in 0 .. 7
           /\ 8 * (i \div 8) + (7 - (7 - (i % 8))) = i
OBVIOUS

\* What bitfield_to_vec reads from what build_bitfield writes is the set of Done pieces,
\* for every piece count, multiple of eight or not.
THEOREM BitfieldExact == PMSpec => []BitfieldRoundTrip
<1>1. BitfieldRoundTrip
  <2>1. ASSUME NEW i \in Pieces
        PROVE  i \in BitfieldToVec(BuildBitfield) <=> i \in InState("Done")
    <3>1. i \in Nat /\ PieceCount \in Nat /\ i < PieceCount
      BY PieceConstants DEF Pieces
    <3>2. i \div 8 \in 0 .. (PieceCount + 7) \div 8 - 1
          /\ 7 - (i % 8) \in 0 .. 7 /\ 8 * (i \div 8) + (7 - (7 - (i % 8))) = i
      BY <3>1, BitPlace
    <3> QED BY <3>2 DEF BitfieldToVec, BuildBitfield
  <2> QED BY <2>1 DEF BitfieldRoundTrip, BitfieldToVec, InState
<1> QED BY <1>1, PTL
=============================================================================
