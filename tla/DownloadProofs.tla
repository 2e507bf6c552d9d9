--------------------------- MODULE DownloadProofs ---------------------------
(***************************************************************************)
(* Safety of download() for any number of pieces, peers, permits and       *)
(* restarts.  The inductive invariant is Inv: the type invariant, the      *)
(* exact counters of the piece table, the two properties about claims and  *)
(* permits, and Phases, which says what the position of download() tells   *)
(* about its tasks and the table.                                          *)
(***************************************************************************)
EXTENDS Download, PieceManagerProofs

\* What the position of download() says about its tasks: none runs before the spawn
\* loop or after shutdown(), the queue is empty once the spawn loop is through, and
\* the sampled `complete` is still true when it is used.
Phases ==
    /\ main \in {"load", "verify", "open", "announce"} => \A p \in Peers : pc[p] = "idle"
    /\ main \in {"remove", "exited"} => Running = {}
    /\ \A p \in queue : pc[p] = "idle"
    /\ Running \subseteq joined
    /\ main \in {"sleep", "save", "decide"} => queue = {} \/ IsComplete
    /\ sample.complete => IsComplete
    /\ main \in {"save", "decide"} /\ joined = {} /\ IsComplete => sample.complete
    /\ main \in {"shutdown", "remove"} \/ outcome = "ok" => IsComplete
    /\ outcome = "stalled" => ~IsComplete /\ queue = {}

\* The inductive invariant.
Inv == TypeOK /\ CountersExact /\ ExclusiveClaim /\ PermitsBalance /\ Phases

-----------------------------------------------------------------------------
(* What the actions do to the table and to the set of running tasks        *)

\* Only five actions touch the table, each by one call or by starting anew.
LEMMA TableSteps ==
    ASSUME [Next]_vars
    PROVE  \/ UNCHANGED pmVars
           \/ \E i : MarkDone(i, PieceLen(i))
           \/ \E i : ReturnPiece(i)
           \/ \E bitfield, i : ClaimPiece(bitfield, i)
           \/ Restart /\ PMInit'
<1>1. CASE UNCHANGED vars
  BY <1>1 DEF vars
<1>2. CASE MainStep
  BY <1>2 DEF MainStep, Load, VerifyPiece, Verified, OpenFiles, Announce, AcquirePermit,
     SpawnTask, SpawnBreak, SpawnedAll, Sample, SaveCheckpoint, FinalSave, Stall, Reap,
     Shutdown, RemoveCheckpoint
<1>3. ASSUME NEW p \in Peers, PeerStep(p) \/ ReceiveHave(p)
      PROVE  \/ UNCHANGED pmVars
             \/ \E i : MarkDone(i, PieceLen(i))
             \/ \E i : ReturnPiece(i)
             \/ \E bitfield, i : ClaimPiece(bitfield, i)
  BY <1>3 DEF PeerStep, Connected, ConnectFailed, ReceiveBitfield, NoBitfield,
     SendInterested, NotInterested, Claim, NothingToClaim, Unchoked, Fetched, GiveUp,
     Write, WriteFailed, Panic, Mark, ReceiveHave
<1>4. CASE Land \/ (\E p \in Peers : Hang(p))
  BY <1>4 DEF Land, Hang
<1>5. CASE Restart
  BY <1>5 DEF Restart, PMInit, Pieces
<1>6. CASE Exited
  BY <1>6 DEF Exited, vars
<1> QED BY <1>1, <1>2, <1>3, <1>4, <1>5, <1>6 DEF Next

LEMMA InitTableAgain == PMInit' => TableInv'
<1> SUFFICES ASSUME PMInit' PROVE TableInv'
  OBVIOUS
<1>1. state' \in [Pieces -> PieceState] /\ downloaded' \in Nat
  BY DEF PMInit, PieceState
<1>2. InState("Needed")' = Pieces /\ InState("Done")' = {}
  BY DEF PMInit, InState
<1>3. Cardinality(Pieces) = PieceCount
  BY PieceConstants, FS_Interval DEF Pieces
<1>4. CountersExact'
  BY <1>2, <1>3, FS_EmptySet DEF PMInit, CountersExact
<1> QED BY <1>1, <1>4, ExactInRange

LEMMA TableKept == TableInv /\ [Next]_vars => TableInv'
<1> SUFFICES ASSUME TableInv, [Next]_vars PROVE TableInv'
  OBVIOUS
<1>1. ASSUME NEW i, MarkDone(i, PieceLen(i)) PROVE TableInv'
  <2>1. PieceLen(i) \in Nat
    BY PieceLenPositive, PieceConstants
  <2> QED BY <1>1, <2>1, MarkKeepsTable
<1> QED BY <1>1, TableSteps, StutterKeepsTable, ReturnKeepsTable, ClaimKeepsTable, InitTableAgain

\* The table is complete exactly when every piece is Done.
LEMMA CompleteMeansDone ==
    ASSUME TableInv
    PROVE  IsComplete <=> \A i \in Pieces : state[i] = "Done"
<1>1. IsFiniteSet(Pieces) /\ Cardinality(Pieces) = PieceCount
  BY PieceConstants, FS_Interval DEF Pieces
<1>2. InState("Done") \in SUBSET Pieces
  BY DEF InState
<1>3. IsComplete <=> Cardinality(InState("Done")) = Cardinality(Pieces)
  BY <1>1 DEF IsComplete, TableInv, CountersExact
<1>4. IsComplete <=> InState("Done") = Pieces
  BY <1>1, <1>2, <1>3, FS_Subset
<1> QED BY <1>4 DEF InState

\* No call takes a Done piece back, so a complete table stays complete.
LEMMA DoneKept ==
    ASSUME TableInv, [Next]_vars
    PROVE  \/ Restart
           \/ /\ InState("Done") \subseteq InState("Done")'
              /\ IsComplete => IsComplete'
<1>1. ASSUME \/ UNCHANGED pmVars
             \/ \E i : MarkDone(i, PieceLen(i)) \/ ReturnPiece(i)
             \/ \E bitfield, i : ClaimPiece(bitfield, i)
      PROVE  InState("Done") \subseteq InState("Done")'
  BY <1>1 DEF TableInv, PMTypeOK, pmVars, InState, MarkDone, ReturnPiece, ClaimPiece, Claimable
<1>2. ASSUME InState("Done") \subseteq InState("Done")', IsComplete
      PROVE  IsComplete'
  <2>1. \A i \in Pieces : state[i] = "Done"
    BY <1>2, CompleteMeansDone
  <2>2. \A i \in Pieces : state'[i] = "Done"
    BY <1>2, <2>1 DEF InState
  <2>3. TableInv'
    BY TableKept
  <2>4. InState("Done")' = Pieces
    BY <2>2 DEF InState
  <2>5. Cardinality(Pieces) = PieceCount
    BY PieceConstants, FS_Interval DEF Pieces
  <2> QED BY <2>3, <2>4, <2>5 DEF TableInv, CountersExact, IsComplete
<1> QED BY <1>1, <1>2, TableSteps

-----------------------------------------------------------------------------
(* Permits                                                                 *)

LEMMA RunningFinite == IsFiniteSet(Running) /\ Cardinality(Running) \in Nat
<1>1. Running \in SUBSET Peers /\ IsFiniteSet(Peers)
  BY DownloadConstants DEF Running
<1> QED BY <1>1, FS_Subset, FS_CardinalityType

\* A step of a running task that does not end it.
LEMMA RunningMoves ==
    ASSUME TypeOK, NEW p \in Peers, NEW from, NEW to, Step(p, from, to),
           from \notin {"idle", "ended"}, to \notin {"idle", "ended"}
    PROVE  Running' = Running
BY DEF Step, Running, TypeOK

\* A running task that ends gives its permit back.
LEMMA RunningEnds ==
    ASSUME TypeOK, NEW p \in Peers, pc[p] \notin {"idle", "ended"}, End(p)
    PROVE  /\ Running' = Running \ {p}
           /\ permits' + Cardinality(Running)' = permits + Cardinality(Running)
<1>1. Running' = Running \ {p} /\ p \in Running
  BY DEF End, Running, TypeOK
<1>2. Cardinality(Running') = Cardinality(Running) - 1
  BY <1>1, RunningFinite, FS_RemoveElement
<1>3. permits' = permits + 1 /\ permits \in Int
  BY DownloadConstants DEF End, TypeOK
<1> QED BY <1>1, <1>2, <1>3, RunningFinite

\* A peer's step moves or ends its task; nothing but its end touches the permits.
LEMMA PeerSteps ==
    ASSUME TypeOK, NEW p \in Peers, PeerStep(p) \/ ReceiveHave(p)
    PROVE  /\ UNCHANGED mainVars
           /\ pc[p] \notin {"idle", "ended"}
           /\ Running' \subseteq Running
           /\ permits' + Cardinality(Running)' = permits + Cardinality(Running)
           /\ permits' \in Nat
<1>1. UNCHANGED mainVars /\ pc[p] \notin {"idle", "ended"}
  BY DEF PeerStep, ReceiveHave, Connected, ConnectFailed, ReceiveBitfield, NoBitfield,
     SendInterested, NotInterested, Claim, NothingToClaim, Unchoked, Fetched, GiveUp,
     Write, WriteFailed, Panic, Mark, Step
<1>2. CASE ReceiveHave(p)
  BY <1>1, <1>2 DEF ReceiveHave, Running, TypeOK
<1>3. CASE \/ Connected(p) \/ ReceiveBitfield(p) \/ NoBitfield(p) \/ SendInterested(p)
           \/ Claim(p) \/ Unchoked(p) \/ Fetched(p) \/ Write(p) \/ Mark(p)
  <2>1. permits' = permits
    BY <1>3 DEF Connected, ReceiveBitfield, NoBitfield, SendInterested, Claim, Unchoked,
       Fetched, Write, Mark
  <2>2. PICK from, to : /\ Step(p, from, to)
                        /\ from \notin {"idle", "ended"} /\ to \notin {"idle", "ended"}
    BY <1>3 DEF Connected, ReceiveBitfield, NoBitfield, SendInterested, Claim, Unchoked,
       Fetched, Write, Mark
  <2>3. Running' = Running
    BY <2>2, RunningMoves
  <2> QED BY <1>1, <2>1, <2>3 DEF TypeOK
<1>4. CASE \/ ConnectFailed(p) \/ NotInterested(p) \/ NothingToClaim(p) \/ GiveUp(p)
           \/ WriteFailed(p) \/ Panic(p)
  <2>1. End(p)
    BY <1>4 DEF ConnectFailed, NotInterested, NothingToClaim, GiveUp, WriteFailed,
       Panic
  <2>2. permits' \in Nat
    BY <2>1, DownloadConstants DEF End, TypeOK
  <2> QED BY <1>1, <2>1, <2>2, RunningEnds
<1> QED BY <1>2, <1>3, <1>4 DEF PeerStep

LEMMA BalanceKept ==
    ASSUME TypeOK, PermitsBalance, Phases, [Next]_vars
    PROVE  PermitsBalance' /\ permits' \in Nat
<1>0. /\ permits \in Nat /\ permits \in Int /\ MaxPeers \in Nat /\ MaxPeers \in Int
      /\ IsFiniteSet(Running) /\ Cardinality(Running) \in Nat
  BY RunningFinite, DownloadConstants DEF TypeOK
<1>1. ASSUME UNCHANGED <<pc, permits>>, main # "spawn", main' # "spawn"
      PROVE  PermitsBalance' /\ permits' \in Nat
  BY <1>0, <1>1 DEF PermitsBalance, Running
<1>2. CASE UNCHANGED vars
  BY <1>0, <1>2 DEF vars, mainVars, taskVars, PermitsBalance, Running
<1>3. CASE \/ Load \/ VerifyPiece \/ Verified \/ OpenFiles \/ Announce \/ SpawnedAll
           \/ Sample \/ SaveCheckpoint \/ FinalSave \/ Stall \/ Reap \/ RemoveCheckpoint
  <2>1. UNCHANGED <<pc, permits>> /\ main # "spawn" /\ main' # "spawn"
    BY <1>3 DEF Load, VerifyPiece, Verified, OpenFiles, Announce, SpawnedAll, Sample,
       SaveCheckpoint, FinalSave, Stall, Reap, RemoveCheckpoint, Goto, Return, taskVars
  <2> QED BY <1>1, <2>1
<1>4. CASE AcquirePermit
  BY <1>0, <1>4 DEF AcquirePermit, Goto, PermitsBalance, Running, taskVars
<1>5. CASE SpawnTask
  <2>1. PICK p \in queue : pc' = [pc EXCEPT ![p] = "connect"]
    BY <1>5 DEF SpawnTask
  <2>2. Running' = Running \cup {p} /\ p \notin Running
    BY <2>1 DEF Running, TypeOK, Phases
  <2>3. Cardinality(Running') = Cardinality(Running) + 1
    BY <1>0, <2>2, FS_AddElement
  <2> QED BY <1>0, <1>5, <2>2, <2>3 DEF SpawnTask, Goto, PermitsBalance
<1>6. CASE SpawnBreak
  BY <1>0, <1>6 DEF SpawnBreak, Goto, PermitsBalance, Running, taskVars
<1>7. CASE Shutdown
  <2>1. Running' = {}
    BY <1>7 DEF Shutdown, Running
  <2>2. Cardinality(Running') = 0
    BY <2>1, FS_EmptySet
  <2> QED BY <1>0, <1>7, <2>2 DEF Shutdown, Goto, PermitsBalance
<1>8. ASSUME NEW p \in Peers, PeerStep(p) \/ ReceiveHave(p)
      PROVE  PermitsBalance' /\ permits' \in Nat
  <2>1. main' = main /\ permits' \in Nat /\ Cardinality(Running)' = Cardinality(Running')
    BY <1>8, PeerSteps DEF mainVars
  <2>2. permits' + Cardinality(Running)' = permits + Cardinality(Running)
    BY <1>8, PeerSteps
  <2>3. Cardinality(Running') \in Nat
    <3>1. Running' \in SUBSET Running
      BY <1>8, PeerSteps
    <3> QED BY <1>0, <3>1, FS_Subset, FS_CardinalityType
  <2> QED BY <1>0, <2>1, <2>2, <2>3 DEF PermitsBalance
<1>9. CASE Land \/ (\E p \in Peers : Hang(p))
  BY <1>0, <1>9 DEF Land, Hang, mainVars, taskVars, PermitsBalance, Running
<1>10. CASE Restart
  <2>1. Running' = {}
    BY <1>10 DEF Restart, Running
  <2>2. Cardinality(Running') = 0
    BY <2>1, FS_EmptySet
  <2> QED BY <1>0, <1>10, <2>2 DEF Restart, PermitsBalance
<1>11. CASE Exited
  BY <1>2, <1>11 DEF Exited
<1> QED BY <1>2, <1>3, <1>4, <1>5, <1>6, <1>7, <1>8, <1>9, <1>10, <1>11 DEF Next, MainStep

-----------------------------------------------------------------------------
(* The invariant                                                           *)

LEMMA InitInv == Init => Inv
<1> SUFFICES ASSUME Init PROVE Inv
  OBVIOUS
<1>1. TableInv /\ PieceCount \in Nat /\ MaxPeers \in Nat /\ 0 \in Nat
  BY InitTable, PieceConstants, DownloadConstants DEF Init
<1>2. Running = {} /\ Cardinality(Running) = 0
  BY FS_EmptySet DEF Init, Running
<1>3. TypeOK
  <2>1. PMTypeOK /\ permits \in 0 .. MaxPeers /\ restarts \in 0 .. MaxRestarts
    BY <1>1, DownloadConstants DEF Init, TableInv
  <2>2. /\ pc \in [Peers -> PeerPC] /\ has \in [Peers -> SUBSET Pieces]
        /\ choked \in [Peers -> BOOLEAN] /\ claim \in [Peers -> Pieces \cup {NoPiece}]
    BY DEF Init, PeerPC
  <2>3. sample \in [complete : BOOLEAN, done : SUBSET Pieces] /\ last_saved \in 0 .. PieceCount
    BY <1>1 DEF Init, NoSample
  <2>4. main \in MainPC /\ save_failed \in BOOLEAN
    BY DEF Init, MainPC
  <2> QED BY <2>1, <2>2, <2>3, <2>4 DEF Init, TypeOK
<1>4. ExclusiveClaim
  BY DEF Init, ExclusiveClaim
<1>5. PermitsBalance
  BY <1>1, <1>2 DEF Init, PermitsBalance
<1>6. Phases
  BY <1>2 DEF Init, Phases, NoSample
<1> QED BY <1>1, <1>3, <1>4, <1>5, <1>6 DEF Inv, TableInv

LEMMA TypeKept ==
    ASSUME TypeOK, CountersExact, ExclusiveClaim, PermitsBalance, Phases, [Next]_vars
    PROVE  TypeOK'
<1> DEFINE Shape ==
      /\ main \in MainPC
      /\ outcome \in {"running", "ok", "stalled", "no_peers", "io_error"}
      /\ main = "exited" <=> outcome # "running"
      /\ unverified \subseteq Pieces
      /\ queue \subseteq Peers /\ joined \subseteq Peers
      /\ sample \in [complete : BOOLEAN, done : SUBSET Pieces]
      /\ last_saved \in 0 .. PieceCount
      /\ pc \in [Peers -> PeerPC]
      /\ has \in [Peers -> SUBSET Pieces]
      /\ choked \in [Peers -> BOOLEAN]
      /\ claim \in [Peers -> Pieces \cup {NoPiece}]
      /\ disk \subseteq Pieces /\ inflight \subseteq Pieces /\ ckpt \subseteq Pieces
      /\ hung \subseteq Peers \ Healthy
      /\ save_failed \in BOOLEAN
      /\ restarts \in 0 .. MaxRestarts
<1>1. PMTypeOK'
  BY TableKept DEF TypeOK, TableInv
<1>2. permits' \in 0 .. MaxPeers
  <2>1. PermitsBalance' /\ permits' \in Nat
    BY BalanceKept
  <2>2. Cardinality(Running') \in Nat
    <3>1. Running' \in SUBSET Peers
      BY DEF Running
    <3> QED BY <3>1, DownloadConstants, FS_Subset, FS_CardinalityType
  <2> QED BY <2>1, <2>2, DownloadConstants DEF PermitsBalance
<1>3. Shape'
  <2>1. Shape /\ done_count \in 0 .. PieceCount
    BY DEF TypeOK, PMTypeOK
  <2>2. CASE UNCHANGED vars
    BY <2>1, <2>2 DEF vars, mainVars, taskVars, diskVars, runVars, Pieces, MainPC, PeerPC
  <2>3. CASE Load \/ VerifyPiece \/ Verified \/ OpenFiles \/ AcquirePermit \/ SpawnBreak \/ SpawnedAll
    BY <2>1, <2>3 DEF Load, VerifyPiece, Verified, OpenFiles, AcquirePermit, SpawnBreak,
       SpawnedAll, Goto, Return, taskVars, diskVars, runVars, MainPC
  <2>4. CASE Announce
    BY <2>1, <2>4 DEF Announce, Goto, Return, taskVars, diskVars, runVars, MainPC
  <2>5. CASE SpawnTask
    BY <2>1, <2>5 DEF SpawnTask, Goto, diskVars, runVars, MainPC, PeerPC
  <2>6. CASE Sample
    BY <2>1, <2>6 DEF Sample, Goto, taskVars, diskVars, runVars, MainPC, IsComplete
  <2>7. CASE SaveCheckpoint
    <3>1. Cardinality(sample.done) \in 0 .. PieceCount
      BY <2>1, PieceSets
    <3> QED BY <2>1, <2>7, <3>1 DEF SaveCheckpoint, Goto, taskVars, diskVars, runVars, MainPC
  <2>8. CASE FinalSave \/ Stall \/ RemoveCheckpoint
    BY <2>1, <2>8 DEF FinalSave, Stall, RemoveCheckpoint, Goto, Return, taskVars, diskVars, runVars, MainPC
  <2>9. CASE Reap
    BY <2>1, <2>9 DEF Reap, Goto, taskVars, diskVars, runVars, MainPC, NoSample
  <2>10. CASE Shutdown
    BY <2>1, <2>10 DEF Shutdown, Goto, diskVars, MainPC, PeerPC
  <2>11. ASSUME NEW p \in Peers, PeerStep(p) \/ ReceiveHave(p) PROVE Shape'
    <3>1. UNCHANGED <<mainVars, ckpt, runVars>>
      BY <2>11 DEF PeerStep, ReceiveHave, Connected, ConnectFailed, ReceiveBitfield,
         NoBitfield, SendInterested, NotInterested, Claim, NothingToClaim, Unchoked,
         Fetched, GiveUp, Write, WriteFailed, Panic, Mark
    <3>2. pc' \in [Peers -> PeerPC] /\ claim' \in [Peers -> Pieces \cup {NoPiece}]
      BY <2>1, <2>11 DEF PeerStep, ReceiveHave, Connected, ConnectFailed, ReceiveBitfield,
         NoBitfield, SendInterested, NotInterested, Claim, NothingToClaim, Unchoked,
         Fetched, GiveUp, Write, WriteFailed, Panic, Mark, Step, End, PeerPC
    <3>3. has' \in [Peers -> SUBSET Pieces] /\ choked' \in [Peers -> BOOLEAN]
      <4>1. CASE ReceiveBitfield(p)
        <5>1. PICK bitfield \in Bitfields : has' = [has EXCEPT ![p] = bitfield]
          BY <4>1 DEF ReceiveBitfield
        <5>2. bitfield \in SUBSET Pieces
          BY PieceConstants
        <5> QED BY <2>1, <4>1, <5>1, <5>2 DEF ReceiveBitfield
      <4>2. CASE ReceiveHave(p)
        BY <2>1, <4>2 DEF ReceiveHave
      <4>3. CASE Unchoked(p)
        BY <2>1, <4>3 DEF Unchoked
      <4>4. CASE End(p)
        BY <2>1, <4>4 DEF End
      <4>5. CASE UNCHANGED <<has, choked>>
        BY <2>1, <4>5
      <4>6. ReceiveBitfield(p) \/ ReceiveHave(p) \/ Unchoked(p) \/ End(p) \/ UNCHANGED <<has, choked>>
        BY <2>11 DEF PeerStep, Connected, ConnectFailed, NoBitfield, SendInterested,
           NotInterested, Claim, NothingToClaim, Fetched, GiveUp, Write, WriteFailed, Panic, Mark
      <4> QED BY <4>1, <4>2, <4>3, <4>4, <4>5, <4>6
    <3>4. disk' \subseteq Pieces /\ inflight' \subseteq Pieces
      <4>1. pc[p] = "write" => claim[p] \in Pieces
        BY <2>1 DEF ExclusiveClaim
      <4> QED BY <2>1, <2>11, <4>1 DEF PeerStep, ReceiveHave, Connected, ConnectFailed, ReceiveBitfield,
         NoBitfield, SendInterested, NotInterested, Claim, NothingToClaim, Unchoked,
         Fetched, GiveUp, Write, WriteFailed, Panic, Mark, Step, diskVars
    <3> QED BY <2>1, <3>1, <3>2, <3>3, <3>4 DEF mainVars, runVars, MainPC
  <2>12. CASE Land
    BY <2>1, <2>12 DEF Land, mainVars, taskVars, runVars
  <2>13. CASE Restart
    <3>1. /\ pc' \in [Peers -> PeerPC] /\ has' \in [Peers -> SUBSET Pieces]
          /\ choked' \in [Peers -> BOOLEAN] /\ claim' \in [Peers -> Pieces \cup {NoPiece}]
      BY <2>13 DEF Restart, PeerPC
    <3>2. sample' \in [complete : BOOLEAN, done : SUBSET Pieces] /\ last_saved' \in 0 .. PieceCount
      BY <2>13, PieceConstants DEF Restart, NoSample
    <3>3. restarts' \in 0 .. MaxRestarts
      BY <2>1, <2>13, DownloadConstants DEF Restart
    <3>4. disk' \subseteq Pieces /\ inflight' \subseteq Pieces /\ ckpt' \subseteq Pieces
      BY <2>1, <2>13 DEF Restart
    <3> QED BY <2>13, <3>1, <3>2, <3>3, <3>4 DEF Restart, MainPC
  <2>14. CASE Exited
    BY <2>2, <2>14 DEF Exited
  <2>15. CASE \E p \in Peers : Hang(p)
    BY <2>1, <2>15 DEF Hang, mainVars, taskVars, diskVars
  <2> QED BY <2>2, <2>3, <2>4, <2>5, <2>6, <2>7, <2>8, <2>9, <2>10, <2>11, <2>12, <2>13, <2>14, <2>15
          DEF Next, MainStep
<1> QED BY <1>1, <1>2, <1>3 DEF TypeOK

\* A claimed piece leaves that state only by its own task's doing.
LEMMA ClaimKept ==
    ASSUME TypeOK, CountersExact, ExclusiveClaim, Phases, [Next]_vars
    PROVE  ExclusiveClaim'
<1>0. /\ pc \in [Peers -> PeerPC] /\ claim \in [Peers -> Pieces \cup {NoPiece}]
      /\ state \in [Pieces -> PieceState] /\ NoPiece \notin Pieces
  BY DownloadConstants, PieceConstants DEF TypeOK, PMTypeOK, Pieces
<1>1. ASSUME UNCHANGED <<state, pc, claim>> PROVE ExclusiveClaim'
  BY <1>1 DEF ExclusiveClaim
<1>2. CASE UNCHANGED vars
  BY <1>1, <1>2 DEF vars, pmVars, taskVars
<1>3. CASE \/ Load \/ Verified \/ OpenFiles \/ Announce \/ AcquirePermit \/ SpawnBreak
           \/ SpawnedAll \/ Sample \/ SaveCheckpoint \/ FinalSave \/ Stall \/ Reap
           \/ RemoveCheckpoint \/ Land \/ (\E p \in Peers : Hang(p))
  BY <1>1, <1>3 DEF Hang, Load, Verified, OpenFiles, Announce, AcquirePermit, SpawnBreak,
     SpawnedAll, Sample, SaveCheckpoint, FinalSave, Stall, Reap, RemoveCheckpoint, Land,
     pmVars, taskVars
<1>4. CASE VerifyPiece
  <2>1. \A p \in Peers : claim[p] = NoPiece
    BY <1>4 DEF VerifyPiece, Phases, ExclusiveClaim
  <2> QED BY <1>4, <2>1 DEF VerifyPiece, ExclusiveClaim, taskVars
<1>5. CASE SpawnTask
  <2>1. PICK p \in queue : pc' = [pc EXCEPT ![p] = "connect"]
    BY <1>5 DEF SpawnTask
  <2>2. pc[p] = "idle" /\ UNCHANGED <<state, claim>>
    BY <1>5, <2>1 DEF SpawnTask, Phases, pmVars
  <2> QED BY <1>0, <2>1, <2>2 DEF ExclusiveClaim
<1>6. CASE Shutdown
  BY <1>0, <1>6 DEF Shutdown, ExclusiveClaim, Running
<1>7. ASSUME NEW p \in Peers, PeerStep(p) \/ ReceiveHave(p) PROVE ExclusiveClaim'
  <2>1. CASE \/ Connected(p) \/ ReceiveBitfield(p) \/ NoBitfield(p) \/ SendInterested(p)
             \/ Unchoked(p) \/ Fetched(p) \/ Write(p) \/ ReceiveHave(p)
    BY <1>0, <2>1 DEF Connected, ReceiveBitfield, NoBitfield, SendInterested, Unchoked,
       Fetched, Write, ReceiveHave, Step, ExclusiveClaim, pmVars
  <2>2. CASE ConnectFailed(p) \/ NotInterested(p) \/ NothingToClaim(p) \/ WriteFailed(p) \/ Panic(p)
    BY <1>0, <2>2 DEF ConnectFailed, NotInterested, NothingToClaim, WriteFailed, Panic, End,
       ExclusiveClaim, pmVars
  <2>3. CASE Claim(p)
    <3>1. PICK i \in Pieces : ClaimPiece(has[p], i) /\ claim' = [claim EXCEPT ![p] = i]
      BY <2>3 DEF Claim
    <3>2. state[i] = "Needed" /\ state' = [state EXCEPT ![i] = "Claimed"]
      BY <3>1 DEF ClaimPiece, Claimable, InState
    <3>3. \A q \in Peers : claim[q] # i
      BY <1>0, <3>2 DEF ExclusiveClaim
    <3> QED BY <1>0, <2>3, <3>1, <3>2, <3>3 DEF Claim, Step, ExclusiveClaim
  <2>4. CASE GiveUp(p)
    <3>1. claim[p] \in Pieces /\ state[claim[p]] = "Claimed"
      BY <1>0, <2>4 DEF GiveUp, ExclusiveClaim
    <3>2. state' = [state EXCEPT ![claim[p]] = "Needed"]
      BY <2>4, <3>1 DEF GiveUp, ReturnPiece, InState
    <3> QED BY <1>0, <2>4, <3>1, <3>2 DEF GiveUp, End, ExclusiveClaim
  <2>5. CASE Mark(p)
    <3>1. claim[p] \in Pieces /\ state[claim[p]] = "Claimed"
      BY <1>0, <2>5 DEF Mark, Step, ExclusiveClaim
    <3>2. state' = [state EXCEPT ![claim[p]] = "Done"]
      BY <2>5, <3>1 DEF Mark, MarkDone, InState
    <3> QED BY <1>0, <2>5, <3>1, <3>2 DEF Mark, Step, ExclusiveClaim
  <2> QED BY <1>7, <2>1, <2>2, <2>3, <2>4, <2>5 DEF PeerStep
<1>8. CASE Restart
  BY <1>8 DEF Restart, ExclusiveClaim
<1>9. CASE Exited
  BY <1>2, <1>9 DEF Exited
<1> QED BY <1>2, <1>3, <1>4, <1>5, <1>6, <1>7, <1>8, <1>9 DEF Next, MainStep

\* Where download() is tells which tasks run, and what it knows stays true.
LEMMA PhasesKept ==
    ASSUME TypeOK, CountersExact, ExclusiveClaim, Phases, [Next]_vars
    PROVE  Phases'
<1>0. /\ pc \in [Peers -> PeerPC] /\ queue \subseteq Peers /\ Running \subseteq Peers
      /\ sample \in [complete : BOOLEAN, done : SUBSET Pieces]
      /\ main \in MainPC /\ main = "exited" <=> outcome # "running"
  BY DEF TypeOK, Running
<1>1. ASSUME UNCHANGED <<main, outcome, queue, joined, sample, pc, done_count>>
      PROVE  Phases'
  BY <1>1 DEF Phases, Running, IsComplete
<1>2. CASE UNCHANGED vars
  BY <1>1, <1>2 DEF vars, pmVars, mainVars, taskVars
<1>3. CASE Land \/ (\E p \in Peers : Hang(p))
  BY <1>1, <1>3 DEF Land, Hang, pmVars, mainVars, taskVars
<1>4. CASE Load \/ Verified \/ OpenFiles \/ Announce
  BY <1>0, <1>4 DEF Load, Verified, OpenFiles, Announce, Goto, Return, Phases, Running,
     IsComplete, pmVars, taskVars
<1>5. CASE VerifyPiece
  <2>1. IsComplete => IsComplete'
    BY <1>5, DoneKept DEF VerifyPiece, Restart, TypeOK, TableInv
  <2> QED BY <1>0, <1>5, <2>1 DEF VerifyPiece, Phases, Running, taskVars
<1>6. CASE AcquirePermit \/ SpawnBreak \/ SpawnedAll \/ Sample \/ SaveCheckpoint
  <2>1. CASE AcquirePermit
    BY <1>0, <2>1 DEF AcquirePermit, Goto, Phases, Running, IsComplete, pmVars, taskVars
  <2>2. CASE SpawnBreak \/ SpawnedAll
    BY <1>0, <2>2 DEF SpawnBreak, SpawnedAll, Goto, Phases, Running, IsComplete, pmVars, taskVars
  <2>3. CASE Sample
    <3>1. main = "sleep" /\ main' \in {"save", "decide"} /\ sample'.complete = IsComplete
      BY <2>3 DEF Sample, Goto
    <3>2. UNCHANGED <<outcome, queue, joined, pc, done_count>>
      BY <2>3 DEF Sample, pmVars, taskVars
    <3> QED BY <1>0, <3>1, <3>2 DEF Phases, Running, IsComplete
  <2>4. CASE SaveCheckpoint
    BY <1>0, <2>4 DEF SaveCheckpoint, Goto, Phases, Running, IsComplete, pmVars, taskVars
  <2> QED BY <1>6, <2>1, <2>2, <2>3, <2>4
<1>7. CASE SpawnTask
  <2>1. PICK p \in queue : /\ queue' = queue \ {p}
                           /\ joined' = joined \cup {p}
                           /\ pc' = [pc EXCEPT ![p] = "connect"]
    BY <1>7 DEF SpawnTask
  <2>2. UNCHANGED <<outcome, sample, done_count>> /\ main = "spawn" /\ main' = "acquire"
    BY <1>7 DEF SpawnTask, Goto, pmVars
  <2>3. Running' \subseteq Running \cup {p}
    BY <1>0, <2>1 DEF Running
  <2> QED BY <1>0, <2>1, <2>2, <2>3 DEF Phases, IsComplete
<1>8. CASE FinalSave
  BY <1>0, <1>8 DEF FinalSave, Goto, Phases, Running, IsComplete, pmVars, taskVars
<1>9. CASE Stall
  BY <1>0, <1>9 DEF Stall, Return, Goto, Phases, Running, IsComplete, pmVars, taskVars
<1>10. CASE Reap
  BY <1>0, <1>10 DEF Reap, Goto, Phases, Running, IsComplete, NoSample, pmVars, taskVars
<1>11. CASE Shutdown
  <2>1. Running' = {}
    BY <1>11 DEF Shutdown, Running
  <2>2. \A p \in queue : pc'[p] = "idle"
    BY <1>0, <1>11 DEF Shutdown, Phases, Running
  <2> QED BY <1>0, <1>11, <2>1, <2>2 DEF Shutdown, Goto, Phases, IsComplete, pmVars
<1>12. CASE RemoveCheckpoint
  BY <1>0, <1>12 DEF RemoveCheckpoint, Return, Goto, Phases, Running, IsComplete, pmVars, taskVars
<1>13. ASSUME NEW p \in Peers, PeerStep(p) \/ ReceiveHave(p) PROVE Phases'
  <2>1. UNCHANGED <<main, outcome, queue, joined, sample>>
    BY <1>13, PeerSteps DEF mainVars
  <2>2. p \in Running /\ Running' \subseteq Running /\ p \notin queue
    BY <1>13, PeerSteps DEF Running, Phases
  <2>3. \A q \in Peers \ {p} : pc'[q] = pc[q]
    BY <1>0, <1>13 DEF PeerStep, ReceiveHave, Connected, ConnectFailed, ReceiveBitfield,
       NoBitfield, SendInterested, NotInterested, Claim, NothingToClaim, Unchoked,
       Fetched, GiveUp, Write, WriteFailed, Panic, Mark, Step, End
  <2>4. IsComplete => IsComplete'
    <3>1. UNCHANGED restarts /\ restarts \in Nat
      BY <1>13, DownloadConstants DEF PeerStep, ReceiveHave, Connected, ConnectFailed,
         ReceiveBitfield, NoBitfield, SendInterested, NotInterested, Claim, NothingToClaim,
         Unchoked, Fetched, GiveUp, Write, WriteFailed, Panic, Mark, TypeOK, runVars
    <3>2. ~Restart
      BY <3>1 DEF Restart
    <3> QED BY <3>2, DoneKept DEF TypeOK, TableInv
  <2>5. joined # {} /\ main \notin {"load", "verify", "open", "announce", "remove", "exited"}
    BY <1>13, <2>2, PeerSteps DEF Phases
  <2> QED BY <1>0, <2>1, <2>2, <2>3, <2>4, <2>5 DEF Phases
<1>14. CASE Restart
  <2>1. Running' = {}
    BY <1>14 DEF Restart, Running
  <2> QED BY <1>14, <2>1 DEF Restart, Phases, NoSample
<1>15. CASE Exited
  BY <1>2, <1>15 DEF Exited
<1> QED BY <1>2, <1>3, <1>4, <1>5, <1>6, <1>7, <1>8, <1>9, <1>10, <1>11, <1>12, <1>13,
           <1>14, <1>15 DEF Next, MainStep

LEMMA NextKeepsInv == Inv /\ [Next]_vars => Inv'
<1> SUFFICES ASSUME Inv, [Next]_vars PROVE Inv'
  OBVIOUS
<1>1. CountersExact'
  BY TableKept DEF Inv, TypeOK, TableInv
<1> QED BY <1>1, TypeKept, ClaimKept, BalanceKept, PhasesKept DEF Inv

LEMMA InvHolds == Spec => []Inv
BY InitInv, NextKeepsInv, PTL DEF Spec

-----------------------------------------------------------------------------
(* Theorems                                                                *)

\* download() keeps its variables in their shape and the table's counters exact.
THEOREM DownloadTypeCorrect == Spec => [](TypeOK /\ CountersExact)
<1>1. Inv => TypeOK /\ CountersExact
  BY DEF Inv
<1> QED BY <1>1, InvHolds, PTL

\* However many tasks claim, return and finish pieces, no two hold the same one and
\* nobody touches a piece another task works on.
THEOREM ClaimsExclusive == Spec => []ExclusiveClaim
<1>1. Inv => ExclusiveClaim
  BY DEF Inv
<1> QED BY <1>1, InvHolds, PTL

\* No way for a task to end loses a permit or returns it twice.
THEOREM PermitsBalanced == Spec => []PermitsBalance
<1>1. Inv => PermitsBalance
  BY DEF Inv
<1> QED BY <1>1, InvHolds, PTL

\* When shutdown() aborts the tasks that are left, none of them holds a piece.
THEOREM ShutdownAbortsNoWork == Spec => []AbortsNoWork
<1>1. Inv => AbortsNoWork
  <2> SUFFICES ASSUME Inv, main \in {"shutdown", "remove"} \/ outcome = "ok"
               PROVE  IsComplete /\ \A p \in Peers : claim[p] = NoPiece
    BY DEF AbortsNoWork
  <2>1. IsComplete
    BY DEF Inv, Phases
  <2>2. \A i \in Pieces : state[i] = "Done"
    BY <2>1, CompleteMeansDone DEF Inv, TypeOK, TableInv
  <2>3. ASSUME NEW p \in Peers, claim[p] # NoPiece PROVE FALSE
    <3>1. claim[p] \in Pieces /\ state[claim[p]] = "Claimed"
      BY <2>3 DEF Inv, TypeOK, ExclusiveClaim
    <3> QED BY <2>2, <3>1
  <2> QED BY <2>1, <2>3
<1> QED BY <1>1, InvHolds, PTL

\* A run that returns Stalled is incomplete, has no task left and no peer to try.
THEOREM StalledRunsAreOver == Spec => []StalledIsFinal
<1>1. Inv => StalledIsFinal
  BY DEF Inv, StalledIsFinal, Phases, TypeOK
<1> QED BY <1>1, InvHolds, PTL

-----------------------------------------------------------------------------
(* Which claims come back                                                  *)

\* Nothing is claimed before the spawn loop.
UnclaimedBefore ==
    main \in {"load", "verify", "open", "announce"} => InState("Claimed") = {}

LEMMA UnclaimedKept ==
    ASSUME Inv, UnclaimedBefore, [Next]_vars
    PROVE  UnclaimedBefore'
<1>0. state \in [Pieces -> PieceState] /\ main \in MainPC
  BY DEF Inv, TypeOK, PMTypeOK
<1>1. ASSUME UNCHANGED state, main' = main \/ main' \notin {"load", "verify", "open", "announce"}
      PROVE  UnclaimedBefore'
  BY <1>1 DEF UnclaimedBefore, InState
<1>2. CASE UNCHANGED vars \/ Exited \/ Land \/ (\E p \in Peers : Hang(p))
  BY <1>1, <1>2 DEF vars, Exited, Land, Hang, pmVars, mainVars
<1>3. CASE Load \/ Verified \/ OpenFiles \/ Announce
  <2>1. UNCHANGED state /\ main \in {"load", "verify", "open", "announce"}
    BY <1>3 DEF Load, Verified, OpenFiles, Announce, Goto, Return, pmVars
  <2> QED BY <2>1 DEF UnclaimedBefore, InState
<1>4. CASE VerifyPiece
  <2>1. InState("Claimed")' \subseteq InState("Claimed")
    BY <1>0, <1>4 DEF VerifyPiece, MarkDone, InState, pmVars
  <2> QED BY <1>4, <2>1 DEF VerifyPiece, UnclaimedBefore
<1>5. CASE \/ AcquirePermit \/ SpawnTask \/ SpawnBreak \/ SpawnedAll \/ Sample \/ SaveCheckpoint
           \/ FinalSave \/ Stall \/ Reap \/ Shutdown \/ RemoveCheckpoint
  BY <1>5 DEF AcquirePermit, SpawnTask, SpawnBreak, SpawnedAll, Sample, SaveCheckpoint,
     FinalSave, Stall, Reap, Shutdown, RemoveCheckpoint, Goto, Return, UnclaimedBefore
<1>6. ASSUME NEW p \in Peers, PeerStep(p) \/ ReceiveHave(p) PROVE UnclaimedBefore'
  <2>1. UNCHANGED mainVars /\ main \notin {"load", "verify", "open", "announce"}
    BY <1>6, PeerSteps DEF Inv, Phases
  <2> QED BY <2>1 DEF UnclaimedBefore, mainVars
<1>7. CASE Restart
  BY <1>7 DEF Restart, UnclaimedBefore, InState
<1> QED BY <1>2, <1>3, <1>4, <1>5, <1>6, <1>7 DEF Next, MainStep

\* What a step does to the pieces nobody works on.
LEMMA LostSteps ==
    ASSUME Inv, UnclaimedBefore, [Next]_vars
    PROVE  \/ Lost' = Lost
           \/ \E p \in Peers : (WriteFailed(p) \/ Panic(p)) /\ Lost' = Lost \cup {claim[p]}
           \/ Restart
<1>0. /\ pc \in [Peers -> PeerPC] /\ claim \in [Peers -> Pieces \cup {NoPiece}]
      /\ state \in [Pieces -> PieceState] /\ NoPiece \notin Pieces
  BY DownloadConstants, PieceConstants DEF Inv, TypeOK, PMTypeOK, Pieces
<1>1. ASSUME UNCHANGED <<state, claim>> PROVE Lost' = Lost
  BY <1>1 DEF Lost, InState
<1>2. CASE UNCHANGED vars \/ Exited \/ Land \/ (\E p \in Peers : Hang(p))
  BY <1>1, <1>2 DEF vars, Exited, Land, Hang, pmVars, taskVars
<1>3. CASE \/ Load \/ Verified \/ OpenFiles \/ Announce \/ AcquirePermit \/ SpawnTask
           \/ SpawnBreak \/ SpawnedAll \/ Sample \/ SaveCheckpoint \/ FinalSave \/ Stall
           \/ Reap \/ RemoveCheckpoint
  BY <1>1, <1>3 DEF Load, Verified, OpenFiles, Announce, AcquirePermit, SpawnTask,
     SpawnBreak, SpawnedAll, Sample, SaveCheckpoint, FinalSave, Stall, Reap,
     RemoveCheckpoint, pmVars, taskVars
<1>4. CASE VerifyPiece
  <2>1. InState("Claimed") = {}
    BY <1>4 DEF VerifyPiece, UnclaimedBefore
  <2>2. InState("Claimed")' \subseteq InState("Claimed")
    BY <1>0, <1>4 DEF VerifyPiece, MarkDone, InState, pmVars
  <2> QED BY <2>1, <2>2 DEF Lost
<1>5. CASE Shutdown
  <2>1. (\A i \in Pieces : state[i] = "Done") /\ state' = state
    BY <1>5, CompleteMeansDone DEF Shutdown, Goto, Inv, Phases, TypeOK, TableInv, pmVars
  <2> QED BY <2>1 DEF Lost, InState
<1>6. ASSUME NEW p \in Peers, PeerStep(p) \/ ReceiveHave(p)
      PROVE  \/ Lost' = Lost
             \/ (WriteFailed(p) \/ Panic(p)) /\ Lost' = Lost \cup {claim[p]}
  <2>1. CASE \/ Connected(p) \/ ReceiveBitfield(p) \/ NoBitfield(p) \/ SendInterested(p)
             \/ Unchoked(p) \/ Fetched(p) \/ Write(p) \/ ReceiveHave(p)
    BY <1>1, <2>1 DEF Connected, ReceiveBitfield, NoBitfield, SendInterested, Unchoked,
       Fetched, Write, ReceiveHave, pmVars
  <2>2. CASE ConnectFailed(p) \/ NotInterested(p) \/ NothingToClaim(p)
    <3>1. claim[p] = NoPiece /\ End(p) /\ state' = state
      BY <2>2 DEF ConnectFailed, NotInterested, NothingToClaim, Inv, ExclusiveClaim, pmVars
    <3>2. claim' = claim
      BY <1>0, <3>1 DEF End
    <3> QED BY <1>1, <3>1, <3>2
  <2>3. CASE Claim(p)
    <3>1. PICK i \in Pieces : ClaimPiece(has[p], i) /\ claim' = [claim EXCEPT ![p] = i]
      BY <2>3 DEF Claim
    <3>2. /\ state' = [state EXCEPT ![i] = "Claimed"] /\ claim[p] = NoPiece
          /\ state[i] = "Needed"
      BY <2>3, <3>1 DEF ClaimPiece, Claimable, InState, Claim, Step, Inv, ExclusiveClaim
    <3> QED BY <1>0, <3>1, <3>2 DEF Lost, InState
  <2>4. CASE GiveUp(p) \/ Mark(p)
    <3>1. claim[p] \in Pieces /\ state[claim[p]] = "Claimed"
      BY <1>0, <2>4 DEF GiveUp, Mark, Step, Inv, ExclusiveClaim
    <3>2. /\ state' \in {[state EXCEPT ![claim[p]] = "Needed"], [state EXCEPT ![claim[p]] = "Done"]}
          /\ claim' = [claim EXCEPT ![p] = NoPiece]
      BY <2>4, <3>1 DEF GiveUp, Mark, End, ReturnPiece, MarkDone, InState
    <3> QED BY <1>0, <3>1, <3>2 DEF Lost, InState
  <2>5. CASE WriteFailed(p) \/ Panic(p)
    <3>1. claim[p] \in Pieces /\ state[claim[p]] = "Claimed"
      BY <1>0, <2>5 DEF WriteFailed, Panic, Inv, ExclusiveClaim
    <3>2. \A q \in Peers : q # p => claim[q] # claim[p]
      BY <1>0, <3>1 DEF Inv, ExclusiveClaim
    <3>3. state' = state /\ claim' = [claim EXCEPT ![p] = NoPiece]
      BY <2>5 DEF WriteFailed, Panic, End, pmVars
    <3>4. Lost' = Lost \cup {claim[p]}
      BY <1>0, <3>1, <3>2, <3>3 DEF Lost, InState
    <3> QED BY <2>5, <3>4
  <2> QED BY <1>6, <2>1, <2>2, <2>3, <2>4, <2>5 DEF PeerStep
<1>7. CASE Restart
  BY <1>7
<1> QED BY <1>2, <1>3, <1>4, <1>5, <1>6, <1>7 DEF Next, MainStep

\* Whatever the peers do and whatever fails, a claim is lost only by a write that fails
\* and a panic, the piece of that task alone; every other end of a task returns it.
THEOREM ClaimsReturned == Spec => ClaimLostOnlyByFailure
<1>1. Init => UnclaimedBefore
  BY DEF Init, PMInit, UnclaimedBefore, InState
<1>2. Inv /\ UnclaimedBefore /\ [Next]_vars => UnclaimedBefore'
  BY UnclaimedKept
<1>3. Inv /\ UnclaimedBefore /\ [Next]_vars => [LosesByFailure]_vars
  BY LostSteps DEF LosesByFailure
<1> QED BY <1>1, <1>2, <1>3, InvHolds, PTL DEF Spec, ClaimLostOnlyByFailure

-----------------------------------------------------------------------------
(* Healthy peers never stall                                               *)

\* A healthy peer has sent its bitfield when its task starts to claim.
HealthyHaveAll ==
    \A p \in Healthy :
        pc[p] \in {"check", "claim", "wait", "fetch", "write", "mark"} => has[p] = Pieces

\* download() does not get past the announce without a peer.
PeerFound ==
    main \in {"acquire", "spawn", "sleep", "save", "decide"} \/ outcome = "stalled" =>
        queue # {} \/ \E p \in Peers : pc[p] # "idle"

\* The first healthy task that leaves leaves nothing unclaimed, and among healthy tasks
\* nothing comes back.
NothingLeft ==
    /\ \A p \in Peers \ Healthy : pc[p] = "idle"
    /\ \E p \in Peers : pc[p] = "ended"
    /\ Lost = {}
    => InState("Needed") = {}

HealthyInv == UnclaimedBefore /\ HealthyHaveAll /\ PeerFound /\ NothingLeft

LEMMA HealthyHaveAllKept ==
    ASSUME TypeOK, HealthyHaveAll, [Next]_vars
    PROVE  HealthyHaveAll'
<1>0. pc \in [Peers -> PeerPC] /\ has \in [Peers -> SUBSET Pieces] /\ queue \subseteq Peers
  BY DEF TypeOK
<1>1. ASSUME UNCHANGED <<pc, has>> PROVE HealthyHaveAll'
  BY <1>1 DEF HealthyHaveAll
<1>2. CASE UNCHANGED vars \/ Exited \/ Land \/ (\E p \in Peers : Hang(p))
  BY <1>1, <1>2 DEF vars, Exited, Land, Hang, taskVars
<1>3. CASE \/ Load \/ VerifyPiece \/ Verified \/ OpenFiles \/ Announce \/ AcquirePermit
           \/ SpawnBreak \/ SpawnedAll \/ Sample \/ SaveCheckpoint \/ FinalSave \/ Stall
           \/ Reap \/ RemoveCheckpoint
  BY <1>1, <1>3 DEF Load, VerifyPiece, Verified, OpenFiles, Announce, AcquirePermit,
     SpawnBreak, SpawnedAll, Sample, SaveCheckpoint, FinalSave, Stall, Reap,
     RemoveCheckpoint, taskVars
<1>4. CASE SpawnTask
  <2>1. PICK p \in queue : pc' = [pc EXCEPT ![p] = "connect"]
    BY <1>4 DEF SpawnTask
  <2>2. has' = has
    BY <1>4 DEF SpawnTask
  <2> QED BY <1>0, <2>1, <2>2, DownloadConstants DEF HealthyHaveAll
<1>5. CASE Shutdown \/ Restart
  BY <1>0, <1>5, DownloadConstants DEF Shutdown, Restart, HealthyHaveAll, Running
<1>6. ASSUME NEW p \in Peers, PeerStep(p) \/ ReceiveHave(p) PROVE HealthyHaveAll'
  <2>1. CASE \/ Connected(p) \/ NoBitfield(p) \/ SendInterested(p) \/ Claim(p) \/ Unchoked(p)
             \/ Fetched(p) \/ Write(p) \/ Mark(p)
    BY <1>0, <2>1, DownloadConstants DEF Connected, NoBitfield, SendInterested, Claim,
       Unchoked, Fetched, Write, Mark, Step, HealthyHaveAll
  <2>2. CASE \/ ConnectFailed(p) \/ NotInterested(p) \/ NothingToClaim(p) \/ GiveUp(p)
             \/ WriteFailed(p) \/ Panic(p)
    <3>1. End(p)
      BY <2>2 DEF ConnectFailed, NotInterested, NothingToClaim, GiveUp, WriteFailed, Panic
    <3> QED BY <1>0, <3>1, DownloadConstants DEF End, HealthyHaveAll
  <2>3. CASE ReceiveBitfield(p)
    <3>1. PICK bitfield \in Bitfields : /\ p \in Healthy => bitfield = Pieces
                                        /\ has' = [has EXCEPT ![p] = bitfield]
      BY <2>3 DEF ReceiveBitfield
    <3> QED BY <1>0, <2>3, <3>1, DownloadConstants DEF ReceiveBitfield, Step, HealthyHaveAll
  <2>4. CASE ReceiveHave(p)
    <3>1. PICK i \in Pieces \ has[p] : has' = [has EXCEPT ![p] = @ \cup {i}]
      BY <2>4 DEF ReceiveHave
    <3>2. pc' = pc
      BY <2>4 DEF ReceiveHave
    <3> QED BY <1>0, <3>1, <3>2, DownloadConstants DEF HealthyHaveAll
  <2> QED BY <1>6, <2>1, <2>2, <2>3, <2>4 DEF PeerStep
<1> QED BY <1>2, <1>3, <1>4, <1>5, <1>6 DEF Next, MainStep

\* A peer's step leaves the other tasks alone, and its own task spawned.
LEMMA OtherTasks ==
    ASSUME TypeOK, NEW p \in Peers, PeerStep(p) \/ ReceiveHave(p)
    PROVE  pc'[p] # "idle" /\ \A q \in Peers \ {p} : pc'[q] = pc[q]
BY DEF TypeOK, PeerStep, ReceiveHave, Connected, ConnectFailed, ReceiveBitfield, NoBitfield,
   SendInterested, NotInterested, Claim, NothingToClaim, Unchoked, Fetched, GiveUp, Write,
   WriteFailed, Panic, Mark, Step, End

LEMMA PeerFoundKept ==
    ASSUME Inv, PeerFound, [Next]_vars
    PROVE  PeerFound'
<1>0. pc \in [Peers -> PeerPC] /\ queue \subseteq Peers /\ (main = "exited" <=> outcome # "running")
  BY DEF Inv, TypeOK
<1>1. CASE UNCHANGED vars \/ Exited \/ Land \/ (\E p \in Peers : Hang(p))
  BY <1>1 DEF vars, Exited, Land, Hang, mainVars, taskVars, PeerFound
<1>2. CASE Load \/ VerifyPiece \/ Verified \/ OpenFiles \/ Announce
  BY <1>0, <1>2 DEF Load, VerifyPiece, Verified, OpenFiles, Announce, Goto, Return, PeerFound
<1>3. CASE SpawnTask
  <2>1. PICK p \in queue : pc' = [pc EXCEPT ![p] = "connect"]
    BY <1>3 DEF SpawnTask
  <2> QED BY <1>0, <2>1 DEF PeerFound
<1>4. CASE \/ AcquirePermit \/ SpawnBreak \/ SpawnedAll \/ Sample \/ SaveCheckpoint
           \/ Reap \/ Stall
  BY <1>4 DEF AcquirePermit, SpawnBreak, SpawnedAll, Sample, SaveCheckpoint, Reap, Stall,
     Goto, Return, taskVars, PeerFound
<1>5. CASE FinalSave \/ Shutdown \/ RemoveCheckpoint
  BY <1>0, <1>5 DEF FinalSave, Shutdown, RemoveCheckpoint, Goto, Return, PeerFound
<1>6. ASSUME NEW p \in Peers, PeerStep(p) \/ ReceiveHave(p) PROVE PeerFound'
  BY <1>6, OtherTasks DEF Inv, PeerFound
<1>7. CASE Restart
  BY <1>7 DEF Restart, PeerFound
<1> QED BY <1>1, <1>2, <1>3, <1>4, <1>5, <1>6, <1>7 DEF Next, MainStep

LEMMA NothingLeftKept ==
    ASSUME Inv, HealthyInv, [Next]_vars
    PROVE  NothingLeft'
<1> SUFFICES ASSUME \A p \in Peers \ Healthy : pc'[p] = "idle",
                    \E p \in Peers : pc'[p] = "ended",
                    Lost' = {}
             PROVE  InState("Needed")' = {}
  BY DEF NothingLeft
<1>0. /\ pc \in [Peers -> PeerPC] /\ claim \in [Peers -> Pieces \cup {NoPiece}]
      /\ state \in [Pieces -> PieceState] /\ NoPiece \notin Pieces /\ queue \subseteq Peers
  BY DownloadConstants, PieceConstants DEF Inv, TypeOK, PMTypeOK, Pieces
<1>1. Lost = {} \/ Restart
  BY LostSteps DEF HealthyInv
<1>2. ASSUME UNCHANGED <<state, pc, claim>> PROVE InState("Needed")' = {}
  BY <1>2 DEF HealthyInv, NothingLeft, Lost, InState
<1>3. CASE UNCHANGED vars \/ Exited \/ Land \/ (\E p \in Peers : Hang(p))
  BY <1>2, <1>3 DEF vars, Exited, Land, Hang, pmVars, taskVars
<1>4. CASE \/ Load \/ Verified \/ OpenFiles \/ Announce \/ AcquirePermit \/ SpawnBreak
           \/ SpawnedAll \/ Sample \/ SaveCheckpoint \/ FinalSave \/ Stall \/ Reap
           \/ RemoveCheckpoint
  BY <1>2, <1>4 DEF Load, Verified, OpenFiles, Announce, AcquirePermit, SpawnBreak,
     SpawnedAll, Sample, SaveCheckpoint, FinalSave, Stall, Reap, RemoveCheckpoint,
     pmVars, taskVars
<1>5. CASE VerifyPiece
  BY <1>5 DEF VerifyPiece, Inv, Phases, taskVars
<1>6. CASE SpawnTask
  <2>1. PICK p \in queue : pc' = [pc EXCEPT ![p] = "connect"]
    BY <1>6 DEF SpawnTask
  <2>2. state' = state /\ claim' = claim /\ pc[p] = "idle"
    BY <1>6 DEF SpawnTask, pmVars, Inv, Phases
  <2>3. Lost = {}
    BY <2>2 DEF Lost, InState
  <2> QED BY <1>0, <2>1, <2>2, <2>3 DEF HealthyInv, NothingLeft, InState
<1>7. CASE Shutdown
  <2>1. (\A i \in Pieces : state[i] = "Done") /\ state' = state
    BY <1>7, CompleteMeansDone DEF Shutdown, Goto, Inv, Phases, TypeOK, TableInv, pmVars
  <2> QED BY <2>1 DEF InState
<1>8. ASSUME NEW p \in Peers, PeerStep(p) \/ ReceiveHave(p)
      PROVE  InState("Needed")' = {}
  <2>1. p \in Healthy /\ \A q \in Peers \ {p} : pc'[q] = pc[q]
    BY <1>8, OtherTasks DEF Inv
  <2>2. \A q \in Peers \ Healthy : pc[q] = "idle"
    BY <2>1
  <2>3. ~Restart
    BY <1>0, <1>8, <2>1, OtherTasks DEF Restart, Inv
  <2>4. ASSUME pc'[p] # "ended", InState("Needed")' \subseteq InState("Needed")
        PROVE  InState("Needed")' = {}
    BY <1>1, <2>1, <2>2, <2>3, <2>4 DEF HealthyInv, NothingLeft
  <2>5. CASE \/ Connected(p) \/ ReceiveBitfield(p) \/ NoBitfield(p) \/ SendInterested(p)
             \/ Unchoked(p) \/ Fetched(p) \/ Write(p)
    <3>1. pc'[p] # "ended" /\ state' = state
      BY <1>0, <2>5 DEF Connected, ReceiveBitfield, NoBitfield, SendInterested, Unchoked,
         Fetched, Write, Step, pmVars
    <3> QED BY <2>4, <3>1 DEF InState
  <2>6. CASE ReceiveHave(p)
    BY <1>2, <2>6 DEF ReceiveHave, pmVars
  <2>7. CASE Claim(p)
    <3>1. PICK i \in Pieces : ClaimPiece(has[p], i)
      BY <2>7 DEF Claim
    <3>2. state' = [state EXCEPT ![i] = "Claimed"]
      BY <3>1 DEF ClaimPiece
    <3>3. pc'[p] # "ended"
      BY <1>0, <2>7 DEF Claim, Step
    <3> QED BY <1>0, <2>4, <3>2, <3>3 DEF InState
  <2>8. CASE Mark(p)
    <3>1. state' = state \/ state' = [state EXCEPT ![claim[p]] = "Done"]
      BY <2>8 DEF Mark, MarkDone, pmVars
    <3>2. pc'[p] # "ended"
      BY <1>0, <2>8 DEF Mark, Step
    <3> QED BY <1>0, <2>4, <3>1, <3>2 DEF InState
  <2>9. CASE NotInterested(p)
    <3>1. has[p] = Pieces /\ ~Useful(p) /\ state' = state
      BY <2>1, <2>9 DEF NotInterested, HealthyInv, HealthyHaveAll, pmVars
    <3> QED BY <3>1 DEF Useful, Needs, InState
  <2>10. CASE NothingToClaim(p)
    <3>1. has[p] = Pieces /\ state' = state
      BY <2>1, <2>10 DEF NothingToClaim, HealthyInv, HealthyHaveAll, pmVars
    <3>2. CASE IsComplete
      BY <3>1, <3>2, CompleteMeansDone DEF Inv, TypeOK, TableInv, InState
    <3>3. CASE Claimable(has[p]) = {}
      BY <3>1, <3>3 DEF Claimable, InState
    <3> QED BY <2>10, <3>2, <3>3 DEF NothingToClaim
  <2>11. CASE WriteFailed(p)
    <3>1. claim[p] \in Pieces /\ state[claim[p]] = "Claimed"
      BY <1>0, <2>11 DEF WriteFailed, Inv, ExclusiveClaim
    <3>2. \A q \in Peers : q # p => claim[q] # claim[p]
      BY <1>0, <3>1 DEF Inv, ExclusiveClaim
    <3>3. state' = state /\ claim' = [claim EXCEPT ![p] = NoPiece]
      BY <2>11 DEF WriteFailed, End, pmVars
    <3>4. claim[p] \in Lost'
      BY <1>0, <3>1, <3>2, <3>3 DEF Lost, InState
    <3> QED BY <3>4
  <2>12. ~(ConnectFailed(p) \/ GiveUp(p) \/ Panic(p))
    BY <2>1 DEF ConnectFailed, GiveUp, Panic
  <2> QED BY <1>8, <2>5, <2>6, <2>7, <2>8, <2>9, <2>10, <2>11, <2>12 DEF PeerStep
<1>9. CASE Restart
  BY <1>9 DEF Restart
<1> QED BY <1>3, <1>4, <1>5, <1>6, <1>7, <1>8, <1>9 DEF Next, MainStep

\* When every peer that got a task is healthy the run stalls only if a write failed,
\* in whatever order their tasks claim, finish, leave and are reaped.
THEOREM HealthyPeersNeverStall == Spec => []HealthyNeverStall
<1>1. Init => HealthyInv
  BY DownloadConstants DEF Init, PMInit, HealthyInv, UnclaimedBefore, HealthyHaveAll, PeerFound,
     NothingLeft, InState
<1>2. Inv /\ HealthyInv /\ [Next]_vars => HealthyInv'
  BY UnclaimedKept, HealthyHaveAllKept, PeerFoundKept, NothingLeftKept DEF Inv, HealthyInv
<1>3. Inv /\ HealthyInv => HealthyNeverStall
  <2> SUFFICES ASSUME Inv, HealthyInv, outcome = "stalled",
                      \A p \in Peers \ Healthy : pc[p] = "idle", Lost = {}
               PROVE  FALSE
    BY DEF HealthyNeverStall, ClaimReturned
  <2>1. main = "exited" /\ ~IsComplete /\ queue = {} /\ Running = {}
    BY DEF Inv, TypeOK, Phases
  <2>2. \E p \in Peers : pc[p] = "ended"
    BY <2>1 DEF HealthyInv, PeerFound, Running
  <2>3. InState("Needed") = {}
    BY <2>2 DEF HealthyInv, NothingLeft
  <2>4. \A p \in Peers : claim[p] = NoPiece
    BY <2>1 DEF Inv, ExclusiveClaim, Running
  <2>5. InState("Claimed") = {}
    BY <2>4, DownloadConstants, PieceConstants DEF Lost, InState, Pieces
  <2>6. \A i \in Pieces : state[i] = "Done"
    BY <2>3, <2>5 DEF Inv, TypeOK, PMTypeOK, PieceState, InState
  <2> QED BY <2>1, <2>6, CompleteMeansDone DEF Inv, TypeOK, TableInv
<1> QED BY <1>1, <1>2, <1>3, InvHolds, PTL DEF Spec

-----------------------------------------------------------------------------
(* Done pieces are stored, when no write is lost                           *)

\* What is in the files or on its way there.
Stored == disk \cup inflight

\* Done pieces are stored, and so is a piece that is about to be marked.
StoreInv ==
    /\ InState("Done") \subseteq Stored
    /\ \A p \in Peers : pc[p] = "mark" => claim[p] \in Stored

LEMMA StoreKept ==
    ASSUME "late_write" \notin Faults, Inv, StoreInv, [Next]_vars
    PROVE  StoreInv' /\ (Restart \/ Stored \subseteq Stored')
<1>0. /\ pc \in [Peers -> PeerPC] /\ claim \in [Peers -> Pieces \cup {NoPiece}]
      /\ state \in [Pieces -> PieceState]
  BY DEF Inv, TypeOK, PMTypeOK
<1>1. ASSUME UNCHANGED <<state, pc, claim>>, Stored' = Stored
      PROVE  StoreInv' /\ Stored \subseteq Stored'
  BY <1>1 DEF StoreInv, InState
<1>2. CASE UNCHANGED vars
  BY <1>1, <1>2 DEF vars, pmVars, taskVars, diskVars, Stored
<1>3. CASE \/ Load \/ Verified \/ OpenFiles \/ Announce \/ AcquirePermit \/ SpawnBreak
           \/ SpawnedAll \/ Sample \/ SaveCheckpoint \/ FinalSave \/ Stall \/ Reap
           \/ RemoveCheckpoint
  BY <1>1, <1>3 DEF Load, Verified, OpenFiles, Announce, AcquirePermit, SpawnBreak,
     SpawnedAll, Sample, SaveCheckpoint, FinalSave, Stall, Reap, RemoveCheckpoint,
     pmVars, taskVars, diskVars, Stored
<1>4. CASE Land \/ (\E p \in Peers : Hang(p))
  <2>1. Stored' = Stored
    BY <1>4 DEF Land, Hang, diskVars, Stored
  <2> QED BY <1>1, <1>4, <2>1 DEF Land, Hang, pmVars, taskVars
<1>5. CASE VerifyPiece
  BY <1>0, <1>5 DEF VerifyPiece, MarkDone, StoreInv, InState, Stored, pmVars, taskVars, diskVars
<1>6. CASE SpawnTask \/ Shutdown
  BY <1>0, <1>6 DEF SpawnTask, Shutdown, StoreInv, InState, Stored, Running, pmVars, diskVars
<1>7. ASSUME NEW p \in Peers, PeerStep(p) \/ ReceiveHave(p)
      PROVE  StoreInv' /\ Stored \subseteq Stored'
  <2>1. CASE \/ Connected(p) \/ ReceiveBitfield(p) \/ NoBitfield(p) \/ SendInterested(p)
             \/ Unchoked(p) \/ Fetched(p) \/ ReceiveHave(p)
    BY <1>0, <2>1 DEF Connected, ReceiveBitfield, NoBitfield, SendInterested, Unchoked,
       Fetched, ReceiveHave, Step, StoreInv, InState, Stored, pmVars, diskVars
  <2>2. CASE ConnectFailed(p) \/ NotInterested(p) \/ NothingToClaim(p) \/ WriteFailed(p) \/ Panic(p)
    BY <1>0, <2>2 DEF ConnectFailed, NotInterested, NothingToClaim, WriteFailed, Panic, End,
       StoreInv, InState, Stored, pmVars, diskVars
  <2>3. CASE Claim(p)
    <3>1. PICK i \in Pieces : ClaimPiece(has[p], i) /\ claim' = [claim EXCEPT ![p] = i]
      BY <2>3 DEF Claim
    <3>2. InState("Done")' \subseteq InState("Done")
      BY <1>0, <3>1 DEF ClaimPiece, InState
    <3> QED BY <1>0, <2>3, <3>1, <3>2 DEF Claim, Step, StoreInv, Stored, diskVars
  <2>4. CASE GiveUp(p)
    <3>1. InState("Done")' \subseteq InState("Done")
      BY <1>0, <2>4 DEF GiveUp, ReturnPiece, InState, pmVars
    <3> QED BY <1>0, <2>4, <3>1 DEF GiveUp, End, StoreInv, Stored, diskVars
  <2>5. CASE Write(p)
    BY <1>0, <2>5 DEF Write, Step, StoreInv, InState, Stored, pmVars
  <2>6. CASE Mark(p)
    <3>1. InState("Done")' \subseteq InState("Done") \cup {claim[p]} /\ pc[p] = "mark"
      BY <1>0, <2>6 DEF Mark, Step, MarkDone, InState, pmVars
    <3> QED BY <1>0, <2>6, <3>1 DEF Mark, Step, StoreInv, Stored, diskVars
  <2> QED BY <1>7, <2>1, <2>2, <2>3, <2>4, <2>5, <2>6 DEF PeerStep
<1>8. CASE Restart
  BY <1>8 DEF Restart, StoreInv, InState
<1>9. CASE Exited
  BY <1>2, <1>9 DEF Exited
<1> QED BY <1>2, <1>3, <1>4, <1>5, <1>6, <1>7, <1>8, <1>9 DEF Next, MainStep

\* If no write is lost after write_piece returned, a Done piece is in the files or
\* on its way there, after restarts and altered files too.
THEOREM DonePiecesStored ==
    ASSUME "late_write" \notin Faults
    PROVE  Spec => []DoneIsStored
<1>1. Init => StoreInv
  BY DEF Init, PMInit, StoreInv, InState
<1>2. Inv /\ StoreInv /\ [Next]_vars => StoreInv'
  BY StoreKept
<1>3. StoreInv => DoneIsStored
  BY DEF StoreInv, DoneIsStored, Stored
<1> QED BY <1>1, <1>2, <1>3, InvHolds, PTL DEF Spec

\* download() implements VerifiedDownload: every step is a step of the promise or
\* invisible in it.
THEOREM DownloadKeepsPromise ==
    ASSUME "late_write" \notin Faults
    PROVE  Spec => ImplementsPromise
<1> DEFINE Promised == [Promise!VDNext]_(Promise!vdVars)
           Visible == <<InState("Done"), Stored, outcome>>
<1>1. Init => StoreInv /\ Promise!VDInit
  BY DEF Init, PMInit, StoreInv, InState, Promise!VDInit
<1>2. Inv /\ StoreInv /\ [Next]_vars => StoreInv'
  BY StoreKept
<1>3. ASSUME Inv, StoreInv, [Next]_vars PROVE Promised
  <2>0. /\ pc \in [Peers -> PeerPC] /\ claim \in [Peers -> Pieces \cup {NoPiece}]
        /\ state \in [Pieces -> PieceState]
        /\ main = "exited" <=> outcome # "running"
    BY <1>3 DEF Inv, TypeOK, PMTypeOK
  <2>1. ASSUME Visible' = Visible PROVE Promised
    BY <2>1 DEF Promise!vdVars, Stored
  <2>2. ASSUME NEW i \in Pieces, outcome = "running", outcome' = outcome,
               InState("Done")' = InState("Done"), Stored' = Stored \cup {i}
        PROVE  Promised
    BY <2>2 DEF Promise!VDNext, Promise!Store, Stored
  <2>3. ASSUME NEW i \in Stored \cap Pieces, outcome = "running", outcome' = outcome,
               InState("Done")' = InState("Done") \cup {i}, Stored' = Stored
        PROVE  Promised
    BY <2>3 DEF Promise!VDNext, Promise!Verify, Stored
  <2>4. ASSUME NEW result \in {"ok", "stalled", "no_peers", "io_error"},
               outcome = "running", outcome' = result,
               result = "ok" => InState("Done") = Pieces,
               result = "stalled" => InState("Done") # Pieces,
               InState("Done")' = InState("Done"), Stored' = Stored
        PROVE  Promised
    BY <2>4 DEF Promise!VDNext, Promise!Return, Stored
  <2>5. CASE UNCHANGED vars
    BY <2>1, <2>5 DEF vars, pmVars, mainVars, diskVars, InState, Stored
  <2>6. CASE Exited
    BY <2>5, <2>6 DEF Exited
  <2>7. CASE \/ Load \/ Verified \/ AcquirePermit \/ SpawnTask \/ SpawnBreak \/ SpawnedAll
             \/ Sample \/ SaveCheckpoint \/ FinalSave \/ Reap \/ Shutdown
    BY <2>1, <2>7 DEF Load, Verified, AcquirePermit, SpawnTask, SpawnBreak, SpawnedAll,
       Sample, SaveCheckpoint, FinalSave, Reap, Shutdown, pmVars, diskVars, InState, Stored
  <2>8. CASE VerifyPiece
    <3>1. PICK i \in unverified : IF i \in disk THEN MarkDone(i, PieceLen(i)) ELSE UNCHANGED pmVars
      BY <2>8 DEF VerifyPiece
    <3>2. UNCHANGED <<outcome, disk, inflight>> /\ outcome = "running" /\ i \in Pieces
      BY <1>3, <2>0, <2>8 DEF VerifyPiece, diskVars, Inv, TypeOK
    <3>3. \/ InState("Done")' = InState("Done")
          \/ i \in disk /\ InState("Done")' = InState("Done") \cup {i}
      BY <2>0, <3>1, <3>2 DEF MarkDone, InState, pmVars
    <3> QED BY <2>1, <2>3, <3>2, <3>3 DEF Stored
  <2>9. CASE OpenFiles \/ Announce
    <3>1. UNCHANGED <<state, disk, inflight>> /\ main # "exited"
      BY <2>9 DEF OpenFiles, Announce, Goto, Return, pmVars, diskVars
    <3>2. outcome' = outcome \/ outcome' \in {"no_peers", "io_error"}
      BY <2>9 DEF OpenFiles, Announce, Return
    <3> QED BY <2>0, <2>1, <2>4, <3>1, <3>2 DEF InState, Stored
  <2>10. CASE Stall \/ RemoveCheckpoint
    <3>1. UNCHANGED <<state, done_count, disk, inflight>> /\ main # "exited"
      BY <2>10 DEF Stall, RemoveCheckpoint, Goto, Return, pmVars, diskVars
    <3>2. IsComplete <=> InState("Done") = Pieces
      BY <1>3, CompleteMeansDone DEF Inv, TypeOK, TableInv, InState
    <3>3. \/ outcome' = "ok" /\ IsComplete
          \/ outcome' = "stalled" /\ ~IsComplete
      <4>1. Phases'
        BY <1>3, PhasesKept DEF Inv
      <4> QED BY <2>10, <3>1, <4>1 DEF Stall, RemoveCheckpoint, Return, Phases, IsComplete
    <3> QED BY <2>0, <2>4, <3>1, <3>2, <3>3 DEF InState, Stored
  <2>11. ASSUME NEW p \in Peers, PeerStep(p) \/ ReceiveHave(p) PROVE Promised
    <3>1. outcome = "running" /\ outcome' = outcome
      <4>1. p \in Running /\ UNCHANGED mainVars
        BY <1>3, <2>11, PeerSteps DEF Running, Inv
      <4> QED BY <1>3, <2>0, <4>1 DEF mainVars, Inv, Phases
    <3>2. CASE Write(p)
      <4>1. claim[p] \in Pieces
        BY <1>3, <2>0, <3>2 DEF Write, Step, Inv, ExclusiveClaim
      <4>2. Stored' = Stored \cup {claim[p]} /\ state' = state
        BY <3>2 DEF Write, Stored, pmVars
      <4> QED BY <2>2, <3>1, <4>1, <4>2 DEF InState
    <3>3. CASE Mark(p)
      <4>1. claim[p] \in Stored \cap Pieces /\ UNCHANGED <<disk, inflight>>
        BY <1>3, <2>0, <3>3 DEF Mark, Step, Inv, ExclusiveClaim, StoreInv, diskVars
      <4>2. \/ InState("Done")' = InState("Done")
            \/ InState("Done")' = InState("Done") \cup {claim[p]}
        BY <2>0, <3>3, <4>1 DEF Mark, MarkDone, InState, pmVars
      <4> QED BY <2>1, <2>3, <3>1, <4>1, <4>2 DEF Stored
    <3>4. CASE Claim(p)
      <4>1. PICK bitfield, i : ClaimPiece(bitfield, i)
        BY <3>4 DEF Claim
      <4>2. InState("Done")' = InState("Done")
        BY <2>0, <4>1 DEF ClaimPiece, Claimable, InState
      <4> QED BY <2>1, <3>1, <3>4, <4>2 DEF Claim, diskVars, Stored
    <3>5. CASE GiveUp(p)
      <4>1. InState("Done")' = InState("Done")
        BY <2>0, <3>5 DEF GiveUp, ReturnPiece, InState, pmVars
      <4> QED BY <2>1, <3>1, <3>5, <4>1 DEF GiveUp, diskVars, Stored
    <3>6. CASE \/ Connected(p) \/ ConnectFailed(p) \/ ReceiveBitfield(p) \/ NoBitfield(p)
               \/ SendInterested(p) \/ NotInterested(p) \/ NothingToClaim(p) \/ Unchoked(p)
               \/ Fetched(p) \/ WriteFailed(p) \/ Panic(p) \/ ReceiveHave(p)
      <4>1. UNCHANGED <<state, disk, inflight>>
        BY <3>6 DEF Connected, ConnectFailed, ReceiveBitfield, NoBitfield, SendInterested,
           NotInterested, NothingToClaim, Unchoked, Fetched, WriteFailed, Panic, ReceiveHave,
           pmVars, diskVars
      <4> QED BY <2>1, <3>1, <4>1 DEF InState, Stored
    <3> QED BY <2>11, <3>2, <3>3, <3>4, <3>5, <3>6 DEF PeerStep
  <2>12. CASE Land \/ (\E p \in Peers : Hang(p))
    <3>1. Stored' = Stored /\ UNCHANGED <<state, outcome>>
      BY <2>12 DEF Land, Hang, diskVars, Stored, pmVars, mainVars
    <3> QED BY <2>1, <3>1 DEF InState
  <2>13. CASE Restart
    <3>1. InState("Done")' = {} /\ Stored' \in SUBSET Stored /\ outcome' = "running"
      BY <2>13 DEF Restart, InState, Stored
    <3> QED BY <3>1 DEF Promise!VDNext, Promise!Rerun, Stored
  <2> QED BY <1>3, <2>5, <2>6, <2>7, <2>8, <2>9, <2>10, <2>11, <2>12, <2>13 DEF Next, MainStep
<1>4. Inv /\ StoreInv /\ [Next]_vars => Promised
  BY <1>3
<1> QED BY <1>1, <1>2, <1>4, InvHolds, PTL DEF Spec, ImplementsPromise, Promise!VDSpec

-----------------------------------------------------------------------------
(* The checkpoint                                                          *)

\* The Done pieces the checkpoint names.
Saved == ckpt \cap InState("Done")

\* What is sampled for a save is Done and more than the last save, and until the run
\* has ended well the checkpoint names at least as many Done pieces as that save.
CheckpointInv ==
    /\ main = "load" => InState("Done") = {}
    /\ main \in {"load", "verify", "open", "announce"} =>
          /\ InState("Done") \subseteq ckpt
          /\ unverified \subseteq ckpt
    /\ main = "save" =>
          /\ sample.done \subseteq InState("Done")
          /\ last_saved < Cardinality(sample.done)
    /\ outcome # "ok" => last_saved <= Cardinality(Saved)
    /\ last_saved <= done_count

\* The checkpoint file changes only where download() saves or removes it.
LEMMA CheckpointSteps ==
    ASSUME [Next]_vars
    PROVE  UNCHANGED ckpt \/ SaveCheckpoint \/ FinalSave \/ RemoveCheckpoint
<1>1. CASE UNCHANGED vars
  BY <1>1 DEF vars
<1>2. CASE MainStep
  BY <1>2 DEF MainStep, Load, VerifyPiece, Verified, OpenFiles, Announce, AcquirePermit,
     SpawnTask, SpawnBreak, SpawnedAll, Sample, Stall, Reap, Shutdown
<1>3. ASSUME NEW p \in Peers, PeerStep(p) \/ ReceiveHave(p) PROVE UNCHANGED ckpt
  BY <1>3 DEF PeerStep, ReceiveHave, Connected, ConnectFailed, ReceiveBitfield, NoBitfield,
     SendInterested, NotInterested, Claim, NothingToClaim, Unchoked, Fetched, GiveUp,
     Write, WriteFailed, Panic, Mark
<1>4. CASE Land \/ (\E p \in Peers : Hang(p)) \/ Restart \/ Exited
  BY <1>4 DEF Land, Hang, Restart, Exited, vars
<1> QED BY <1>1, <1>2, <1>3, <1>4 DEF Next

\* What is saved stays saved while more pieces get done.
LEMMA MoreSaved ==
    ASSUME TableInv, TableInv', InState("Done") \subseteq InState("Done")', UNCHANGED ckpt
    PROVE  /\ Cardinality(Saved) <= Cardinality(Saved') /\ done_count <= done_count'
           /\ Cardinality(Saved) \in Nat /\ Cardinality(Saved') \in Nat
<1>1. /\ Saved \in SUBSET Saved' /\ InState("Done") \in SUBSET InState("Done")'
      /\ Saved' \in SUBSET Pieces /\ InState("Done")' \in SUBSET Pieces
  BY DEF Saved, InState
<1>2. /\ IsFiniteSet(Saved) /\ IsFiniteSet(Saved')
      /\ IsFiniteSet(InState("Done")) /\ IsFiniteSet(InState("Done")')
  BY <1>1, PieceSets
<1>3. /\ Cardinality(Saved) <= Cardinality(Saved')
      /\ Cardinality(InState("Done")) <= Cardinality(InState("Done")')
  BY <1>1, <1>2, FS_Subset
<1> QED BY <1>2, <1>3, FS_CardinalityType DEF TableInv, CountersExact

LEMMA CheckpointKept ==
    ASSUME Inv, CheckpointInv, [Next]_vars
    PROVE  CheckpointInv'
<1>0. /\ last_saved \in Nat /\ done_count \in Nat /\ main \in MainPC
      /\ sample \in [complete : BOOLEAN, done : SUBSET Pieces] /\ ckpt \subseteq Pieces
      /\ TableInv /\ state \in [Pieces -> PieceState]
      /\ main = "exited" <=> outcome # "running"
  BY PieceConstants DEF Inv, TypeOK, PMTypeOK, TableInv
<1>1. TableInv' /\ done_count' \in Nat
  BY <1>0, TableKept, PieceConstants DEF TableInv, PMTypeOK
<1>2. CASE Restart
  <2>1. InState("Done")' = {} /\ Saved' = {}
    BY <1>2 DEF Restart, InState, Saved
  <2>2. Cardinality(Saved') = 0
    BY <2>1, FS_EmptySet
  <2> QED BY <1>2, <2>1, <2>2 DEF Restart, CheckpointInv
<1>3. ASSUME ~Restart, UNCHANGED ckpt PROVE Cardinality(Saved) <= Cardinality(Saved')
                                            /\ done_count <= done_count'
                                            /\ Cardinality(Saved) \in Nat
                                            /\ Cardinality(Saved') \in Nat
  BY <1>0, <1>1, <1>3, DoneKept, MoreSaved
<1>4. ASSUME ~Restart, UNCHANGED <<main, outcome, unverified, sample, last_saved, ckpt>>,
             main \in {"load", "verify", "open", "announce"} => state' = state
      PROVE  CheckpointInv'
  <2>1. InState("Done") \subseteq InState("Done")'
    BY <1>0, <1>4, DoneKept
  <2> QED BY <1>0, <1>1, <1>3, <1>4, <2>1 DEF CheckpointInv, InState
<1>5. CASE UNCHANGED vars \/ Exited
  BY <1>0, <1>5 DEF Exited, vars, pmVars, mainVars, CheckpointInv, InState, Saved
<1>6. CASE Land \/ (\E p \in Peers : Hang(p))
  <2>1. ~Restart
    BY <1>6, DownloadConstants DEF Land, Hang, Restart, Inv, TypeOK, runVars
  <2> QED BY <1>4, <1>6, <2>1 DEF Land, Hang, pmVars, mainVars, runVars
<1>7. ASSUME NEW p \in Peers, PeerStep(p) \/ ReceiveHave(p) PROVE CheckpointInv'
  <2>1. UNCHANGED <<mainVars, ckpt, runVars>>
    BY <1>7 DEF PeerStep, ReceiveHave, Connected, ConnectFailed, ReceiveBitfield, NoBitfield,
       SendInterested, NotInterested, Claim, NothingToClaim, Unchoked, Fetched, GiveUp,
       Write, WriteFailed, Panic, Mark
  <2>2. ~Restart
    BY <2>1, DownloadConstants DEF Restart, Inv, TypeOK, runVars
  <2>3. main \notin {"load", "verify", "open", "announce"}
    BY <1>7, PeerSteps DEF Inv, Phases
  <2> QED BY <1>4, <2>1, <2>2, <2>3 DEF mainVars
<1>8. CASE Load
  <2>1. ckpt' = ckpt /\ state' = state /\ done_count' = done_count
    BY <1>8 DEF Load, pmVars
  <2> QED BY <1>0, <1>8, <2>1 DEF Load, Goto, CheckpointInv, InState, Saved
<1>9. CASE VerifyPiece
  <2>1. PICK i \in unverified : /\ unverified' = unverified \ {i}
                                /\ IF i \in disk THEN MarkDone(i, PieceLen(i)) ELSE UNCHANGED pmVars
    BY <1>9 DEF VerifyPiece
  <2>2. InState("Done")' \subseteq InState("Done") \cup {i}
    BY <1>0, <2>1 DEF MarkDone, InState, pmVars
  <2>3. ~Restart /\ main = "verify" /\ UNCHANGED <<main, outcome, last_saved, ckpt>>
    BY <1>9 DEF VerifyPiece, Restart
  <2> QED BY <1>0, <1>1, <1>3, <2>1, <2>2, <2>3 DEF CheckpointInv
<1>10. CASE Announce
  <2>1. /\ UNCHANGED <<state, done_count, ckpt>> /\ main = "announce" /\ main' \in {"acquire", "exited"}
        /\ last_saved' \in {last_saved, done_count} /\ outcome' \in {outcome, "no_peers"}
    BY <1>10 DEF Announce, Goto, Return, pmVars
  <2>2. Saved = InState("Done") /\ Saved' = Saved
    BY <2>1 DEF CheckpointInv, Saved, InState
  <2>3. done_count = Cardinality(Saved) /\ Cardinality(Saved') = Cardinality(Saved)
    BY <1>0, <2>2 DEF TableInv, CountersExact
  <2> QED BY <1>0, <2>1, <2>3 DEF CheckpointInv
<1>11. CASE Verified \/ OpenFiles \/ AcquirePermit \/ SpawnTask \/ SpawnBreak \/ SpawnedAll
  BY <1>0, <1>11 DEF Verified, OpenFiles, AcquirePermit, SpawnTask, SpawnBreak, SpawnedAll,
     Goto, Return, CheckpointInv, InState, Saved, pmVars
<1>12. CASE Sample
  <2>1. sample'.done = InState("Done") /\ UNCHANGED <<state, done_count, last_saved, outcome, ckpt>>
    BY <1>0, <1>12 DEF Sample, Needs, InState, pmVars
  <2>2. Cardinality(sample'.done) = done_count
    BY <1>0, <2>1 DEF TableInv, CountersExact
  <2>3. main' \in {"save", "decide"} /\ (main' = "save" => last_saved < done_count)
    BY <1>0, <1>12 DEF Sample, Goto
  <2> QED BY <1>0, <2>1, <2>2, <2>3 DEF CheckpointInv, InState, Saved
<1>13. CASE SaveCheckpoint
  <2>1. UNCHANGED <<state, done_count, outcome>> /\ main = "save" /\ main' = "decide"
    BY <1>13 DEF SaveCheckpoint, Goto, pmVars
  <2>2. CASE ckpt' = sample.done /\ last_saved' = Cardinality(sample.done)
    <3>1. sample.done \in SUBSET InState("Done") /\ Saved' = sample.done
      BY <2>1, <2>2 DEF CheckpointInv, Saved, InState
    <3>2. Cardinality(sample.done) <= Cardinality(InState("Done")) /\ Cardinality(sample.done) \in Nat
      <4>1. IsFiniteSet(InState("Done"))
        BY PieceSets DEF InState
      <4> QED BY <3>1, <4>1, FS_Subset, FS_CardinalityType
    <3>3. Cardinality(Saved') = Cardinality(sample.done)
      BY <3>1
    <3> QED BY <1>0, <2>1, <2>2, <3>2, <3>3 DEF CheckpointInv, TableInv, CountersExact
  <2>3. CASE UNCHANGED <<ckpt, last_saved>>
    BY <1>0, <2>1, <2>3 DEF CheckpointInv, Saved, InState
  <2> QED BY <1>13, <2>2, <2>3 DEF SaveCheckpoint
<1>14. CASE FinalSave
  <2>1. UNCHANGED <<state, done_count, outcome, last_saved>> /\ main' = "shutdown"
    BY <1>14 DEF FinalSave, Goto, pmVars
  <2>2. CASE UNCHANGED ckpt
    BY <1>0, <2>1, <2>2, <1>14 DEF FinalSave, Goto, CheckpointInv, Saved, InState
  <2>3. CASE ckpt' = {i \in Pieces : ~Needs(i)}
    <3>1. Saved' = InState("Done")
      BY <1>0, <2>1, <2>3 DEF Saved, InState, Needs
    <3>2. Cardinality(Saved') = done_count
      BY <1>0, <3>1 DEF TableInv, CountersExact
    <3> QED BY <1>0, <2>1, <3>2 DEF CheckpointInv
  <2> QED BY <1>14, <2>2, <2>3 DEF FinalSave
<1>15. CASE Stall \/ Reap \/ Shutdown
  BY <1>0, <1>15 DEF Stall, Reap, Shutdown, Goto, Return, CheckpointInv, InState, Saved, pmVars
<1>16. CASE RemoveCheckpoint
  BY <1>0, <1>16 DEF RemoveCheckpoint, Goto, Return, CheckpointInv, InState, pmVars
<1> QED BY <1>2, <1>5, <1>6, <1>7, <1>8, <1>9, <1>10, <1>11, <1>12, <1>13, <1>14, <1>15, <1>16
        DEF Next, MainStep

LEMMA CheckpointInvHolds == Spec => []CheckpointInv
<1>1. Init => CheckpointInv
  <2> SUFFICES ASSUME Init PROVE CheckpointInv
    OBVIOUS
  <2>1. InState("Done") = {} /\ Saved = {}
    BY DEF Init, PMInit, InState, Saved
  <2>2. Cardinality(Saved) = 0
    BY <2>1, FS_EmptySet
  <2> QED BY <2>1, <2>2 DEF Init, PMInit, CheckpointInv
<1>2. Inv /\ CheckpointInv /\ [Next]_vars => CheckpointInv'
  BY CheckpointKept
<1> QED BY <1>1, <1>2, InvHolds, PTL DEF Spec

\* Once no task is left, what was sampled is all there is, and unless the save failed
\* last_saved counts all of it.
NothingUnsaved ==
    /\ main = "save" /\ joined = {} => Cardinality(sample.done) = done_count
    /\ main = "decide" /\ joined = {} /\ ~save_failed => last_saved = done_count
    /\ outcome = "stalled" /\ ~save_failed => last_saved = done_count

LEMMA NothingUnsavedKept ==
    ASSUME Inv, CheckpointInv, NothingUnsaved, [Next]_vars
    PROVE  NothingUnsaved'
<1>0. /\ last_saved \in Nat /\ done_count \in Nat /\ state \in [Pieces -> PieceState]
      /\ main = "exited" <=> outcome # "running"
  BY PieceConstants DEF Inv, TypeOK, PMTypeOK
<1>1. ASSUME UNCHANGED <<main, outcome, joined, sample, last_saved, save_failed, done_count>>
      PROVE  NothingUnsaved'
  BY <1>1 DEF NothingUnsaved
<1>2. CASE UNCHANGED vars \/ Exited \/ Land \/ (\E p \in Peers : Hang(p))
  BY <1>1, <1>2 DEF vars, Exited, Land, Hang, pmVars, mainVars, runVars
<1>3. CASE \/ Load \/ VerifyPiece \/ Verified \/ OpenFiles \/ Announce \/ AcquirePermit
           \/ SpawnTask \/ SpawnBreak \/ SpawnedAll \/ FinalSave \/ Reap \/ Shutdown
           \/ RemoveCheckpoint
  <2>1. main # "exited" /\ main' \notin {"save", "decide"}
    BY <1>3 DEF Load, VerifyPiece, Verified, OpenFiles, Announce, AcquirePermit, SpawnTask,
       SpawnBreak, SpawnedAll, FinalSave, Reap, Shutdown, RemoveCheckpoint, Goto, Return
  <2>2. outcome' = outcome \/ outcome' \in {"io_error", "no_peers", "ok"}
    BY <1>3 DEF Load, VerifyPiece, Verified, OpenFiles, Announce, AcquirePermit, SpawnTask,
       SpawnBreak, SpawnedAll, FinalSave, Reap, Shutdown, RemoveCheckpoint, Return
  <2> QED BY <1>0, <2>1, <2>2 DEF NothingUnsaved
<1>4. CASE Sample
  <2>1. sample'.done = InState("Done") /\ UNCHANGED <<done_count, last_saved, outcome>>
    BY <1>0, <1>4 DEF Sample, Needs, InState, pmVars
  <2>2. Cardinality(sample'.done) = done_count
    BY <2>1 DEF Inv, CountersExact
  <2>3. outcome # "stalled" /\ (main' = "decide" => last_saved = done_count)
    BY <1>0, <1>4 DEF Sample, Goto, CheckpointInv
  <2> QED BY <2>1, <2>2, <2>3 DEF NothingUnsaved
<1>5. CASE SaveCheckpoint
  <2>1. /\ main = "save" /\ main' = "decide" /\ outcome' # "stalled"
        /\ UNCHANGED <<joined, done_count>>
    BY <1>0, <1>5 DEF SaveCheckpoint, Goto, pmVars
  <2>2. save_failed' \/ last_saved' = Cardinality(sample.done)
    BY <1>5 DEF SaveCheckpoint
  <2> QED BY <2>1, <2>2 DEF NothingUnsaved
<1>6. CASE Stall
  BY <1>6 DEF Stall, Return, Goto, NothingUnsaved, pmVars, runVars
<1>7. ASSUME NEW p \in Peers, PeerStep(p) \/ ReceiveHave(p) PROVE NothingUnsaved'
  <2>1. UNCHANGED mainVars /\ p \in Running
    BY <1>7, PeerSteps DEF Inv, Running
  <2>2. joined' # {} /\ outcome' # "stalled"
    BY <1>0, <2>1 DEF Inv, Phases, mainVars
  <2> QED BY <2>2 DEF NothingUnsaved
<1>8. CASE Restart
  BY <1>8 DEF Restart, NothingUnsaved
<1> QED BY <1>2, <1>3, <1>4, <1>5, <1>6, <1>7, <1>8 DEF Next, MainStep

\* A run that stalls leaves every piece it finished in the checkpoint, unless its last
\* save failed.
THEOREM StalledRunsKeepProgress == Spec => []StalledKeepsProgress
<1>1. Init => NothingUnsaved
  BY DEF Init, NothingUnsaved
<1>2. Inv /\ CheckpointInv /\ NothingUnsaved /\ [Next]_vars => NothingUnsaved'
  BY NothingUnsavedKept
<1>3. Inv /\ CheckpointInv /\ NothingUnsaved => StalledKeepsProgress
  <2> SUFFICES ASSUME Inv, CheckpointInv, NothingUnsaved, outcome = "stalled", ~save_failed
               PROVE  InState("Done") \subseteq ckpt
    BY DEF StalledKeepsProgress
  <2>1. Saved \in SUBSET InState("Done") /\ IsFiniteSet(InState("Done"))
    BY PieceSets DEF Saved, InState
  <2>2. Cardinality(Saved) <= Cardinality(InState("Done")) /\ Cardinality(Saved) \in Nat
    BY <2>1, FS_Subset, FS_CardinalityType
  <2>3. last_saved <= Cardinality(Saved) /\ last_saved = Cardinality(InState("Done"))
    BY DEF CheckpointInv, NothingUnsaved, Inv, CountersExact
  <2>4. Saved = InState("Done")
    BY <2>1, <2>2, <2>3, FS_Subset, FS_CardinalityType
  <2> QED BY <2>4 DEF Saved
<1> QED BY <1>1, <1>2, <1>3, InvHolds, CheckpointInvHolds, PTL DEF Spec

\* Whatever happens between the sampling of a checkpoint and its save, what is saved
\* is Done and no less than before; only a complete run removes it.
THEOREM CheckpointsHonest == Spec => CheckpointHonest
<1> DEFINE Honest ==
      ckpt' # ckpt =>
          \/ ckpt' # {} /\ ckpt' \subseteq InState("Done") /\ Cardinality(ckpt') >= last_saved
          \/ ckpt' = {} /\ IsComplete
<1>1. Inv /\ CheckpointInv /\ [Next]_vars => [Honest]_vars
  <2> SUFFICES ASSUME Inv, CheckpointInv, [Next]_vars, ckpt' # ckpt PROVE Honest
    OBVIOUS
  <2>0. last_saved \in Nat /\ sample.done \subseteq Pieces /\ state \in [Pieces -> PieceState]
    BY PieceConstants DEF Inv, TypeOK, PMTypeOK
  <2>1. CASE SaveCheckpoint
    <3>1. /\ ckpt' = sample.done /\ sample.done \subseteq InState("Done")
          /\ last_saved < Cardinality(sample.done) /\ Cardinality(sample.done) \in Nat
      BY <2>0, <2>1, PieceSets DEF SaveCheckpoint, Goto, CheckpointInv
    <3>2. ckpt' # {}
      BY <2>0, <3>1, FS_EmptySet
    <3> QED BY <2>0, <3>1, <3>2
  <2>2. CASE FinalSave
    <3>1. ckpt' = InState("Done") /\ IsComplete
      BY <2>0, <2>2 DEF FinalSave, Goto, Needs, InState, Inv, Phases
    <3>2. Cardinality(ckpt') = done_count /\ last_saved <= done_count /\ done_count \in Nat
      BY <3>1, PieceConstants DEF CheckpointInv, Inv, CountersExact, TypeOK, PMTypeOK
    <3> QED BY <2>0, <3>1, <3>2
  <2>3. CASE RemoveCheckpoint
    BY <2>3 DEF RemoveCheckpoint, Return, Goto, Inv, Phases
  <2> QED BY <2>1, <2>2, <2>3, CheckpointSteps
<1> QED BY <1>1, InvHolds, CheckpointInvHolds, PTL DEF Spec, CheckpointHonest
=============================================================================
