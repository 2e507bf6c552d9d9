------------------------------ MODULE Download ------------------------------
(***************************************************************************)
(* One call of download() (src/src/download.rs), with the run_peer() tasks *)
(* it spawns, the piece table they share, the semaphore and the JoinSet    *)
(* that bound and collect them, the checkpoint file and the data on disk.  *)
(* An action is the code between two awaits at which other tasks can run;  *)
(* a section under the piece-table lock is one action.                     *)
(*                                                                         *)
(* Peers are the environment: what they send is a choice of the actions.   *)
(* The exception is a constant: Healthy peers announce every piece, let us *)
(* download, send good data and take what we send.  A task may hang for    *)
(* ever through any other peer, for not every await has a timeout: Hang.   *)
(***************************************************************************)
EXTENDS PieceManager

CONSTANTS
    Peers, Healthy,
    MaxPeers,       \* config.max_peers
    NoPiece,        \* `claim` of a task that holds no piece
    Faults,         \* which of FaultKinds may happen
    MaxRestarts     \* bound: how often the program is killed or run again

FaultKinds ==
    {"write",       \* write_piece returns an error
     "late_write",  \* the background write fails after write_piece returned Ok
     "io",          \* creating directories, saving or removing the checkpoint fails
     "panic",       \* a PIECE that begins past the end of its piece panics the task
     "hang",        \* a task waits for ever in its handshake, for a BITFIELD or a send
     "tamper"}      \* files are altered or deleted while the program is not running

ASSUME DownloadConstants ==
    /\ Healthy \subseteq Peers
    /\ IsFiniteSet(Peers)
    /\ MaxPeers \in Nat \ {0}
    /\ NoPiece \notin Nat
    /\ Faults \subseteq FaultKinds
    /\ MaxRestarts \in Nat

VARIABLES
    main,           \* where download() is
    outcome,        \* "running", or how it returned
    unverified,     \* resume: checkpointed pieces still to be verified
    queue,          \* peers still to be spawned
    permits,        \* semaphore permits left
    joined,         \* tasks in the JoinSet: spawned and not yet reaped
    sample,         \* what the progress loop read under the lock
    last_saved,     \* last_saved_pieces
    pc, has, choked, claim,     \* per task: position, peer_bitfield, choked, piece_idx
    disk,           \* pieces whose correct bytes are in the files
    inflight,       \* pieces handed to the blocking pool, not yet in the files
    ckpt,           \* pieces_done of the checkpoint file; {} also if there is none
    hung,           \* tasks that wait for something that never comes
    save_failed,    \* history: the last save of the progress loop failed
    restarts

mainVars == <<main, outcome, unverified, queue, joined, sample, last_saved>>
taskVars == <<pc, has, choked, claim>>
diskVars == <<disk, inflight>>
runVars == <<hung, save_failed, restarts>>
vars == <<pmVars, mainVars, permits, taskVars, diskVars, ckpt, runVars>>

NoSample == [complete |-> FALSE, done |-> {}]

Init ==
    /\ PMInit
    /\ main = "load" /\ outcome = "running"
    /\ unverified = {} /\ queue = {} /\ joined = {}
    /\ sample = NoSample /\ last_saved = 0
    /\ permits = MaxPeers
    /\ pc = [p \in Peers |-> "idle"]
    /\ has = [p \in Peers |-> {}]
    /\ choked = [p \in Peers |-> TRUE]
    /\ claim = [p \in Peers |-> NoPiece]
    /\ disk = {} /\ inflight = {} /\ ckpt = {}
    /\ hung = {} /\ save_failed = FALSE /\ restarts = 0

-----------------------------------------------------------------------------
(* download() up to the first peer task                                    *)

Goto(from, to) == main = from /\ main' = to

Return(from, result) ==
    /\ Goto(from, "exited")
    /\ outcome' = result

\* ResumeState::load
Load ==
    /\ Goto("load", "verify")
    /\ unverified' = ckpt
    /\ UNCHANGED <<pmVars, outcome, queue, joined, sample, last_saved,
                   permits, taskVars, diskVars, ckpt, runVars>>

\* Mutant of VerifyPiece: the checkpoint is believed.
VerifyPieceUnread ==
    /\ main = "verify"
    /\ \E i \in unverified :
          /\ unverified' = unverified \ {i}
          /\ MarkDone(i, PieceLen(i))
    /\ UNCHANGED <<main, outcome, queue, joined, sample, last_saved,
                   permits, taskVars, diskVars, ckpt, runVars>>

\* One turn of verify_and_resume: the hash of the bytes on disk decides.
VerifyPiece ==
    /\ main = "verify"
    /\ \E i \in unverified :
          /\ unverified' = unverified \ {i}
          /\ IF i \in disk THEN MarkDone(i, PieceLen(i)) ELSE UNCHANGED pmVars
    /\ UNCHANGED <<main, outcome, queue, joined, sample, last_saved,
                   permits, taskVars, diskVars, ckpt, runVars>>

Verified ==
    /\ Goto("verify", "open")
    /\ unverified = {}
    /\ UNCHANGED <<pmVars, outcome, unverified, queue, joined, sample, last_saved,
                   permits, taskVars, diskVars, ckpt, runVars>>

\* FileWriter::new
OpenFiles ==
    /\ \/ Goto("open", "announce") /\ UNCHANGED outcome
       \/ "io" \in Faults /\ Return("open", "io_error")
    /\ UNCHANGED <<pmVars, unverified, queue, joined, sample, last_saved,
                   permits, taskVars, diskVars, ckpt, runVars>>

\* announce_all, and take(max_peers * 3) of the sorted peers it found; no peers is
\* an error, also when the resumed pieces are already complete.
Announce ==
    /\ \E found \in SUBSET Peers :
          /\ Cardinality(found) <= 3 * MaxPeers
          /\ queue' = found
          /\ IF found = {}
             THEN Return("announce", "no_peers") /\ UNCHANGED last_saved
             ELSE /\ Goto("announce", "acquire")
                  /\ last_saved' = done_count
                  /\ UNCHANGED outcome
    /\ UNCHANGED <<pmVars, unverified, joined, sample,
                   permits, taskVars, diskVars, ckpt, runVars>>

-----------------------------------------------------------------------------
(* The spawn loop                                                          *)

\* acquire_owned().await: the loop waits here while every permit is taken.
AcquirePermit ==
    /\ Goto("acquire", "spawn")
    /\ queue # {}
    /\ permits > 0
    /\ permits' = permits - 1
    /\ UNCHANGED <<pmVars, outcome, unverified, queue, joined, sample, last_saved,
                   taskVars, diskVars, ckpt, runVars>>

SpawnTask ==
    /\ Goto("spawn", "acquire")
    /\ ~IsComplete
    /\ \E p \in queue :
          /\ queue' = queue \ {p}
          /\ joined' = joined \cup {p}
          /\ pc' = [pc EXCEPT ![p] = "connect"]
    /\ UNCHANGED <<pmVars, outcome, unverified, sample, last_saved, permits,
                   has, choked, claim, diskVars, ckpt, runVars>>

\* Mutants of SpawnBreak: the permit is never dropped, or dropped twice.
SpawnBreakLeak ==
    /\ Goto("spawn", "sleep")
    /\ IsComplete
    /\ UNCHANGED <<pmVars, outcome, unverified, queue, joined, sample, last_saved,
                   permits, taskVars, diskVars, ckpt, runVars>>

SpawnBreakTwice ==
    /\ Goto("spawn", "sleep")
    /\ IsComplete
    /\ permits' = permits + 2
    /\ UNCHANGED <<pmVars, outcome, unverified, queue, joined, sample, last_saved,
                   taskVars, diskVars, ckpt, runVars>>

\* Already complete: the loop breaks and the permit it acquired is dropped.
SpawnBreak ==
    /\ Goto("spawn", "sleep")
    /\ IsComplete
    /\ permits' = permits + 1
    /\ UNCHANGED <<pmVars, outcome, unverified, queue, joined, sample, last_saved,
                   taskVars, diskVars, ckpt, runVars>>

SpawnedAll ==
    /\ Goto("acquire", "sleep")
    /\ queue = {}
    /\ UNCHANGED <<pmVars, outcome, unverified, queue, joined, sample, last_saved,
                   permits, taskVars, diskVars, ckpt, runVars>>

\* The tasks that hold a permit.
Running == {p \in Peers : pc[p] \notin {"idle", "ended"}}

-----------------------------------------------------------------------------
(* The progress loop                                                       *)

\* After the sleep: `complete` and the checkpoint are read under one lock.
Sample ==
    /\ Goto("sleep", IF done_count > last_saved THEN "save" ELSE "decide")
    /\ sample' = [complete |-> IsComplete, done |-> {i \in Pieces : ~Needs(i)}]
    /\ UNCHANGED <<pmVars, outcome, unverified, queue, joined, last_saved,
                   permits, taskVars, diskVars, ckpt, runVars>>

\* Mutant of SaveCheckpoint: what was saved is counted after the save.
SaveCheckpointMiscounted ==
    /\ Goto("save", "decide")
    /\ \/ ckpt' = sample.done /\ last_saved' = done_count /\ save_failed' = FALSE
       \/ "io" \in Faults /\ save_failed' = TRUE /\ UNCHANGED <<ckpt, last_saved>>
    /\ UNCHANGED <<pmVars, outcome, unverified, queue, joined, sample,
                   permits, taskVars, diskVars, hung, restarts>>

\* save() of the sampled checkpoint; an error is logged and tried again next time.
SaveCheckpoint ==
    /\ Goto("save", "decide")
    /\ \/ /\ ckpt' = sample.done
          /\ last_saved' = Cardinality(sample.done)
          /\ save_failed' = FALSE
       \/ "io" \in Faults /\ save_failed' = TRUE /\ UNCHANGED <<ckpt, last_saved>>
    /\ UNCHANGED <<pmVars, outcome, unverified, queue, joined, sample,
                   permits, taskVars, diskVars, hung, restarts>>

\* Complete: the state is read and saved once more, its error ignored.
FinalSave ==
    /\ Goto("decide", "shutdown")
    /\ sample.complete
    /\ \/ ckpt' = {i \in Pieces : ~Needs(i)}
       \/ "io" \in Faults /\ UNCHANGED ckpt
    /\ UNCHANGED <<pmVars, outcome, unverified, queue, joined, sample, last_saved,
                   permits, taskVars, diskVars, runVars>>

\* Mutant of Stall: no task is active now, whatever was sampled before.
StallWhenInactive ==
    /\ Return("decide", "stalled")
    /\ ~sample.complete /\ Running = {}
    /\ UNCHANGED <<pmVars, unverified, queue, joined, sample, last_saved,
                   permits, taskVars, diskVars, ckpt, runVars>>

\* The JoinSet was already empty after the reaping of the turn before.
Stall ==
    /\ Return("decide", "stalled")
    /\ ~sample.complete /\ joined = {}
    /\ UNCHANGED <<pmVars, unverified, queue, joined, sample, last_saved,
                   permits, taskVars, diskVars, ckpt, runVars>>

\* Mutant of Reap: the JoinSet is never drained.
ReapNothing ==
    /\ Goto("decide", "sleep")
    /\ ~sample.complete /\ joined # {}
    /\ sample' = NoSample
    /\ UNCHANGED <<pmVars, outcome, unverified, queue, joined, last_saved,
                   permits, taskVars, diskVars, ckpt, runVars>>

Reap ==
    /\ Goto("decide", "sleep")
    /\ ~sample.complete /\ joined # {}
    /\ joined' = {p \in joined : pc[p] # "ended"}
    /\ sample' = NoSample
    /\ UNCHANGED <<pmVars, outcome, unverified, queue, last_saved,
                   permits, taskVars, diskVars, ckpt, runVars>>

\* join_set.shutdown(): every task still running is aborted where it awaits.
Shutdown ==
    /\ Goto("shutdown", "remove")
    /\ pc' = [p \in Peers |-> IF p \in Running THEN "ended" ELSE pc[p]]
    /\ has' = [p \in Peers |-> {}]
    /\ choked' = [p \in Peers |-> TRUE]
    /\ claim' = [p \in Peers |-> NoPiece]
    /\ permits' = permits + Cardinality(Running)
    /\ joined' = {} /\ hung' = {}
    /\ UNCHANGED <<pmVars, outcome, unverified, queue, sample, last_saved,
                   diskVars, ckpt, save_failed, restarts>>

\* After the completed announce and the seeding: the checkpoint goes.
RemoveCheckpoint ==
    /\ Return("remove", "ok")
    /\ \/ ckpt' = {}
       \/ "io" \in Faults /\ UNCHANGED ckpt
    /\ UNCHANGED <<pmVars, unverified, queue, joined, sample, last_saved,
                   permits, taskVars, diskVars, runVars>>

-----------------------------------------------------------------------------
(* run_peer(): the task of peer p                                          *)

\* Mutant of End: the permit stays with a task that returned.
EndKeepingPermit(p) ==
    /\ pc' = [pc EXCEPT ![p] = "ended"]
    /\ has' = [has EXCEPT ![p] = {}]
    /\ choked' = [choked EXCEPT ![p] = TRUE]
    /\ claim' = [claim EXCEPT ![p] = NoPiece]
    /\ UNCHANGED permits

\* The task returns: its locals and its permit are dropped, its JoinSet entry stays.
End(p) ==
    /\ pc' = [pc EXCEPT ![p] = "ended"]
    /\ has' = [has EXCEPT ![p] = {}]
    /\ choked' = [choked EXCEPT ![p] = TRUE]
    /\ claim' = [claim EXCEPT ![p] = NoPiece]
    /\ permits' = permits + 1

Step(p, from, to) == pc[p] = from /\ pc' = [pc EXCEPT ![p] = to]

\* TCP connection, MSE or plain, and handshake.
Connected(p) ==
    /\ Step(p, "connect", "bitfield")
    /\ UNCHANGED <<pmVars, mainVars, permits, has, choked, claim, diskVars, ckpt, runVars>>

ConnectFailed(p) ==
    /\ pc[p] = "connect" /\ p \notin Healthy
    /\ End(p)
    /\ UNCHANGED <<pmVars, mainVars, diskVars, ckpt, runVars>>

\* A BITFIELD replaces what HAVE messages said before it.
ReceiveBitfield(p) ==
    /\ Step(p, "bitfield", "check")
    /\ \E bitfield \in Bitfields :
          /\ p \in Healthy => bitfield = Pieces
          /\ has' = [has EXCEPT ![p] = bitfield]
    /\ UNCHANGED <<pmVars, mainVars, permits, choked, claim, diskVars, ckpt, runVars>>

\* Timeout, end of stream or another message: go on with what HAVE said.
NoBitfield(p) ==
    /\ Step(p, "bitfield", "check") /\ p \notin Healthy
    /\ UNCHANGED <<pmVars, mainVars, permits, has, choked, claim, diskVars, ckpt, runVars>>

ReceiveHave(p) ==
    /\ pc[p] \in {"bitfield", "wait", "fetch"} /\ p \notin hung
    /\ \E i \in Pieces \ has[p] : has' = [has EXCEPT ![p] = @ \cup {i}]
    /\ UNCHANGED <<pmVars, mainVars, permits, pc, choked, claim, diskVars, ckpt, runVars>>

Useful(p) == \E i \in has[p] : Needs(i)

SendInterested(p) ==
    /\ Step(p, "check", "claim")
    /\ Useful(p)
    /\ UNCHANGED <<pmVars, mainVars, permits, has, choked, claim, diskVars, ckpt, runVars>>

\* The peer has nothing we need, or INTERESTED cannot be sent.
NotInterested(p) ==
    /\ pc[p] = "check"
    /\ ~Useful(p) \/ p \notin Healthy
    /\ End(p)
    /\ UNCHANGED <<pmVars, mainVars, diskVars, ckpt, runVars>>

Claim(p) ==
    /\ Step(p, "claim", IF choked[p] THEN "wait" ELSE "fetch")
    /\ ~IsComplete
    /\ \E i \in Pieces :
          /\ ClaimPiece(has[p], i)
          /\ claim' = [claim EXCEPT ![p] = i]
    /\ UNCHANGED <<mainVars, permits, has, choked, diskVars, ckpt, runVars>>

\* All done, or nothing this peer has is unclaimed: the task leaves.
NothingToClaim(p) ==
    /\ pc[p] = "claim"
    /\ IsComplete \/ Claimable(has[p]) = {}
    /\ End(p)
    /\ UNCHANGED <<pmVars, mainVars, diskVars, ckpt, runVars>>

Unchoked(p) ==
    /\ Step(p, "wait", "fetch")
    /\ choked' = [choked EXCEPT ![p] = FALSE]
    /\ UNCHANGED <<pmVars, mainVars, permits, has, claim, diskVars, ckpt, runVars>>

\* Mutant of Fetched: the piece is marked done first and written afterwards.
FetchedMarkFirst(p) ==
    /\ Step(p, "fetch", "mark")
    /\ UNCHANGED <<pmVars, mainVars, permits, has, choked, claim, diskVars, ckpt, runVars>>

\* download_piece returned data and its SHA-1 is the expected one.
Fetched(p) ==
    /\ Step(p, "fetch", "write")
    /\ UNCHANGED <<pmVars, mainVars, permits, has, choked, claim, diskVars, ckpt, runVars>>

\* Mutant of GiveUp: the claim is forgotten.
GiveUpKeepingClaim(p) ==
    /\ pc[p] \in {"wait", "fetch"} /\ p \notin Healthy
    /\ End(p)
    /\ UNCHANGED <<pmVars, mainVars, diskVars, ckpt, runVars>>

\* Every other end of the wait and of download_piece: timeout, end of stream,
\* I/O error, CHOKE in mid-piece, wrong hash.
GiveUp(p) ==
    /\ pc[p] \in {"wait", "fetch"} /\ p \notin Healthy
    /\ ReturnPiece(claim[p])
    /\ End(p)
    /\ UNCHANGED <<mainVars, diskVars, ckpt, runVars>>

\* slice index out of range: the task unwinds, its permit is dropped and the JoinSet
\* reaps it like any other, but nobody calls return_piece.  It takes a piece whose
\* length is no multiple of the block size; DownloadPiece has the details.
Panic(p) ==
    /\ pc[p] = "fetch" /\ p \notin Healthy /\ "panic" \in Faults
    /\ End(p)
    /\ UNCHANGED <<pmVars, mainVars, diskVars, ckpt, runVars>>

\* write_piece returns once the last bytes are with the blocking pool.
Write(p) ==
    /\ Step(p, "write", "mark")
    /\ inflight' = inflight \cup {claim[p]}
    /\ UNCHANGED <<pmVars, mainVars, permits, has, choked, claim, disk, ckpt, runVars>>

\* write_piece(...).await? leaves the task without return_piece.
WriteFailed(p) ==
    /\ pc[p] = "write" /\ "write" \in Faults
    /\ End(p)
    /\ UNCHANGED <<pmVars, mainVars, diskVars, ckpt, runVars>>

\* Mutant of Mark: the task leaves after its first piece.
MarkAndLeave(p) ==
    /\ pc[p] = "mark"
    /\ MarkDone(claim[p], PieceLen(claim[p]))
    /\ End(p)
    /\ UNCHANGED <<mainVars, diskVars, ckpt, runVars>>

Mark(p) ==
    /\ Step(p, "mark", "claim")
    /\ MarkDone(claim[p], PieceLen(claim[p]))
    /\ claim' = [claim EXCEPT ![p] = NoPiece]
    /\ UNCHANGED <<mainVars, permits, has, choked, diskVars, ckpt, runVars>>

\* What may never end.  The handshakes have no timeout; neither has a send, which
\* waits for a socket that stays full, or for a waker that poll_write of MseStream did
\* not register; and a peer that keeps sending KEEPALIVE or HAVE starts the timeouts of
\* the bitfield loop and of download_piece anew each time.  (The wait for UNCHOKE has
\* a deadline of its own.)  The task keeps its permit and its piece.
Hang(p) ==
    /\ pc[p] \in {"connect", "bitfield", "check", "fetch"} /\ p \notin Healthy \cup hung
    /\ "hang" \in Faults
    /\ hung' = hung \cup {p}
    /\ UNCHANGED <<pmVars, mainVars, permits, taskVars, diskVars, ckpt, save_failed, restarts>>

-----------------------------------------------------------------------------
(* The blocking pool, and the process as a whole                           *)

Land ==
    /\ \E i \in inflight :
          /\ inflight' = inflight \ {i}
          /\ \/ disk' = disk \cup {i}
             \/ "late_write" \in Faults /\ UNCHANGED disk
    /\ UNCHANGED <<pmVars, mainVars, permits, taskVars, ckpt, runVars>>

\* Ctrl-C, a crash, or a run that ended; then the same command once more.  Writes
\* still in flight may or may not have reached the files.
Restart ==
    /\ restarts < MaxRestarts
    /\ restarts' = restarts + 1
    /\ state' = [i \in Pieces |-> "Needed"]
    /\ downloaded' = 0 /\ done_count' = 0 /\ needed_count' = PieceCount
    /\ main' = "load" /\ outcome' = "running"
    /\ unverified' = {} /\ queue' = {} /\ joined' = {}
    /\ sample' = NoSample /\ last_saved' = 0
    /\ permits' = MaxPeers
    /\ pc' = [p \in Peers |-> "idle"]
    /\ has' = [p \in Peers |-> {}]
    /\ choked' = [p \in Peers |-> TRUE]
    /\ claim' = [p \in Peers |-> NoPiece]
    /\ inflight' = {} /\ hung' = {} /\ save_failed' = FALSE
    /\ disk' \in SUBSET (disk \cup inflight)
    /\ "tamper" \in Faults \/ disk \subseteq disk'
    /\ UNCHANGED ckpt

Exited == main = "exited" /\ UNCHANGED vars

MainStep ==
    \/ Load \/ VerifyPiece \/ Verified \/ OpenFiles \/ Announce
    \/ AcquirePermit \/ SpawnTask \/ SpawnBreak \/ SpawnedAll
    \/ Sample \/ SaveCheckpoint \/ FinalSave \/ Stall \/ Reap
    \/ Shutdown \/ RemoveCheckpoint

PeerStep(p) ==
    /\ p \notin hung
    /\ \/ Connected(p) \/ ConnectFailed(p) \/ ReceiveBitfield(p) \/ NoBitfield(p)
       \/ SendInterested(p) \/ NotInterested(p) \/ Claim(p) \/ NothingToClaim(p)
       \/ Unchoked(p) \/ Fetched(p) \/ GiveUp(p) \/ Panic(p)
       \/ Write(p) \/ WriteFailed(p) \/ Mark(p)

Next ==
    \/ MainStep
    \/ \E p \in Peers : PeerStep(p) \/ ReceiveHave(p) \/ Hang(p)
    \/ Land
    \/ Restart
    \/ Exited

Spec == Init /\ [][Next]_vars

\* tokio runs every task that can run, and whatever can keep a task from ever going on
\* is a choice of Hang; the file system and the blocking pool answer in the end.
FairSpec ==
    /\ Spec
    /\ WF_vars(MainStep)
    /\ \A p \in Peers : WF_vars(PeerStep(p))
    /\ WF_vars(Land)

-----------------------------------------------------------------------------
(* Properties                                                              *)

MainPC ==
    {"load", "verify", "open", "announce", "acquire", "spawn", "sleep", "save",
     "decide", "shutdown", "remove", "exited"}

PeerPC ==
    {"idle", "connect", "bitfield", "check", "claim", "wait", "fetch", "write",
     "mark", "ended"}

\* Every variable has its shape; an exited program has an outcome.
TypeOK ==
    /\ PMTypeOK
    /\ main \in MainPC
    /\ outcome \in {"running", "ok", "stalled", "no_peers", "io_error"}
    /\ main = "exited" <=> outcome # "running"
    /\ unverified \subseteq Pieces
    /\ queue \subseteq Peers /\ joined \subseteq Peers
    /\ sample \in [complete : BOOLEAN, done : SUBSET Pieces]
    /\ last_saved \in 0 .. PieceCount
    /\ permits \in 0 .. MaxPeers
    /\ pc \in [Peers -> PeerPC]
    /\ has \in [Peers -> SUBSET Pieces]
    /\ choked \in [Peers -> BOOLEAN]
    /\ claim \in [Peers -> Pieces \cup {NoPiece}]
    /\ disk \subseteq Pieces /\ inflight \subseteq Pieces /\ ckpt \subseteq Pieces
    /\ hung \subseteq Peers \ Healthy
    /\ save_failed \in BOOLEAN
    /\ restarts \in 0 .. MaxRestarts

\* A piece is downloaded by at most one task, and while a task works on a piece
\* the table says Claimed: nobody else finishes, returns or re-claims it.
ExclusiveClaim ==
    /\ \A p \in Peers :
          /\ claim[p] # NoPiece <=> pc[p] \in {"wait", "fetch", "write", "mark"}
          /\ claim[p] # NoPiece => state[claim[p]] = "Claimed"
    /\ \A p, q \in Peers : p # q /\ claim[p] # NoPiece => claim[p] # claim[q]

\* Claimed pieces nobody works on.
Lost == {i \in InState("Claimed") : \A p \in Peers : claim[p] # i}

\* "If a peer task fails it *must* call return_piece so the piece can be
\* re-claimed by another peer" (piece_manager.rs:6): no piece stays Claimed
\* once no task works on it.
ClaimReturned == Lost = {}

\* A step that changes Lost: a task's write fails or it panics, or all starts anew.
LosesByFailure ==
    Lost' # Lost =>
        \/ \E p \in Peers : (WriteFailed(p) \/ Panic(p)) /\ Lost' = Lost \cup {claim[p]}
        \/ Restart

\* Where the code keeps that rule and where not.  No timeout, CHOKE, wrong hash, end of
\* stream or abort loses a claim, in whatever order tasks claim, end and are reaped:
\* only a failed write and a panic do, each the piece of its own task and no other,
\* and a lost piece is lost until the program is run again.
ClaimLostOnlyByFailure == [][LosesByFailure]_vars

\* Every permit is free, held by a running task or held by the spawn loop: none
\* is lost or doubled by any way a task can end, so at most max_peers tasks run.
PermitsBalance ==
    permits + Cardinality(Running) + (IF main = "spawn" THEN 1 ELSE 0) = MaxPeers

\* "Piece has been verified and written to disk" (piece_manager.rs:18): a Done
\* piece has its bytes in the files or on their way there, after a restart with
\* altered files too.
DoneIsStored == InState("Done") \subseteq disk \cup inflight

\* shutdown() aborts the tasks still running, but by then no task holds a piece:
\* no write is cut short, and "ok" is only returned with every piece Done.
AbortsNoWork ==
    main \in {"shutdown", "remove"} \/ outcome = "ok" =>
        IsComplete /\ \A p \in Peers : claim[p] = NoPiece

\* Stalled is never returned while a task is running, a peer is still to be
\* spawned or every piece is Done: `complete` is sampled before the JoinSet is
\* looked at, but after the turn that reaped its last task.
StalledIsFinal ==
    outcome = "stalled" => ~IsComplete /\ Running = {} /\ queue = {}

\* A checkpoint that is written names only Done pieces, no fewer than the run
\* resumed or saved before, although pieces are claimed, returned and finished
\* between the sampling and the save; it is removed only when all are Done.
CheckpointHonest ==
    [][ckpt' # ckpt =>
          \/ ckpt' # {} /\ ckpt' \subseteq InState("Done") /\ Cardinality(ckpt') >= last_saved
          \/ ckpt' = {} /\ IsComplete]_vars

\* A stalled run leaves nothing behind that the next one has to download again,
\* unless its last save failed: every Done piece is in the checkpoint, also one that
\* was finished while the checkpoint before it was being saved.
StalledKeepsProgress ==
    outcome = "stalled" /\ ~save_failed => InState("Done") \subseteq ckpt

\* download() implements its promise: see VerifiedDownload.
Promise == INSTANCE VerifiedDownload WITH
    Piece <- Pieces, verified <- InState("Done"), stored <- disk \cup inflight
ImplementsPromise == Promise!VDSpec

\* download() returns whatever the peers do, unless a task hangs; and a task that hangs
\* keeps it from returning only while pieces are missing: once the last one is Done
\* neither the spawn loop nor the progress loop waits for it, whatever it holds.
Termination == <>[](outcome # "running") \/ <>[](hung # {} /\ ~IsComplete)

\* No order of claims, leaves and reaps makes healthy peers stall: a task that leaves
\* because all its peer has is claimed leaves them to tasks that finish them.  If every
\* peer that got a task was healthy, only a failed write can stall the run; otherwise,
\* by Termination, it succeeds.
HealthyNeverStall ==
    outcome = "stalled" /\ (\A p \in Peers \ Healthy : pc[p] = "idle") => ~ClaimReturned

\* "the progress is checkpointed to disk after each completed piece"
\* (README.md:101): a completed piece gets into the checkpoint, or the run ends.
PieceCheckpointed ==
    \A i \in Pieces :
        state[i] = "Done" ~> i \in ckpt \/ outcome # "running" \/ state[i] # "Done"
=============================================================================
