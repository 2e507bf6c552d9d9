# A verification project for stormdrain

stormdrain is a BitTorrent client and library written in Rust on tokio. This
directory holds TLA+ models of its core, the TLC configurations that check them
and TLAPS proofs about them. `PROJECT.json` lists the components, the runs with
their properties, the mutants that show each property can fail, the source lines
every definition stands for, the hazards and the theorems. Source paths below
are relative to `src/src/` of the repository.

    tlc -workers 2 -config MCDownloadSafety.cfg MCDownload      # a run
    tlapm PieceManagerProofs.tla                                # the proofs of a module

## 1. The system

One call of `download()` fetches one torrent. `main` may run several at once, all
writing below the same download directory.

| component | code | state it keeps | operations |
|---|---|---|---|
| piece table | `piece_manager.rs` | per piece Needed / Claimed / Done; cached `needed_count`, `done_count`, `downloaded` | `claim_piece`, `return_piece`, `mark_done`, `needs`, `is_complete`, the wire bitfield |
| orchestration | `download.rs:103-321` | semaphore, JoinSet, the sampled progress, `last_saved_pieces` | resume, announce, spawn loop, progress loop, shutdown, seeding, removal of the checkpoint |
| peer task | `download.rs:341-496` | connection, `peer_bitfield`, `choked`, the claimed piece | connect, handshake, bitfield, interest, claim, unchoke, fetch, verify, write, mark |
| block pipeline | `download.rs:500-565` | `next_request`, `blocks_done`, `received`, the buffer | requests ahead, assembly of blocks in any order |
| resume | `resume.rs` | the checkpoint file and its temporary file, the `.stormdrain` directory | `load`, `save`, `remove`, `verify_and_resume` |
| file writer | `file_writer.rs` | the output files | `write_piece`, `read_data` across file boundaries |
| seeder | `download.rs:698-821` | permits, upload counter, connections | accept, serve requests, stop by time or ratio |
| discovery | `download.rs:568-694`, `tracker/`, `dht.rs`, `peer/metadata_exchange.rs` | tracker tiers, DHT routing table and pending queries, metadata pieces | announce, DHT lookup, metadata from a magnet link |
| wire | `peer/conn.rs`, `peer/mse.rs`, `peer/message.rs`, `peer/handshake.rs` | read buffer, encrypted write buffer | framing, encryption, codec, handshake |
| formats | `bencode.rs`, `metainfo.rs`, `magnet.rs`, `types.rs` | none | parsers and value types |
| command line | `bin/stormdrain/`, `lib.rs`, `error.rs` | none | arguments, display, errors |

**How they interact.** Peer tasks and the orchestration share the piece table
through a mutex that no task holds across an await (the resume code, which does,
runs before any task exists). A semaphore permit bounds the running tasks; it is
acquired by the spawn loop, moved into the task and dropped at its end, however it
ends. The JoinSet collects tasks that have ended until the progress loop reaps
them. Verified pieces go to the files, and the checkpoint names the Done pieces. A
run of the same command loads that checkpoint and hashes the files again.

**What is hard.** Task interleavings at every await; tasks that end at any point
by an error, a timeout or an abort; the sampling of `complete` and of the
checkpoint before an await, and their use after it; writes that tokio finishes
in the background; a kill between any two steps; several downloads creating and
deleting one directory; a peer that sends blocks late, twice or unasked, or nothing
at all. `PROJECT.json` lists these as hazards, each at its line.

**What makes each part correct.** The piece table: exact counters, Done is final.
The peer tasks: at most one works on a piece, and a claim comes back however its task ends. The
orchestration: permits balance, Stalled is neither early nor wrong, shutdown cuts
no work short. Resume: a Done piece is on disk, a checkpoint is honest and survives
a kill. The pipeline: no underflow, no idle wait, only full buffers are hashed.
The file writer: every byte has one place. Discovery: a lookup ends and uses what
it was told. The wire: a message is read whole or not at all.

## 2. The modules

| module | models | status |
|---|---|---|
| `PieceManager` | the piece table; one action per method | checked, proved |
| `Download` | `download()` and its `run_peer()` tasks; EXTENDS `PieceManager` | checked, safety proved |
| `VerifiedDownload` | what `download()` promises, the abstract specification | implemented by `Download` (checked, proved) |
| `DownloadPiece` | `download_piece()`, block by block | checked, safety proved |
| `ResumeStore` | `save()` and `remove()` of several downloads, call by call | checked, safety proved |
| `FileLayout` | the byte stream of a torrent over its files: offsets, pieces, the parts a range overlaps, the offsets of the resume code | used by the two below |
| `FileStore` | `write_piece()` part by part, the blocking pool, the two readers; EXTENDS `FileLayout` | checked and proved in `Seed` |
| `Seed` | `seed_loop()` and `serve_peer()` over these files; EXTENDS `FileStore` | checked, safety proved |
| `Connection` | one connection of `run_peer()`: MSE, plain fallback, handshake, framing, encrypted writes | checked, safety proved |
| `Trackers` | one started announce to all tiers, UDP datagram by datagram | checked in `Discovery` |
| `Dht` | bootstrap, receiving task, routing table, one lookup; EXTENDS `Trackers` | checked in `Discovery` |
| `Metadata` | the metadata exchange with one peer | checked in `Discovery` |
| `Discovery` | what `download()` does before its first peer task; EXTENDS `Dht`, `Metadata` | checked, safety proved |
| `PieceManagerProofs`, `DownloadPieceProofs`, `DownloadProofs`, `ResumeStoreProofs`, `SeedProofs`, `ConnectionProofs`, `DiscoveryProofs` | theorems about the module of that name and their proofs | |
| `DataLemmas` | lemmas about sequences, ranges of integers and recursive functions that several proofs use | |
| `MC*` | instances for TLC | |

### PieceManager

`state`, `downloaded`, `done_count` and `needed_count` are the fields of the
struct; the constants are those `new()` gets. `ClaimPiece(bitfield, i)` is
`claim_piece` returning `Some(i)`, `ReturnPiece(i)` and `MarkDone(i, len)` the
methods of those names with their guards on the old state and on the index.
`PMNext` calls them in any order, with indices one past the end too. `BuildBitfield`
and `BitfieldToVec` keep the bytes and the bit numbers of the wire format.

### Download

An action is the code between two awaits at which another task may run; what
happens under one lock of the piece table is one action. `main` is the position of
`download()`, `pc[p]` that of the task of peer `p`:

| `main` | code | `pc[p]` | code (`run_peer`) |
|---|---|---|---|
| load, verify, open | 120-141 | connect | 348-368 |
| announce | 147-165 | bitfield | 375-396 |
| acquire, spawn | 168-196 | check | 398-409 |
| sleep | 198-218 | claim | 415-427 |
| save | 219-224 | wait | 429-456 |
| decide | 263-285 | fetch | 458-479 |
| shutdown | 288-289 | write | 481-483 |
| remove | 291-320 | mark | 485-488 |

A task that ends drops its claim variable, its connection and its permit (`End`)
and stays in `joined` until `Reap`. `disk` is the set of pieces whose correct bytes
are in the files, `inflight` those tokio's blocking pool still has to write,
because `write_at` returns without a flush; `Land` writes one, or loses it.
`ckpt` is what the checkpoint file names. `Restart` is a kill or a rerun at any
moment: memory is lost, the files and the checkpoint stay, a write in flight may
or may not have reached the files.

What goes wrong in the environment is chosen per run by the constant `Faults`:
a write that fails at once (`write`) or later (`late_write`), a checkpoint or a
directory that cannot be saved, created or removed (`io`), files altered between two
runs (`tamper`), a PIECE message that makes `download_piece` panic (`panic`), a task that
waits for ever where the code sets no timeout (`hang`). `Healthy` peers announce every
piece, unchoke, take what we send and send good data. Other peers may fail anywhere.

`Panic` unwinds the task: the permit and the connection are dropped, the rest of
`run_peer` does not run, so the claimed piece is not returned. `Hang` puts a task into
`hung`, from which only the end of the program takes it: in a handshake; in a send,
which waits for a peer that does not read, or for a wakeup that `poll_write` lost
(`stuck` in `Connection`); or in the bitfield loop, whose 3 seconds start
again with each message. `save_failed` is a history variable: the last save of the
progress loop failed.

Abstractions: peers are members of a set, so the sort and dedup of the announce
are the set itself, and the order of the queue is arbitrary; the DHT fallback is
part of `Announce`; time is left out, a timeout is a choice; a HAVE is a separate
action because the loops that read it change nothing else.

### DownloadPiece

One piece, its length chosen from `PieceLens`, and its buffer byte by byte. `manner`
chooses at the start how the peer behaves: a `polite` one answers open requests; a
`repeating` one also sends blocks nobody asked for, repeated, early, or one beyond the
end; a `wild` one also sends data of any length (`MaxData` is the bound) that begins
anywhere. `Accept` is what the code does with it: the data counts as the block it begins
in, and is clamped to the end of the piece, not of that block. It may therefore overwrite
the blocks that follow, leave part of its own block empty, or panic. Anything else a
peer sends, and the failures, are actions of their own. The properties are about
every peer; where they excuse the wild one they say so.

### ResumeStore

An action is one file-system call: `create_dir_all`, the creation and the filling of
the temporary file, `rename`, `remove_file`, `remove_dir`. The downloads
interleave between them, and `Kill` stops one between any two and runs it again. A
file holds nothing, a torn write, or the n-th checkpoint. `rmdirs` is a history
variable. Downloads have different info hashes, therefore different files.

### FileLayout, FileStore and Seed

`lengths` is the list of file lengths, chosen from `Layouts`. `Offset` and `PieceLen` are
the sums and remainders of `metainfo.rs`. `Part` is the intersection of a range with a file that
`write_piece` and `read_data` compute for every file, `Overlaps` the files they do not pass over;
both loops go through them in order, so what they have left is a set of files of which the
least is next. `ResumeSkips`, `ResumePart` and `ResumeOffsets` are the other walk over the files,
the one of `read_piece_from_disk` with its running offset. The right byte at an
offset of the stream is that offset, so a byte written or read in a wrong place shows.
`write_piece` is a `WritePart` for every file it touches, each with a `Land` of its own that
comes later, in any order, and may be preceded by a `WriteError` that leaves the rest of the
piece unwritten; the files may exist already, with other bytes.

`Seed` starts when every `write_piece` has returned, as `download()` does, while parts may
still be on their way to the files. `seeding` is the position of `seed_loop`, `conn[c]` that
of the `serve_peer` of client `c`. A request is read part by part, and a part that is not
in its file ends the task (`ReadFailed`). Time is a choice, `seed_time` passes once; the
ratio is compared in tenths.

### Connection

The stream is a sequence of cells, a cell being a field the code reads as a whole: a DH
key, the 14 bytes of the MSE answer, a unit of padding, the handshake, a length prefix, a
message id, a unit of payload. An encrypted cell carries its position in the key stream;
read at another position it is garbage, and what garbage means is a choice: any crypto
selection, any padding length, any message length. `kind` is what the remote side is. It
may know MSE with or without padding, choose plaintext, know only the plain
protocol, serve another torrent, or be silent. `at` is the position of `run_peer` up to
the handshake, `phase` the loop it is in afterwards.

`TakePrefix` and `TakeMessage` are the two halves of `read_message`; `Timeout` may come
between them and drops the read with its prefix, as `read_message_timeout` does. A
message may be `oversized`: `TakePrefix` refuses it after it took the prefix. A
prefix is one cell: a timeout in its middle leaves it in the buffer, and so changes
nothing. `PollWrite` and `PollRest` are the two parts of `poll_write`; `stuck` is the
Pending it returns without a waker. The remote side is defined from what the code sends
it and expects of it, not from the MSE standard.

### Trackers, Dht, Metadata and Discovery

`step[k]` is the position of the task of tier `k`, `inbox[k]` the datagrams on their way to
its socket: answers, left-over datagrams of other exchanges, copies. The first one received
decides. `HttpReplies` are the shapes of an HTTP answer that `parse_response` tells
apart.

`Dht` keeps the pending queries, the channel of the query that is waited for and the
routing table as the code does. Answers arrive late, to queries that timed out, with ids
that were used again, and with any of the keys `parse_compact_nodes` and `handle_response`
look for. The pending entry outlives the two-second wait by one step (`clean_up`), since
the receiving task runs in parallel. Two kinds of constants are small: the table
holds `TableSize` nodes, a lookup starts with `K`. That a lookup ends at 50 peers, and
returns no more, is left out.

`Metadata` is the exchange with one peer: `claimed` is its metadata size in pieces,
`pieces` what was kept of each. Data is a sequence of pieces of the info dict or junk, so a peer may send
the whole dict as one piece, or nothing; the hash compares what the pieces make
together. `lied` is a history variable. The waits without a timeout (the
handshake, the sending of the hello and of the requests) are steps of the peer, `PeerStep`, to which
nothing forces it; `link` says that it closed the connection, or that it sends other messages for
ever instead of its hello, each of which restarts the 15 seconds. `ExchangePanics` ends
`download()` itself, in whose task the exchange runs. `Discovery` puts them in the order of `download()`: the metadata
first if there is a magnet link (announce, DHT, DHT once more, up to `FetchLimit`
exchanges), then the announce of the torrent. `heard` and `tried` are history variables.

### Mutants

An operator whose comment begins with "Mutant of X" changes X the way a
plausible bug would. It stands before X, is not part of the specification, and
`PROJECT.json` says which property must fail when X is replaced by it.

## 3. The runs

| run | instance | shows |
|---|---|---|
| `piece_table` | 9 pieces, the last one short; every method with every index | counters, byte count and bitfield are exact; Done is final |
| `download_safety` | 2 peers that may do anything, 2 permits, 3 pieces, failing saves, writes that fail or get lost, panics | claims, and that a stalled run keeps its progress |
| `download_restarts` | 3 peers of which 2 are healthy, the third may fail, panic or hang, 2 permits, 2 pieces, failing writes, 1 restart with altered files | permits, storage, honest checkpoints, the end of a run, that `download()` implements `VerifiedDownload` and returns unless a task hangs, and that healthy peers do not stall |
| `block_pipeline` | pieces of 0 to 4 blocks of 2 bytes, full and short, pipeline 2, data of up to 4 bytes | the pipeline's bounds, tiling, assembly, overwriting, panics, and that it never runs dry |
| `resume_store` | 3 downloads, 2 saves each, 1 kill or rerun | checkpoints survive kills and each other |
| `seed` | 3 layouts of 2 pieces over 1 to 5 files, 1 failing write, 2 clients, 1 permit, 2 requests | what landed can be resumed; what is served is right or not yet written; permits come back; the limits stop the seeder |
| `connection` | 6 kinds of remote side, 2 messages of up to 1 unit of payload or oversized, 2 sends | honest peers get connected; an open connection is in step; messages come out as they went in; writes stay in order |
| `discovery` | a torrent with 2 tiers and 4 trackers, a magnet link with 2, 3 DHT nodes, 2 peers, metadata of 2 pieces | no peer lost or made up, honest errors, honest peers' metadata accepted, and an end |
| `write_error_leaks_claim` | 2 peers, failing writes | violation, see below |
| `late_write_error_lost` | 2 peers, lost writes | violation |
| `hung_peers_block_checkpoint` | 4 peers, hanging tasks, 2 permits | violation |
| `metadata_peer_hangs_up` | as `discovery` | violation |

**Why the bounds are enough.** Nine pieces give the bitfield a second, partial
byte. In `download_restarts` two permits and three peers make the spawn loop wait while tasks run and end;
two pieces let one task hold the last piece while another finds nothing to
claim. A piece that is done while the checkpoint of another is being saved, in a
run that is not complete with both, takes a third piece, so `download_safety` has
three. `download_restarts` has two, enough for one to be stored and one not when
the program is killed. One restart
reaches every state of the files a later run can find, since a
restart forgets everything but `disk` and `ckpt`. Four blocks with a pipeline of
two cover a full pipeline, a refill and the last block; data of four bytes reaches
over the whole of the next block. Three downloads, one of
which may be run twice, can remove the directory three times under one save, just enough
to use up `MAX_WRITE_ATTEMPTS`.

The layouts of `seed` have a piece inside one file, a piece over three files with an empty
one inside the next piece, and pieces that meet the borders of files with an empty file
last. One failing write lets a piece be written twice; one permit and two clients make
the second one be turned away. In `connection` two messages are needed to lose step
and notice it, and two sends for a rest of the first to meet the second. In `discovery`
the first tier has a UDP, an unsupported and an HTTP tracker; three nodes with a table of
two fill it; two transaction ids let one be used again while its first query is still
unanswered; a peer may claim one piece too few or too many.

**Symmetry** is used only in `download_safety`, where no peer is special and
nothing temporal but action properties is checked.

**Deadlock** is checked wherever the system should not stop; an ended program
stutters by an action of its own (`Exited`, `Returned`, `AllRemoved`, `Over`).
`hung_peers_block_checkpoint` switches it off, because there the program
really does stop, and so does `connection`, because a connection ends, and waits for
ever if a peer that owes it a handshake stays silent.

**Fairness.** tokio runs every task that can run, so `download()`, every peer
task and the blocking pool are weakly fair. Fairness of a peer task does not say that its
waits end: those with a timeout do (the reads of `download_piece`, the wait for an UNCHOKE), the others
(handshakes, sends, the bitfield loop of a talkative peer) may hang, by the fault `hang`,
and a hung task takes no step. `Termination` states what remains true then. In
`DownloadPiece` the peer takes the requests and answers some of the open ones between whatever else it
sends (strong fairness of `ReadSolicited`): what happens otherwise is the timeout,
`Fail`, or, if it does not read, the hang above. In `ResumeStore` a save or a removal that has begun makes its next call.
`Seed` is fair to the loop only, whose `accept()` has a timeout: no client does anything.
`Discovery` is fair to the program only: no tracker, node or peer ever has to answer. All
waits for trackers and DHT nodes have a timeout; those of the metadata exchange that have
none are steps of the peer without fairness, and a peer that hangs up leaves the program
spinning (`ReadOther` changes nothing). `DiscoveryEnds` names these as the only exceptions. In
`Connection` an honest remote side answers what it is asked, and closes a connection on which
it waits in vain; garbled negotiations end that way.

## 4. What the runs found

1. `download.rs:483`: when `write_piece` fails, `?` leaves the task without
   `return_piece`; `piece_manager.rs:6` says a failing task must call it. The piece
   stays Claimed for the rest of the run (`ClaimReturned`).
2. `file_writer.rs:111`: `write_at` does not flush; tokio's `File` reports the error
   of a background write at the next operation, and there is none. A piece then
   is Done that is not in the files, against `piece_manager.rs:18`
   (`DoneIsStored`). The next run notices, since it hashes the files.
3. `download.rs:174`: the spawn loop awaits permits before the progress loop
   starts, and handshakes have no timeout. Peers that stay silent can keep the
   checkpoint from being written for ever, against `README.md:101`
   (`PieceCheckpointed`). Sends have no timeout either (`conn.rs:87`).
4. `peer/metadata_exchange.rs:122`: at the end of the stream `read_message` is ready with
   None each time it is called, `timeout` looks at its future before its delay, and None is
   ignored: the loop spins for ever, although the comment at line 116 says that the
   timeout fires (`ExchangeEnds`). The hello loop above it does the same.

Observations which no run judges:

- `download.rs:148`: a rerun whose pieces are all verified on resume still fails when the
  announce finds no peer.
- `download.rs:544`: a PIECE whose `begin` lies in a partial last block, past the end
  of the piece, makes the slice `start..end` panic (`PanicsOnlyPastEnd`). The task unwinds,
  its permit comes back, the piece stays Claimed: a second breach of
  `piece_manager.rs:6`. It and the first violation are the only ways to lose a claim
  (`ClaimLostOnlyByFailure`).
- `download.rs:542`: the data of a block is clamped to the piece, not to its block. Data
  that is longer than its block, or begins inside one, overwrites the blocks that follow,
  those received before too, and short data counts as a whole block. `FirstDataKept` and
  `AssembledFull` say how far this goes; the hash then refuses the piece.
- `download.rs:288`: `shutdown()` aborts the tasks that the comment above it lets "wind
  down naturally"; `AbortsNoWork` shows that they hold no piece then.
- `download.rs:426`: a task leaves for good when the pieces its peer has are all claimed
  by others. If one of those then fails, the run can stall although a healthy peer was
  connected. `HealthyNeverStall` shows that healthy peers alone never cause this.
- `download.rs:393`: an UNCHOKE sent before the bitfield is dropped.
- `download.rs:394`: `Err(_) => break` is commented as a timeout, but is any error, after
  which the connection is used on. A timeout between a prefix and its body
  (`conn.rs:81`) leaves it out of step, and so does a prefix above `MAX_MSG_LEN`
  (`conn.rs:41`); `FramesInStep` shows that nothing else does.
- `mse.rs:301`: padding behind the peer's key is not skipped, and VC is not looked at. Such
  a negotiation is garbled and may even pass for RC4; `HonestPeerConnects` shows that
  the plain connection always saves it.
- `mse.rs:150`: `poll_write` may return Pending without a registered waker (`stuck`),
  and nothing flushes what it buffered before the next message is sent. The task may
  then hang in that send with its permit and its claim.
- `peer/metadata_exchange.rs:49`: the handshake has no timeout, nor has any send of the
  exchange, and at line 73 every message restarts the 15 seconds: one silent or
  talkative peer keeps `download()` from asking the next. `DiscoveryEnds` shows that
  nothing else of discovery does, but a peer that hangs up.
- `peer/metadata_exchange.rs:187`: a string longer than the payload makes the slice panic, and
  a negative or huge `metadata_size` overflows a capacity (100, 143); the exchange runs in
  the task of `download()`, which panics with it.
- `download.rs:667`: a magnet link whose trackers answered with no peers is reported as
  "No trackers responded"; `VerdictHonest` is about the announce after the metadata.
- `tracker/udp.rs:55`: a left-over or repeated datagram fails the announce, where
  receiving once more would do.
- `dht.rs:165`: the lookup starts as soon as the bootstrap queries are sent, with a table
  that is mostly still empty; of the events of an answer only the first is used; the
  receiving task of a Dht is never stopped.
- `download.rs:802`: a seeder may serve, or fail to read, what the blocking pool has not yet
  written; `ServedRight` shows that this is the only wrong data it serves.

## 5. The proofs

The theorems hold for every value of the constants that the named assumptions
allow. These say no more than that a bound of a run is a number, that a size the code divides
by is positive, that there is a permit and an attempt to use, that peers, DHT nodes and downloads
are finitely many, and that two nodes have two distances. `LayoutConstants` allows every list of
file lengths, `TrackerConstants` every announce-list, `ConnectionConstants` every subset of the six
kinds of remote side; there may be any set of clients. None of them mentions the values of a run. Every safety invariant and every
action property that a run checks is a theorem; `PROJECT.json` pairs them.

**`PieceManagerProofs`.** `TableInv` is the shape of the table together with
`CountersExact`. There is one lemma per method (`ClaimKeepsTable`,
`ReturnKeepsTable`, `MarkKeepsTable`), and the same lemmas serve `Download`, whose
actions call those methods. `DownloadedExact` is carried
by a closed form, the byte count as the piece length times `done_count` less what the
last piece falls short of it once Done; that completion and `total_length` coincide then follows
from the division that gives the last piece's length.

**`DownloadProofs`.** The inductive invariant is

    Inv == TypeOK /\ CountersExact /\ ExclusiveClaim /\ PermitsBalance /\ Phases

The first four are properties the runs check. They are not enough: that the tasks
which `shutdown()` aborts hold no piece, or that Stalled is right, depends on what
the position of `download()` says about the tasks. `Phases` states that: no task runs
before the spawn loop or after `shutdown()`; the queue is empty once the spawn loop is
left, unless the torrent is complete; a sampled `complete` is still true when it
is used, and if the last task has been reaped and the torrent is complete, then the
sample says so. From `Inv` follow `ClaimsExclusive`, `PermitsBalanced`,
`ShutdownAbortsNoWork` and `StalledRunsAreOver`, under any faults.

Four more arguments are built on it.

- `ClaimsReturned` holds under any faults: the set of pieces left Claimed without a task
  grows only by a failed write or a panic, and only by the piece of that task, and
  shrinks only by a restart (`UnclaimedBefore`, `LostSteps`). With the first
  violation of section 4 this says what loses a claim and what does not.
- `HealthyPeersNeverStall` holds under any faults too. The first task that leaves finds nothing
  unclaimed (`NothingLeft`: a healthy peer has every piece, `HealthyHaveAll`), and among healthy
  tasks nothing becomes unclaimed again; so when all have left and no claim is lost, all is
  Done. With `Termination`, which is only checked, such a download succeeds.
- `DonePiecesStored` and `DownloadKeepsPromise`, the refinement of `VerifiedDownload`,
  assume that no background write is lost. `StoreInv` adds to `DoneIsStored` that a
  piece about to be marked is stored; it is kept although other tasks and the
  blocking pool run between the write and the mark. With the second violation
  this says that the unflushed write is the only gap.
- `CheckpointsHonest` and `StalledRunsKeepProgress` hold under any faults.
  `NothingUnsaved` says that a run which stalls after a save that succeeded has counted all it
  finished. `CheckpointInv` relates three counts that are taken at different times: the
  `last_saved_pieces` of the last save, the sample taken before the next one,
  and the Done pieces now, of which the checkpoint names at least as many as the first.

**`DownloadPieceProofs`.** The invariant relates the counters to sets: `blocks_done` is
the number of received blocks, every requested block is open or received when the
peer is polite, and the task reads only when the pipeline is full or everything is
requested. `BufferFollows` carries the bytes: unless the peer is wild, those of a received
block have data, since the request for a block covers exactly its bytes
(`BytesRequested`). `FirstDataKept` is an action property: data lands at a byte
only from a begin in its block or before (`BlocksOrdered`), and its own block, once received, accepts
no more. `BeginsInside` shows that a begin past the end is in a partial last block.

**`ResumeStoreProofs`.** `CheckpointSurvives` is not inductive, since it says nothing of a save in
progress: `FilesFollow` adds that the temporary file holds the new version when it is renamed, and
that no checkpoint is left when the directory is removed. `RetriesSuffice` compares attempts
with a history of removals; `RetriesPaid` says that each attempt used up was paid for by one
removal, and that a directory missing right now is one removal ahead.

**`SeedProofs`.** Three invariants, one built on the other.

- `StoreInv` is about the files. A byte in a file is the right one of its place or none of ours
  (`InPlace`), and what a call of `write_piece` is through with is with the blocking pool or in
  its file (`Written`). A write that lands changes bytes of its own part only, so a neighbour's
  stored part stays stored. `LandedIsReadBack` then has to lead from the parts that
  `write_piece` computes to those of the resume code, whose offset runs: `Clip` is the closed
  form of that offset, how much of the range lies before the end of the n-th file, and both
  walks are shown to follow it.
- `ClientInv` is about `serve_peer` while it reads. `Progress` says that the files still to be read
  come last and that the bytes read end where the first of them begins, again by `Clip`;
  `RightSoFar` that every byte read is right or was not yet written, and right if the range was
  in the files at the start, which later writes do not undo.
- `PermitsInv` counts the clients being served. They come and go one at a time or leave all at
  once, so their set stays finite although that of all clients need not be.

**`DiscoveryProofs`.** `PeersHeard` needs to know at each stage which answers were heard and not
used yet: in the tiers none (`HeardByTiers`), in a lookup those at the head of the channel of
the one query that is waited for (`LookupInv`: the first answer removes the pending entry,
therefore no second is queued). `TiersFollow` says that the trackers tried and those still to be
asked are all trackers of the tier, from which a tier without an answer has tried them all.
`FlowFollows` carries both to the verdict. `ExchangeSound` is about the metadata: the counter
is the number of pieces kept (`PiecesCounted`), so when it reaches the total none is missing, and
what is kept of a peer that has not lied is right (`HonestSoFar`).

**`ConnectionProofs`.** Three invariants.

- `WriteInv`: the cells on the wire, in `write_buf` and in `out` are numbered through, in that
  order, and the encrypted ones carry their position; `okey` is the number of the first two.
- `SetupInv`: the cells on their way are numbered from our decryption position on (`KeysFollow`),
  less `Lag`, the unit of padding that was read in place of the VC. Over MSE a remote side that pads
  therefore never says anything that decrypts to a handshake; a stranger's cells, which have
  no position there, never do either, and its handshake in plain is for another torrent. This is why the connection can be trusted although
  neither VC nor padding is looked at.
- `ReadInv`: `StagesFollow` shows that nothing of the negotiation is left in the stream when the
  connection opens. From then on, unless a read was dropped between prefix and body,
  there is a number n of messages that were read (`InFrame`): `got` is what `decode()` accepts
  of the first n, and the cells in `read_buf` and on their way are a `Chain`, each at the
  place after the one before, from the cell that is awaited to the end of the last message,
  or into its middle if the remote side closed there (`Ends`). `BodyFollows` shows that the
  cells behind a prefix are exactly its body.

**Recursion and induction.** `Offsets`, `ResumeOffsets`, `Listed` and `Accepted` are recursive
functions on an interval 0 .. n. The library's theorems on such functions take an operator and
are out of reach, so `DataLemmas` proves what is needed from one that does not, that every
non-empty set of naturals has a least member: `RangeInduction` is induction on an interval
stated for a set, and `RecursionExists` gives, for a sequence of functions, the function that
applies them one after the other. The recursive definition is shown to satisfy its equation
with the second (`OffsetsRecur`, `ListedType`, `AcceptedRecur`), and its properties are proved with
the first.

**Only model-checked.** Liveness (`Termination`, `Terminates`,
`SaveReturns`, `SeedStops`, `HonestPeerConnects`, `DiscoveryEnds`), since liveness under
fairness is out of the prover's reach. The properties of the violation runs are false, and
so are not theorems.

## 6. Not modelled, and the plan

Not modelled: speed estimates and the progress callback, encodings (bencode, the fields of
messages, compact peers, JSON, URLs), the arithmetic of ciphers and of the key exchange, argument
parsing and display. They are sequential and most have round-trip unit tests. Inside
modelled components: the completed announce, whose result nothing uses; `load()` of a
damaged checkpoint file; answers to pings and `announce_peer` of the DHT, which
change no state here; the limit of 50 peers of a lookup; files with the same path.

Planned, in this order:

1. An abstract specification of what a connection promises, two queues of messages of which each
   end takes what the other gave, and `Connection` shown to implement it while no read is cut;
   `ReadInv` and `WriteInv` are the invariants its step simulation needs.
2. An abstract specification of the checkpoint, one value per download that a save replaces
   atomically, and `ResumeStore` shown to implement it.
3. A path for every file in `FileLayout`, so that two files may share one, with the
   theorems of `SeedProofs` under the assumption that none do.
