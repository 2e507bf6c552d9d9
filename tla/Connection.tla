----------------------------- MODULE Connection -----------------------------
(***************************************************************************)
(* One outgoing peer connection, from the TCP connect of run_peer to its   *)
(* last message: the MSE negotiation and the plain connection tried when   *)
(* anything of it fails (src/src/download.rs:323-373, peer/mse.rs,         *)
(* peer/handshake.rs), the framing of messages over the stream             *)
(* (peer/conn.rs, peer/message.rs), and the writes of MseStream.           *)
(*                                                                         *)
(* What travels is a sequence of cells: a cell is a field that is read as  *)
(* a whole.  An encrypted cell carries the position `key` of the RC4 key   *)
(* stream it was encrypted at; decrypted at any other position it is       *)
(* garbage.  One task reads and writes; the remote side is the environment.*)
(***************************************************************************)
EXTENDS Integers, Sequences, SequencesExt

CONSTANTS
    Kinds,          \* which of RemoteKinds the remote side may be
    MaxPayload,     \* bound: payload cells of a message
    MaxReceived,    \* bound: messages the remote side sends
    MaxSends        \* bound: messages we send

RemoteKinds ==
    {"mse",         \* speaks MSE and plain
     "padded",      \* the same, and sends padding after its DH key
     "plaintext",   \* the same, but selects plaintext
     "plain",       \* does not know MSE and closes when it meets it
     "stranger",    \* speaks both, for another torrent
     "silent"}      \* accepts, and says nothing

ASSUME ConnectionConstants ==
    /\ Kinds \subseteq RemoteKinds
    /\ MaxPayload \in Nat /\ MaxReceived \in Nat /\ MaxSends \in Nat

VARIABLES
    kind,
    at,             \* where run_peer is
    encrypted,      \* whether the stream is an MseStream
    rx, closed,     \* cells on their way to us; the remote side has closed
    replies,        \* what the remote side has said on this connection
    ekey, dkey,     \* key stream positions: its encryption, our decryption
    rc4, padD,      \* crypto_select & 2, pad_d_len as we read them
    incoming,       \* the messages the remote side sent
    buf, need,      \* read_buf; cells of the body awaited, None between messages
    got,            \* the messages read
    cut,            \* a read was given up after its prefix was taken
    phase,          \* "initial": the bitfield loop, "main", or how it ended
    doing,          \* "idle", "write", or "stuck": in poll_write with no waker
    out,            \* cells given to write_all and not yet taken
    write_buf, wire,    \* encrypted but unwritten; with the socket
    okey, sent      \* our encryption position; the cells of the messages sent

setupVars == <<at, encrypted, rc4, padD>>
remoteVars == <<rx, closed, replies, ekey, incoming>>
readVars == <<buf, need, got, cut, phase>>
writeVars == <<doing, out, write_buf, wire, okey, sent>>
vars == <<kind, setupVars, remoteVars, dkey, readVars, writeVars>>

None == -1

\* A cell: `n` counts messages or padding, `part` is the place in the message.
Cell(what, n, part, key) == [what |-> what, n |-> n, part |-> part, key |-> key]
Garbage == Cell("garbage", 0, 0, None)

Init ==
    /\ kind \in Kinds
    /\ at = "connect" /\ encrypted = FALSE
    /\ rx = <<>> /\ closed = FALSE /\ replies = 0
    /\ ekey = 0 /\ dkey = 0 /\ rc4 = FALSE /\ padD = 0
    /\ incoming = <<>> /\ buf = <<>> /\ need = None /\ got = <<>> /\ cut = FALSE
    /\ phase = "initial" /\ doing = "idle"
    /\ out = <<>> /\ write_buf = <<>> /\ wire = <<>> /\ okey = 0 /\ sent = <<>>

\* Rc4::apply to the j-th cell read at once; nothing on a plain stream.
Decrypt(cell, j) ==
    IF cell.key = (IF encrypted THEN dkey + j - 1 ELSE None) THEN cell ELSE Garbage

\* The next n cells are read from the stream, and decrypted if that is encrypted.
Take(n) ==
    /\ n <= Len(rx)
    /\ rx' = SubSeq(rx, n + 1, Len(rx))
    /\ dkey' = IF encrypted THEN dkey + n ELSE dkey
    /\ UNCHANGED <<closed, replies, ekey, incoming>>

AtEOF == rx = <<>> /\ closed

-----------------------------------------------------------------------------
(* run_peer: connecting                                                    *)

Honest == kind \in {"mse", "padded", "plaintext", "plain"}

\* TcpStream::connect within 10 s; perform_initiator sends Xa at once.
Connect ==
    /\ at = "connect" /\ at' = "dh"
    /\ UNCHANGED <<kind, encrypted, rc4, padD, remoteVars, dkey, readVars, writeVars>>

ConnectFailed ==
    /\ at \in {"connect", "reconnect"} /\ ~Honest
    /\ at' = "failed"
    /\ UNCHANGED <<kind, encrypted, rc4, padD, remoteVars, dkey, readVars, writeVars>>

\* read_dh_key takes the first 96 bytes; the SKEY hash and VC follow at once.
ReadKey ==
    /\ at = "dh" /\ at' = "negotiate"
    /\ Take(1)
    /\ encrypted' = TRUE
    /\ UNCHANGED <<kind, rc4, padD, readVars, writeVars>>

\* The 14 bytes that should be VC, crypto_select and len(padD); VC is not looked at.
ReadSelect ==
    /\ at = "negotiate"
    /\ Take(1)
    /\ LET reply == Decrypt(Head(rx), 1)
       IN  \E selected \in BOOLEAN, length \in 0 .. 2 :
              /\ reply.what = "select" => selected = (reply.part = 2) /\ length = reply.n
              /\ rc4' = selected /\ padD' = length
    /\ at' = "padD"
    /\ UNCHANGED <<kind, encrypted, readVars, writeVars>>

ReadPadD ==
    /\ at = "padD" /\ padD > 0
    /\ Take(1)
    /\ padD' = padD - 1
    /\ UNCHANGED <<kind, at, encrypted, rc4, readVars, writeVars>>

\* crypto_select is judged after padD; handshake::perform sends ours first.
Negotiated ==
    /\ at = "padD" /\ padD = 0
    /\ at' = IF rc4 THEN "handshake" ELSE "reconnect"
    /\ UNCHANGED <<kind, encrypted, rc4, padD, remoteVars, dkey, readVars, writeVars>>

\* Mutant of Acceptable: the info hash is not compared.
AcceptableAny(reply) == reply.what = "handshake"

\* handshake::perform: the protocol string, and n = 1 for our info hash.
Acceptable(reply) == reply.what = "handshake" /\ reply.n = 1

ReadHandshake ==
    /\ at = "handshake" /\ at' = "open"
    /\ Take(1)
    /\ Acceptable(Decrypt(Head(rx), 1))
    /\ UNCHANGED <<kind, encrypted, rc4, padD, readVars, writeVars>>

\* Mutant of AfterFailure: a handshake that fails over MSE is not tried in plain.
AfterFailureOnce == IF at = "handshake" THEN "failed" ELSE "reconnect"

\* Any error over MSE falls back to connect_plain, whose own errors are final.
AfterFailure == IF at = "handshake" /\ ~encrypted THEN "failed" ELSE "reconnect"

\* Too short a reply makes read_exact wait for more.
BadHandshake ==
    /\ at = "handshake" /\ at' \in {"handshake", AfterFailure}
    /\ Take(1)
    /\ ~Acceptable(Decrypt(Head(rx), 1))
    /\ UNCHANGED <<kind, encrypted, rc4, padD, readVars, writeVars>>

SetupEOF ==
    /\ at \in {"dh", "negotiate", "padD", "handshake"} /\ (at = "padD" => padD > 0)
    /\ AtEOF
    /\ at' = AfterFailure
    /\ UNCHANGED <<kind, encrypted, rc4, padD, remoteVars, dkey, readVars, writeVars>>

\* connect_plain: a new TCP connection, and the handshake over it as it is.
Reconnect ==
    /\ at = "reconnect" /\ at' = "handshake"
    /\ encrypted' = FALSE
    /\ rx' = <<>> /\ closed' = FALSE /\ replies' = 0 /\ ekey' = 0
    /\ UNCHANGED <<kind, rc4, padD, incoming, dkey, readVars, writeVars>>

-----------------------------------------------------------------------------
(* Messages                                                                *)

\* KeepAlive; CHOKE and its like, BITFIELD and unknown ids, which need no payload;
\* HAVE and extension messages; REQUEST, PIECE, CANCEL and PORT.
Types == {"keepalive", "free", "extra", "transfer"}

\* And messages whose prefix says more than MAX_MSG_LEN, whatever they are.
MessageTypes == Types \cup {"oversized"}

\* The payload cells without which decode() refuses a message.
MinPayload(type) == IF type \in {"extra", "transfer"} THEN 1 ELSE 0

\* The cells after the length prefix: id and payload.
BodyLength(m) == IF m.type = "keepalive" THEN 0 ELSE 1 + m.payload

\* encode(): the prefix is part 0, the id part 1.
Encode(m, n, key) ==
    [j \in 1 .. 1 + BodyLength(m) |->
        Cell("message", n, j - 1, IF key = None THEN None ELSE key + j - 1)]

-----------------------------------------------------------------------------
(* The remote side                                                         *)

Says(cells) ==
    /\ ~closed
    /\ rx' = rx \o cells
    /\ replies' = replies + 1
    /\ UNCHANGED <<kind, setupVars, dkey, readVars, writeVars, closed>>

KnowsMSE == kind \in {"mse", "padded", "plaintext", "stranger"}

\* A remote side that serves another torrent derives another key.
RemoteKey(n) == IF kind = "stranger" THEN None ELSE n

\* What the remote side still has to say before messages follow.
Owes ==
    CASE ~encrypted /\ at = "dh"     -> IF replies = 0 /\ KnowsMSE THEN "key" ELSE "nothing"
      [] encrypted /\ replies = 1    -> "select"
      [] at = "handshake" /\ kind # "silent" /\ replies = (IF encrypted THEN 2 ELSE 0) -> "handshake"
      [] OTHER -> "nothing"

SayKey ==
    /\ Owes = "key"
    /\ Says(<<Cell("key", 0, 0, None)>>
            \o IF kind = "padded" THEN <<Cell("pad", 0, 0, None)>> ELSE <<>>)
    /\ UNCHANGED <<ekey, incoming>>

\* VC, crypto_select, n cells of padD.
SaySelect ==
    /\ Owes = "select"
    /\ \E n \in 0 .. 1 :
          /\ Says(<<Cell("select", n, IF kind = "plaintext" THEN 1 ELSE 2, RemoteKey(0))>>
                  \o [j \in 1 .. n |-> Cell("pad", 0, 0, RemoteKey(1))])
          /\ ekey' = 1 + n
    /\ UNCHANGED incoming

SayHandshake ==
    /\ Owes = "handshake"
    /\ Says(<<Cell("handshake", IF kind = "stranger" THEN 2 ELSE 1, 0,
                   IF encrypted THEN RemoteKey(ekey) ELSE None)>>)
    /\ ekey' = ekey + 1
    /\ UNCHANGED incoming

SayMessage ==
    /\ at = "open" /\ phase \in {"initial", "main"}
    /\ Len(incoming) < MaxReceived
    /\ \E m \in [type : MessageTypes, payload : 0 .. MaxPayload] :
          /\ m.type = "keepalive" => m.payload = 0
          /\ m.type = "oversized" => m.payload = MaxPayload
          /\ incoming' = Append(incoming, m)
          /\ Says(Encode(m, Len(incoming) + 1, IF encrypted THEN ekey ELSE None))
          /\ ekey' = ekey + 1 + BodyLength(m)

\* It closes: before the handshake only when it has nothing left to answer, later at
\* any time and in mid-message too, when some cells of the last one are lost.
RemoteCloses ==
    /\ ~closed /\ closed' = TRUE
    /\ at \in {"dh", "negotiate", "padD", "handshake", "open"}
    /\ Owes = "nothing"
    /\ \/ UNCHANGED <<rx, incoming>>
       \/ /\ at = "open" /\ incoming # <<>>
          /\ \E lost \in 1 .. Len(rx) :
                /\ \A j \in Len(rx) - lost + 1 .. Len(rx) : rx[j].n = Len(incoming)
                /\ rx' = SubSeq(rx, 1, Len(rx) - lost)
                /\ incoming' = IF rx[Len(rx) - lost + 1].part = 0 THEN Front(incoming)
                               ELSE incoming
    /\ UNCHANGED <<kind, setupVars, replies, ekey, dkey, readVars, writeVars>>

-----------------------------------------------------------------------------
(* PeerConn: reading                                                       *)

Reading == at = "open" /\ phase \in {"initial", "main"} /\ doing = "idle"

\* read_buf does not hold what is awaited yet.
Short == IF need = None THEN buf = <<>> ELSE Len(buf) < need

\* An error ends the task, but not the bitfield loop: "Err(_) => break".
Failed == IF phase = "initial" THEN "main" ELSE "error"

\* stream.read() returned bytes; they are appended to read_buf.
Receive ==
    /\ Reading /\ Short
    /\ \E n \in 1 .. Len(rx) :
          /\ Take(n)
          /\ buf' = buf \o [j \in 1 .. n |-> Decrypt(rx[j], j)]
    /\ UNCHANGED <<kind, setupVars, need, got, cut, phase, writeVars>>

\* The prefix is split off, and refused if it is above MAX_MSG_LEN.  What is not a
\* prefix reads as any length.
TakePrefix ==
    /\ Reading /\ need = None /\ buf # <<>>
    /\ buf' = Tail(buf)
    /\ LET cell == Head(buf)
           prefix == cell.what = "message" /\ cell.part = 0
           oversized == prefix /\ incoming[cell.n].type = "oversized"
       IN  \/ /\ ~oversized
              /\ \E n \in 0 .. 1 + MaxPayload :
                    /\ prefix => n = BodyLength(incoming[cell.n])
                    /\ need' = n
              /\ UNCHANGED <<cut, phase>>
           \/ /\ prefix => oversized
              /\ cut' = TRUE /\ phase' = Failed
              /\ UNCHANGED need
    /\ UNCHANGED <<kind, setupVars, remoteVars, dkey, got, writeVars>>

\* The cells are the whole body of one message.
IsBody(cells) ==
    LET n == Head(cells).n
    IN  /\ \A j \in DOMAIN cells : cells[j].what = "message" /\ cells[j].n = n /\ cells[j].part = j
        /\ Len(cells) = BodyLength(incoming[n])

\* The bitfield loop goes on after KeepAlive, HAVE and extension messages only.
NextPhase(type) == IF type \in {"keepalive", "extra"} THEN phase ELSE "main"

\* Mutant of Rest: the body stays in read_buf.
RestUnsplit == buf

\* What is left of read_buf when the message is split off.
Rest == SubSeq(buf, need + 1, Len(buf))

\* decode() of the body; anything may come of cells that are not one body.
Decodes(body) ==
    IF body = <<>> THEN {"keepalive"}
    ELSE IF ~IsBody(body) THEN Types \cup {"refused"}
    ELSE LET m == incoming[Head(body).n]
         IN  {IF m.payload < MinPayload(m.type) THEN "refused" ELSE m.type}

\* fill() has the body: it is decoded, and split off in any case.
TakeMessage ==
    /\ Reading /\ need # None /\ ~Short
    /\ \E type \in Decodes(SubSeq(buf, 1, need)) :
          IF type = "refused"
          THEN phase' = Failed /\ UNCHANGED got
          ELSE /\ phase' = NextPhase(type)
               /\ got' = Append(got, [type |-> type, payload |-> IF need = 0 THEN 0 ELSE need - 1])
    /\ buf' = Rest
    /\ need' = None
    /\ UNCHANGED <<kind, setupVars, remoteVars, dkey, cut, writeVars>>

\* A timeout drops read_message, after its prefix was split off or before.
Timeout ==
    /\ Reading /\ Short /\ rx = <<>>
    /\ phase' = Failed
    /\ cut' = (cut \/ need # None)
    /\ need' = None
    /\ UNCHANGED <<kind, setupVars, remoteVars, dkey, buf, got, writeVars>>

\* read() returns 0: None between messages, an error in mid-message.
EndOfStream ==
    /\ Reading /\ Short /\ AtEOF
    /\ phase' = IF phase = "main" /\ need = None THEN "eof" ELSE Failed
    /\ cut' = (cut \/ need # None)
    /\ need' = None
    /\ UNCHANGED <<kind, setupVars, remoteVars, dkey, buf, got, writeVars>>

-----------------------------------------------------------------------------
(* PeerConn and MseStream: writing                                         *)

\* send(): write_all of an encoded message of one or two cells.
Send ==
    /\ at = "open" /\ phase = "main" /\ need = None /\ doing = "idle"
    /\ Len(sent) <= 2 * (MaxSends - 1)
    /\ \E n \in 1 .. 2 :
          out' = [j \in 1 .. n |-> Cell("ours", Len(sent) + j, 0, None)]
    /\ sent' = sent \o out'
    /\ doing' = "write"
    /\ UNCHANGED <<kind, setupVars, remoteVars, dkey, readVars, write_buf, wire, okey>>

\* The socket takes the first n cells.
Writes(cells, n) == wire' = wire \o SubSeq(cells, 1, n)

\* A plain stream: write_all polls until the socket has everything.
PollPlain ==
    /\ doing = "write" /\ ~encrypted
    /\ \E n \in 1 .. Len(out) :
          /\ Writes(out, n)
          /\ out' = SubSeq(out, n + 1, Len(out))
          /\ doing' = IF n = Len(out) THEN "idle" ELSE "write"
    /\ UNCHANGED <<kind, setupVars, remoteVars, dkey, readVars, write_buf, okey, sent>>

\* poll_write with a rest of the message before: that is written first.  If the socket
\* takes only part of it the result is Pending, and nothing will wake the task.
PollRest ==
    /\ doing = "write" /\ write_buf # <<>>
    /\ \E n \in 1 .. Len(write_buf) :
          /\ Writes(write_buf, n)
          /\ write_buf' = SubSeq(write_buf, n + 1, Len(write_buf))
          /\ doing' = IF n = Len(write_buf) THEN "write" ELSE "stuck"
    /\ UNCHANGED <<kind, setupVars, remoteVars, dkey, readVars, out, okey, sent>>

\* A waker that an abandoned read left with the socket may still wake the task.
WakeByChance ==
    /\ doing = "stuck" /\ doing' = "write"
    /\ UNCHANGED <<kind, setupVars, remoteVars, dkey, readVars, out, write_buf, wire, okey, sent>>

\* Mutant of Flushed: new data overwrites the rest of the message before.
FlushedAlways == TRUE

Flushed == write_buf = <<>>

\* The whole message is encrypted and reported as written, whatever the socket takes
\* of it; send() returns, and nothing flushes the rest before the next send.
PollWrite ==
    /\ doing = "write" /\ encrypted /\ Flushed
    /\ LET cells == [j \in DOMAIN out |-> [out[j] EXCEPT !.key = okey + j - 1]]
       IN  \E n \in 0 .. Len(cells) :
              /\ Writes(cells, n)
              /\ write_buf' = SubSeq(cells, n + 1, Len(cells))
    /\ okey' = okey + Len(out)
    /\ out' = <<>>
    /\ doing' = "idle"
    /\ UNCHANGED <<kind, setupVars, remoteVars, dkey, readVars, sent>>

-----------------------------------------------------------------------------

SetupStep ==
    \/ Connect \/ ConnectFailed \/ ReadKey \/ ReadSelect \/ ReadPadD \/ Negotiated
    \/ ReadHandshake \/ BadHandshake \/ SetupEOF \/ Reconnect

Answer == SayKey \/ SaySelect \/ SayHandshake

ReadStep == Receive \/ TakePrefix \/ TakeMessage \/ Timeout \/ EndOfStream

WriteStep == Send \/ PollPlain \/ PollRest \/ WakeByChance \/ PollWrite

Next == SetupStep \/ Answer \/ SayMessage \/ RemoteCloses \/ ReadStep \/ WriteStep

\* Our task is polled when it can run.  An honest remote side answers, and closes a
\* connection on which it waits for something that does not come.
Spec ==
    /\ Init /\ [][Next]_vars
    /\ WF_vars(SetupStep)
    /\ WF_vars(Honest /\ Answer)
    /\ WF_vars(Honest /\ RemoteCloses)

-----------------------------------------------------------------------------
(* Properties                                                              *)

\* An honest peer is always connected in the end, whatever it makes of MSE: padding
\* that read_dh_key does not skip garbles all that follows, lengths included, and a
\* random crypto_select may pass for RC4; but then the handshake fails and the plain
\* connection is tried.
HonestPeerConnects == Honest /\ at = "dh" ~> at = "open"

\* An open connection is one to a peer of our torrent, and our key stream is where
\* the remote's is for every cell on its way, although VC is never looked at.
OpenInStep ==
    at = "open" =>
        /\ kind \notin {"stranger", "silent"}
        /\ \A j \in DOMAIN rx : rx[j].key = IF encrypted THEN dkey + j - 1 ELSE None

\* For each n, those of the first n messages that decode() does not refuse.
Accepted(messages) ==
    LET upto[n \in 0 .. Len(messages)] ==
            IF n = 0 THEN <<>>
            ELSE IF messages[n].payload < MinPayload(messages[n].type) THEN upto[n - 1]
            ELSE Append(upto[n - 1], messages[n])
    IN  upto

\* What is read is what the remote side sent, message by message, unless a read was
\* given up between a prefix and its body, by a timeout or because the prefix was too
\* large, after which the bitfield loop goes on with the body as if it were a prefix; an
\* end of stream is only taken for a clean one when no message is left or cut short.
FramesInStep ==
    ~cut =>
        LET accepted == Accepted(incoming)[Len(incoming)]
        IN  /\ IsPrefix(got, accepted)
            /\ phase = "eof" => got = accepted

\* The socket gets our messages whole, in order and each cell encrypted where the
\* remote side decrypts it; what lags behind after a send belongs to the last message.
WireInOrder ==
    LET written == wire \o write_buf
    IN  /\ \A j \in DOMAIN written :
              /\ written[j].n = j
              /\ encrypted => written[j].key = j - 1
        /\ doing = "idle" => Len(written) = Len(sent) /\ Len(write_buf) <= 2
=============================================================================
