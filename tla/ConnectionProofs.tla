-------------------------- MODULE ConnectionProofs --------------------------
(***************************************************************************)
(* A connection is opened to the right peer and in step, what is read are  *)
(* the messages sent and what is written is in order, for any kinds of     *)
(* remote side, any number of messages and any length of them.             *)
(***************************************************************************)
EXTENDS Connection, DataLemmas

Labels == {"key", "pad", "select", "handshake", "message", "ours", "garbage"}

Cells == [what : Labels, n : Int, part : Int, key : Int]

-----------------------------------------------------------------------------
(* Writing: the inductive invariant.                                       *)

WriteTypeOK ==
    /\ out \in Seq(Cells) /\ write_buf \in Seq(Cells)
    /\ wire \in Seq(Cells) /\ sent \in Seq(Cells)
    /\ okey \in Nat
    /\ doing \in {"idle", "write", "stuck"}

\* The cells of s are our messages' from position m on, and encrypted at theirs.
Numbered(s, m, keyed) ==
    \A j \in 1 .. Len(s) : s[j].n = m + j /\ (keyed => s[j].key = m + j - 1)

\* What was sent is on the wire, in write_buf or still in out, in that order.
WriteInv ==
    /\ WriteTypeOK
    /\ Numbered(wire, 0, encrypted)
    /\ Numbered(write_buf, Len(wire), encrypted)
    /\ Numbered(out, Len(wire) + Len(write_buf), FALSE)
    /\ Len(sent) = Len(wire) + Len(write_buf) + Len(out)
    /\ encrypted => okey = Len(wire) + Len(write_buf)
    /\ ~encrypted => write_buf = <<>>
    /\ Len(write_buf) <= 2 /\ Len(out) <= 2
    /\ doing = "idle" <=> out = <<>>
    /\ at # "open" => sent = <<>> /\ okey = 0

-----------------------------------------------------------------------------
(* Connecting: the inductive invariant.                                    *)

Places == {"connect", "dh", "negotiate", "padD", "handshake", "reconnect", "open", "failed"}

SetupTypeOK ==
    /\ kind \in RemoteKinds /\ at \in Places
    /\ encrypted \in BOOLEAN /\ closed \in BOOLEAN /\ rc4 \in BOOLEAN
    /\ replies \in Nat /\ ekey \in Nat /\ dkey \in Nat /\ padD \in Nat
    /\ rx \in Seq(Cells)

\* Padding that is read for the VC leaves us one cell ahead of the remote side.
Lag == IF kind = "padded" THEN 1 ELSE 0

\* Before the DH key is read nothing is encrypted, and nothing but the key was said.
KeyExchange ==
    /\ at \in {"connect", "dh"} => ~encrypted /\ ekey = 0 /\ dkey = 0
    /\ at = "connect" => rx = <<>> /\ replies = 0
    /\ at = "dh" /\ rx # <<>> => KnowsMSE /\ replies = 1 /\ Len(rx) = 1 + Lag

\* Where the cells on their way were encrypted.
KeysFollow ==
    /\ ~encrypted => \A j \in 1 .. Len(rx) : rx[j].key = None
    /\ encrypted =>
          /\ KnowsMSE /\ replies >= 1 /\ (replies = 1 => ekey = 0)
          /\ kind = "stranger" => \A j \in 1 .. Len(rx) : rx[j].key = None
          /\ kind # "stranger" =>
                /\ \A j \in 1 .. Len(rx) : rx[j].key = dkey + j - 1 - Lag
                /\ ~closed => ekey = dkey + Len(rx) - Lag

\* Who never gets to be connected.
Strangers ==
    /\ kind = "stranger" => \A j \in 1 .. Len(rx) : rx[j].what = "handshake" => rx[j].n = 2
    /\ kind = "silent" => rx = <<>> /\ ~encrypted
    /\ at = "open" => kind \notin {"stranger", "silent"} /\ (encrypted => kind # "padded")

SetupInv == SetupTypeOK /\ KeyExchange /\ KeysFollow /\ Strangers

-----------------------------------------------------------------------------
(* Reading: the inductive invariant.                                       *)

\* In step, nothing is left over of a stage of the negotiation in the next one.
StagesFollow ==
    /\ at \in {"negotiate", "padD"} => encrypted
    /\ encrypted /\ kind \in {"mse", "plaintext"} =>
          /\ at = "negotiate" =>
                \/ replies = 1 /\ rx = <<>>
                \/ replies = 2 /\ rx # <<>> /\ rx[1].what = "select" /\ Len(rx) = 1 + rx[1].n
          /\ at = "padD" => replies = 2 /\ Len(rx) = padD
          /\ at = "handshake" => (replies = 2 /\ rx = <<>>) \/ (replies = 3 /\ Len(rx) <= 1)
          /\ at = "open" => replies >= 2
    /\ ~encrypted /\ at = "handshake" =>
          (replies = 0 /\ rx = <<>>) \/ (replies = 1 /\ Len(rx) <= 1)

MessageSet == [type : MessageTypes, payload : Nat]

MessagesOK ==
    /\ incoming \in Seq(MessageSet)
    /\ \A n \in 1 .. Len(incoming) : incoming[n].type = "keepalive" => incoming[n].payload = 0

Untouched ==
    incoming = <<>> /\ buf = <<>> /\ need = None /\ got = <<>> /\ phase = "initial"

\* The place after the place p of a stream of the messages ms.
After(ms, p) ==
    IF p[2] < BodyLength(ms[p[1]]) THEN <<p[1], p[2] + 1>> ELSE <<p[1] + 1, 0>>

PlaceOf(cell) == <<cell.n, cell.part>>

\* The places of the cells s, and the place e that comes next.
PlacesOf(s, e) == [j \in 1 .. Len(s) + 1 |-> IF j <= Len(s) THEN PlaceOf(s[j]) ELSE e]

\* The cells s are at places that follow each other, from p on, and e comes next.
Chain(ms, s, p, e) ==
    /\ PlacesOf(s, e)[1] = p
    /\ \A j \in 1 .. Len(s) : PlacesOf(s, e)[j + 1] = After(ms, PlacesOf(s, e)[j])
    /\ \A j \in 1 .. Len(s) :
          /\ s[j].what = "message" /\ s[j].n \in 1 .. Len(ms)
          /\ s[j].part \in 0 .. BodyLength(ms[s[j].n])
    /\ \A i, j \in 1 .. Len(s) : i < j /\ s[i].n = s[j].n => s[i].part < s[j].part

\* Where the stream ends: after a message, or inside the last one if it was cut off.
Ends(ms, over) ==
    {<<Len(ms) + 1, 0>>} \cup
        IF over /\ ms # <<>> THEN {<<Len(ms), q>> : q \in 1 .. BodyLength(ms[Len(ms)])} ELSE {}

\* The place of the cell awaited when n messages were read.
Awaited(ms, body, n) == IF body = None THEN <<n + 1, 0>> ELSE After(ms, <<n + 1, 0>>)

\* The first n messages were read, and the cells after them are here or on their way.
InFrame(n) ==
    /\ need # None => n < Len(incoming) /\ need = BodyLength(incoming[n + 1])
    /\ got = Accepted(incoming)[n]
    /\ phase = "eof" => closed /\ n = Len(incoming)
    /\ \E e \in Ends(incoming, closed) :
          Chain(incoming, buf \o rx, Awaited(incoming, need, n), e)

StreamInv == at = "open" /\ ~cut => buf \in Seq(Cells) /\ \E n \in 0 .. Len(incoming) : InFrame(n)

\* The three are inductive with SetupInv and MessagesOK.
ReadInv ==
    /\ StagesFollow
    /\ at # "open" => Untouched
    /\ StreamInv

-----------------------------------------------------------------------------
(* Writing: the proof.                                                     *)

LEMMA NoCells == <<>> \in Seq(Cells) /\ Len(<<>>) = 0
OBVIOUS

LEMMA WriteInvInit == Init => WriteInv
<1> SUFFICES ASSUME Init PROVE WriteInv
  OBVIOUS
<1>1. out = <<>> /\ write_buf = <<>> /\ wire = <<>> /\ sent = <<>> /\ okey = 0 /\ doing = "idle"
  BY DEF Init
<1> QED BY <1>1, NoCells DEF WriteInv, WriteTypeOK, Numbered

\* Only the writing itself changes what is written, and an open connection stays so.
LEMMA OthersDoNotWrite ==
    ASSUME SetupStep \/ Answer \/ SayMessage \/ RemoteCloses \/ ReadStep
    PROVE  UNCHANGED writeVars /\ (at = "open" => at' = "open" /\ encrypted' = encrypted)
<1>1. CASE SetupStep
  BY <1>1 DEF SetupStep, Connect, ConnectFailed, ReadKey, ReadSelect, ReadPadD, Negotiated,
     ReadHandshake, BadHandshake, SetupEOF, Reconnect
<1>2. CASE Answer
  BY <1>2 DEF Answer, SayKey, SaySelect, SayHandshake, Says, setupVars
<1>3. CASE SayMessage
  BY <1>3 DEF SayMessage, Says, setupVars
<1>4. CASE RemoteCloses
  BY <1>4 DEF RemoteCloses, setupVars
<1>5. CASE ReadStep
  BY <1>5 DEF ReadStep, Receive, TakePrefix, TakeMessage, Timeout, EndOfStream, setupVars
<1> QED BY <1>1, <1>2, <1>3, <1>4, <1>5

LEMMA WriteInvFramed ==
    ASSUME WriteInv, UNCHANGED writeVars, at = "open" => at' = "open" /\ encrypted' = encrypted
    PROVE  WriteInv'
<1>1. /\ out' = out /\ write_buf' = write_buf /\ wire' = wire /\ sent' = sent
      /\ okey' = okey /\ doing' = doing
  BY DEF writeVars
<1>2. CASE at = "open"
  BY <1>1, <1>2 DEF WriteInv, WriteTypeOK, Numbered
<1>3. CASE at # "open"
  <2>1. sent = <<>> /\ Len(sent) = 0
    BY <1>3, NoCells DEF WriteInv
  <2>2. Len(wire) = 0 /\ Len(write_buf) = 0 /\ Len(out) = 0
    BY <2>1 DEF WriteInv, WriteTypeOK
  <2>3. wire = <<>> /\ write_buf = <<>> /\ out = <<>>
    BY <2>2 DEF WriteInv, WriteTypeOK
  <2>4. okey = 0
    BY <1>3 DEF WriteInv
  <2> QED BY <1>1, <2>1, <2>2, <2>3, <2>4 DEF WriteInv, WriteTypeOK, Numbered
<1> QED BY <1>2, <1>3

\* a2 and b2 come of a and b when the first n cells of b are moved to the end of a.
Move(a, b, n, keyed, a2, b2) ==
    /\ a2 \in Seq(Cells) /\ b2 \in Seq(Cells)
    /\ Len(a2) = Len(a) + n /\ Len(b2) = Len(b) - n
    /\ Numbered(a2, 0, keyed) /\ Numbered(b2, Len(a) + n, keyed)

LEMMA Moved ==
    ASSUME NEW a \in Seq(Cells), NEW b \in Seq(Cells), NEW n \in 0 .. Len(b),
           NEW keyed, Numbered(a, 0, keyed), Numbered(b, Len(a), keyed)
    PROVE  Move(a, b, n, keyed, a \o SubSeq(b, 1, n), SubSeq(b, n + 1, Len(b)))
<1> DEFINE h == SubSeq(b, 1, n)
           t == SubSeq(b, n + 1, Len(b))
           c == a \o h
<1>1. Cut(Cells, b, n, h, t)
  BY Split
<1> HIDE DEF h, t
<1>2. h \in Seq(Cells) /\ Len(h) = n /\ t \in Seq(Cells) /\ Len(t) = Len(b) - n
  BY <1>1 DEF Cut
<1>3. Join(Cells, a, h, c)
  BY <1>2, Concatenated
<1> HIDE DEF c
<1>4. /\ c \in Seq(Cells) /\ Len(c) = Len(a) + n
      /\ \A k \in 1 .. Len(a) : c[k] = a[k]
      /\ \A k \in 1 .. n : c[Len(a) + k] = b[k]
  BY <1>1, <1>2, <1>3 DEF Join, Cut
<1>5. Len(a) \in Nat /\ Len(b) \in Nat /\ n \in Nat /\ n <= Len(b)
  OBVIOUS
<1>6. ASSUME NEW j \in 1 .. Len(a) + n
      PROVE  c[j].n = 0 + j /\ (keyed => c[j].key = 0 + j - 1)
  <2>1. CASE j <= Len(a)
    <3>1. j \in 1 .. Len(a) /\ c[j] = a[j]
      BY <1>4, <1>5, <2>1
    <3> QED BY <3>1 DEF Numbered
  <2>2. CASE ~ (j <= Len(a))
    <3>1. PICK k \in 1 .. n : j = Len(a) + k
      <4>1. j - Len(a) \in 1 .. n /\ j = Len(a) + (j - Len(a))
        BY <1>5, <2>2
      <4> QED BY <4>1
    <3>2. k \in 1 .. Len(b) /\ c[j] = b[k]
      BY <1>4, <1>5, <3>1
    <3>3. b[k].n = Len(a) + k /\ (keyed => b[k].key = Len(a) + k - 1)
      BY <3>2 DEF Numbered
    <3> QED BY <1>5, <3>1, <3>2, <3>3
  <2> QED BY <2>1, <2>2
<1>7. ASSUME NEW j \in 1 .. Len(b) - n
      PROVE  t[j].n = Len(a) + n + j /\ (keyed => t[j].key = Len(a) + n + j - 1)
  <2>1. n + j \in 1 .. Len(b) /\ t[j] = b[n + j]
    BY <1>1, <1>5 DEF Cut
  <2>2. b[n + j].n = Len(a) + (n + j) /\ (keyed => b[n + j].key = Len(a) + (n + j) - 1)
    BY <2>1 DEF Numbered
  <2> QED BY <1>5, <2>1, <2>2
<1>8. Numbered(c, 0, keyed) /\ Numbered(t, Len(a) + n, keyed)
  BY <1>2, <1>4, <1>6, <1>7 DEF Numbered
<1> QED BY <1>2, <1>4, <1>8 DEF c, h, t, Move

\* While something is being written, the connection is open.
LEMMA WritingIsOpen ==
    ASSUME WriteInv, doing # "idle"
    PROVE  at = "open" /\ out # <<>> /\ Len(out) >= 1
<1>1. out # <<>> /\ out \in Seq(Cells)
  BY DEF WriteInv, WriteTypeOK
<1>2. Len(out) >= 1
  BY <1>1
<1>3. Len(sent) >= 1
  BY <1>2 DEF WriteInv, WriteTypeOK
<1>4. sent # <<>>
  BY <1>3, NoCells
<1> QED BY <1>1, <1>2, <1>4 DEF WriteInv

LEMMA WriteInvSend ==
    ASSUME WriteInv, Send
    PROVE  WriteInv'
<1>1. PICK n \in 1 .. 2 : out' = [j \in 1 .. n |-> Cell("ours", Len(sent) + j, 0, None)]
  BY DEF Send
<1>2. /\ sent' = sent \o out' /\ doing' = "write" /\ at = "open" /\ doing = "idle"
      /\ at' = at /\ encrypted' = encrypted
      /\ write_buf' = write_buf /\ wire' = wire /\ okey' = okey
  BY DEF Send, setupVars
<1>3. out = <<>> /\ Len(out) = 0
  BY <1>2, NoCells DEF WriteInv
<1>4. /\ sent \in Seq(Cells) /\ Len(sent) \in Nat /\ Len(wire) \in Nat /\ Len(write_buf) \in Nat
      /\ Len(sent) = Len(wire) + Len(write_buf)
  BY <1>3 DEF WriteInv, WriteTypeOK
<1>5. \A j \in 1 .. n : Cell("ours", Len(sent) + j, 0, None) \in Cells
  BY <1>4 DEF Cell, Cells, Labels, None
<1>6. out' \in Seq(Cells) /\ Len(out') = n
  BY <1>1, <1>5
<1>7. \A j \in 1 .. n : out'[j].n = Len(wire) + Len(write_buf) + j
  BY <1>1, <1>4 DEF Cell
<1>8. Numbered(out', Len(wire) + Len(write_buf), FALSE)
  BY <1>6, <1>7 DEF Numbered
<1>9. sent' \in Seq(Cells) /\ Len(sent') = Len(wire) + Len(write_buf) + Len(out') /\ out' # <<>>
  <2>1. out' # <<>>
    BY <1>6, NoCells
  <2> QED BY <1>2, <1>4, <1>6, <2>1, Concatenated
<1> QED BY <1>2, <1>4, <1>6, <1>8, <1>9 DEF WriteInv, WriteTypeOK, Numbered

LEMMA WriteInvPollPlain ==
    ASSUME WriteInv, PollPlain
    PROVE  WriteInv'
<1>1. PICK n \in 1 .. Len(out) :
         /\ wire' = wire \o SubSeq(out, 1, n)
         /\ out' = SubSeq(out, n + 1, Len(out))
         /\ doing' = IF n = Len(out) THEN "idle" ELSE "write"
  BY DEF PollPlain, Writes
<1>2. /\ doing = "write" /\ ~encrypted /\ at' = at /\ encrypted' = encrypted
      /\ write_buf' = write_buf /\ okey' = okey /\ sent' = sent
  BY DEF PollPlain, setupVars
<1>3. at = "open" /\ write_buf = <<>> /\ Len(write_buf) = 0
  BY <1>2, WritingIsOpen, NoCells DEF WriteInv
<1>4. /\ wire \in Seq(Cells) /\ out \in Seq(Cells) /\ Len(wire) \in Nat /\ Len(out) \in Nat
      /\ Numbered(wire, 0, FALSE) /\ Numbered(out, Len(wire), FALSE)
      /\ Len(sent) = Len(wire) + Len(out) /\ Len(out) <= 2
  BY <1>3 DEF WriteInv, WriteTypeOK, Numbered
<1>5. n \in 0 .. Len(out) /\ FALSE \in BOOLEAN
  BY <1>4
<1>6. /\ wire' \in Seq(Cells) /\ out' \in Seq(Cells)
      /\ Len(wire') = Len(wire) + n /\ Len(out') = Len(out) - n
      /\ Numbered(wire', 0, FALSE) /\ Numbered(out', Len(wire) + n, FALSE)
  <2>1. Move(wire, out, n, FALSE, wire \o SubSeq(out, 1, n), SubSeq(out, n + 1, Len(out)))
    BY <1>4, <1>5, Moved
  <2> QED BY <1>1, <2>1 DEF Move
<1>7. /\ Numbered(write_buf', Len(wire'), encrypted') /\ Numbered(wire', 0, encrypted')
      /\ Numbered(out', Len(wire') + Len(write_buf'), FALSE)
  BY <1>2, <1>3, <1>4, <1>6 DEF Numbered
<1>8. doing' = "idle" <=> out' = <<>>
  <2>1. Len(out') = 0 <=> out' = <<>>
    BY <1>6
  <2>2. n = Len(out) <=> Len(out') = 0
    BY <1>4, <1>6
  <2> QED BY <1>1, <2>1, <2>2
<1>9. Len(sent') = Len(wire') + Len(write_buf') + Len(out')
  BY <1>2, <1>3, <1>4, <1>6
<1>10. WriteTypeOK' /\ Len(write_buf') <= 2 /\ Len(out') <= 2
  BY <1>1, <1>2, <1>3, <1>4, <1>6 DEF WriteInv, WriteTypeOK
<1> QED BY <1>2, <1>3, <1>7, <1>8, <1>9, <1>10 DEF WriteInv

LEMMA WriteInvPollRest ==
    ASSUME WriteInv, PollRest
    PROVE  WriteInv'
<1>1. PICK n \in 1 .. Len(write_buf) :
         /\ wire' = wire \o SubSeq(write_buf, 1, n)
         /\ write_buf' = SubSeq(write_buf, n + 1, Len(write_buf))
         /\ doing' = IF n = Len(write_buf) THEN "write" ELSE "stuck"
  BY DEF PollRest, Writes
<1>2. /\ doing = "write" /\ write_buf # <<>> /\ at' = at /\ encrypted' = encrypted
      /\ out' = out /\ okey' = okey /\ sent' = sent
  BY DEF PollRest, setupVars
<1>3. at = "open" /\ encrypted /\ out # <<>>
  BY <1>2, WritingIsOpen DEF WriteInv
<1>4b. /\ Numbered(wire, 0, encrypted) /\ Numbered(write_buf, Len(wire), encrypted)
      /\ Numbered(out, Len(wire) + Len(write_buf), FALSE)
  BY DEF WriteInv
<1>4. /\ wire \in Seq(Cells) /\ write_buf \in Seq(Cells) /\ Len(wire) \in Nat
      /\ Len(write_buf) \in Nat /\ Len(out) \in Nat
      /\ Len(sent) = Len(wire) + Len(write_buf) + Len(out) /\ Len(write_buf) <= 2
  BY DEF WriteInv, WriteTypeOK
<1>4a. okey = Len(wire) + Len(write_buf)
  BY <1>3 DEF WriteInv
<1>5. n \in 0 .. Len(write_buf) /\ TRUE \in BOOLEAN /\ Numbered(wire, 0, TRUE)
      /\ Numbered(write_buf, Len(wire), TRUE)
  BY <1>3, <1>4, <1>4b DEF Numbered
<1>6. /\ wire' \in Seq(Cells) /\ write_buf' \in Seq(Cells)
      /\ Len(wire') = Len(wire) + n /\ Len(write_buf') = Len(write_buf) - n
      /\ Numbered(wire', 0, TRUE) /\ Numbered(write_buf', Len(wire) + n, TRUE)
  <2>1. Move(wire, write_buf, n, TRUE, wire \o SubSeq(write_buf, 1, n), SubSeq(write_buf, n + 1, Len(write_buf)))
    BY <1>4, <1>5, Moved
  <2> QED BY <1>1, <2>1 DEF Move
<1>7. Len(wire') + Len(write_buf') = Len(wire) + Len(write_buf) /\ Len(write_buf') <= 2
  BY <1>4, <1>6
<1>8. /\ Numbered(write_buf', Len(wire'), encrypted') /\ Numbered(wire', 0, encrypted')
      /\ Numbered(out', Len(wire') + Len(write_buf'), FALSE)
  BY <1>2, <1>3, <1>4, <1>4b, <1>6, <1>7 DEF Numbered
<1>9. WriteTypeOK' /\ doing' # "idle"
  BY <1>1, <1>2, <1>6 DEF WriteInv, WriteTypeOK
<1>10. okey' = Len(wire') + Len(write_buf') /\ Len(sent') = Len(wire') + Len(write_buf') + Len(out')
       /\ Len(out') <= 2
  BY <1>2, <1>4, <1>4a, <1>7 DEF WriteInv
<1> QED BY <1>2, <1>3, <1>4, <1>4b, <1>7, <1>8, <1>9, <1>10 DEF WriteInv

LEMMA WriteInvPollWrite ==
    ASSUME WriteInv, PollWrite
    PROVE  WriteInv'
<1> DEFINE cells == [j \in DOMAIN out |-> [out[j] EXCEPT !.key = okey + j - 1]]
<1>1. PICK n \in 0 .. Len(cells) :
         /\ wire' = wire \o SubSeq(cells, 1, n)
         /\ write_buf' = SubSeq(cells, n + 1, Len(cells))
  BY DEF PollWrite, Writes
<1>2. /\ doing = "write" /\ encrypted /\ write_buf = <<>> /\ okey' = okey + Len(out)
      /\ out' = <<>> /\ doing' = "idle" /\ sent' = sent /\ at' = at /\ encrypted' = encrypted
  BY DEF PollWrite, Flushed, setupVars
<1>3. at = "open" /\ Len(write_buf) = 0
  BY <1>2, WritingIsOpen, NoCells DEF WriteInv
<1>4. /\ wire \in Seq(Cells) /\ out \in Seq(Cells) /\ Len(wire) \in Nat /\ Len(out) \in Nat
      /\ DOMAIN out = 1 .. Len(out) /\ Numbered(wire, 0, TRUE) /\ Numbered(out, Len(wire), FALSE)
      /\ Len(sent) = Len(wire) + Len(out) /\ Len(out) <= 2 /\ okey = Len(wire)
  BY <1>2, <1>3 DEF WriteInv, WriteTypeOK, Numbered
<1>5. ASSUME NEW j \in 1 .. Len(out)
      PROVE  /\ [out[j] EXCEPT !.key = okey + j - 1] \in Cells
             /\ [out[j] EXCEPT !.key = okey + j - 1].n = Len(wire) + j
             /\ [out[j] EXCEPT !.key = okey + j - 1].key = Len(wire) + j - 1
  <2>1. out[j] \in Cells /\ out[j].n = Len(wire) + j /\ okey + j - 1 \in Int
    BY <1>4 DEF Numbered
  <2> QED BY <1>4, <2>1 DEF Cells
<1>6. cells \in Seq(Cells) /\ Len(cells) = Len(out) /\ Numbered(cells, Len(wire), TRUE)
  <2>1. cells = [j \in 1 .. Len(out) |-> [out[j] EXCEPT !.key = okey + j - 1]]
    BY <1>4
  <2>2. cells \in Seq(Cells) /\ Len(cells) = Len(out)
    BY <1>4, <1>5, <2>1
  <2>3. \A j \in 1 .. Len(out) : cells[j] = [out[j] EXCEPT !.key = okey + j - 1]
    BY <2>1
  <2> HIDE DEF cells
  <2> QED BY <1>5, <2>2, <2>3 DEF Numbered
<1> HIDE DEF cells
<1>7. n \in 0 .. Len(cells) /\ TRUE \in BOOLEAN
  BY <1>1
<1>8. /\ wire' \in Seq(Cells) /\ write_buf' \in Seq(Cells)
      /\ Len(wire') = Len(wire) + n /\ Len(write_buf') = Len(out) - n
      /\ Numbered(wire', 0, TRUE) /\ Numbered(write_buf', Len(wire) + n, TRUE)
  <2>1. Move(wire, cells, n, TRUE, wire \o SubSeq(cells, 1, n), SubSeq(cells, n + 1, Len(cells)))
    BY <1>4, <1>6, <1>7, Moved
  <2> QED BY <1>1, <2>1, <1>6 DEF Move
<1>9. n \in Int /\ n >= 0 /\ n <= Len(out)
  BY <1>4, <1>6, <1>7
<1>10. Len(wire') + Len(write_buf') = Len(wire) + Len(out) /\ Len(write_buf') <= 2
      /\ okey' = Len(wire') + Len(write_buf') /\ okey' \in Nat
  BY <1>2, <1>4, <1>8, <1>9
<1>11. /\ Numbered(write_buf', Len(wire'), encrypted') /\ Numbered(wire', 0, encrypted')
       /\ Numbered(out', Len(wire') + Len(write_buf'), FALSE) /\ Len(out') = 0
  BY <1>2, <1>4, <1>8, NoCells DEF Numbered
<1>12. Len(sent') = Len(wire') + Len(write_buf') + Len(out') /\ Len(out') <= 2
  BY <1>2, <1>4, <1>9, <1>8, <1>10, <1>11
<1>13. WriteTypeOK'
  BY <1>2, <1>8, <1>10, NoCells DEF WriteInv, WriteTypeOK
<1> QED BY <1>2, <1>3, <1>10, <1>11, <1>12, <1>13 DEF WriteInv

LEMMA WriteInvWake ==
    ASSUME WriteInv, WakeByChance
    PROVE  WriteInv'
BY DEF WriteInv, WriteTypeOK, Numbered, WakeByChance, setupVars

LEMMA WriteInvStep ==
    ASSUME WriteInv, [Next]_vars
    PROVE  WriteInv'
<1>1. CASE SetupStep \/ Answer \/ SayMessage \/ RemoteCloses \/ ReadStep
  BY <1>1, OthersDoNotWrite, WriteInvFramed
<1>2. CASE WriteStep
  BY <1>2, WriteInvSend, WriteInvPollPlain, WriteInvPollRest, WriteInvWake, WriteInvPollWrite
     DEF WriteStep
<1>3. CASE UNCHANGED vars
  BY <1>3, WriteInvFramed DEF vars, setupVars
<1> QED BY <1>1, <1>2, <1>3 DEF Next

LEMMA WriteInvImplies == WriteInv => WireInOrder
<1> SUFFICES ASSUME WriteInv PROVE WireInOrder
  OBVIOUS
<1> DEFINE written == wire \o write_buf
<1>1. wire \in Seq(Cells) /\ write_buf \in Seq(Cells) /\ Len(wire) \in Nat /\ Len(write_buf) \in Nat
  BY DEF WriteInv, WriteTypeOK
<1>2. Join(Cells, wire, write_buf, written)
  BY <1>1, Concatenated
<1> HIDE DEF written
<1>3. /\ written \in Seq(Cells) /\ Len(written) = Len(wire) + Len(write_buf)
      /\ DOMAIN written = 1 .. Len(wire) + Len(write_buf)
      /\ \A k \in 1 .. Len(wire) : written[k] = wire[k]
      /\ \A k \in 1 .. Len(write_buf) : written[Len(wire) + k] = write_buf[k]
  BY <1>2 DEF Join
<1>4. ASSUME NEW j \in 1 .. Len(wire) + Len(write_buf)
      PROVE  written[j].n = j /\ (encrypted => written[j].key = j - 1)
  <2>1. CASE j <= Len(wire)
    <3>1. j \in 1 .. Len(wire) /\ written[j] = wire[j]
      BY <1>1, <1>3, <2>1
    <3>2. wire[j].n = 0 + j /\ (encrypted => wire[j].key = 0 + j - 1)
      BY <3>1 DEF WriteInv, Numbered
    <3> QED BY <1>1, <3>1, <3>2
  <2>2. CASE ~ (j <= Len(wire))
    <3>1. PICK k \in 1 .. Len(write_buf) : j = Len(wire) + k
      <4>1. j - Len(wire) \in 1 .. Len(write_buf) /\ j = Len(wire) + (j - Len(wire))
        BY <1>1, <2>2
      <4> QED BY <4>1
    <3>2. write_buf[k].n = Len(wire) + k /\ (encrypted => write_buf[k].key = Len(wire) + k - 1)
      BY DEF WriteInv, Numbered
    <3> QED BY <1>3, <3>1, <3>2
  <2> QED BY <2>1, <2>2
<1>5. doing = "idle" => Len(written) = Len(sent) /\ Len(write_buf) <= 2
  <2>1. doing = "idle" => Len(out) = 0
    BY NoCells DEF WriteInv
  <2> QED BY <1>1, <1>3, <2>1 DEF WriteInv
<1> QED BY <1>3, <1>4, <1>5 DEF WireInOrder, written

\* Whatever parts of it the socket takes, and however writes and the rests of earlier
\* ones interleave: the socket has our messages whole, in order, and encrypted at the
\* positions at which the remote side decrypts them (MseStream::poll_write).
THEOREM WireIsInOrder == Spec => []WireInOrder
<1>1. Spec => []WriteInv
  BY WriteInvInit, WriteInvStep, PTL DEF Spec
<1> QED BY <1>1, WriteInvImplies, PTL

-----------------------------------------------------------------------------
(* Connecting: the proof.                                                  *)

LEMMA SetupInvInit == Init => SetupInv
<1> SUFFICES ASSUME Init PROVE SetupInv
  OBVIOUS
<1>1. kind \in RemoteKinds
  BY ConnectionConstants DEF Init
<1>2. /\ at = "connect" /\ encrypted = FALSE /\ rx = <<>> /\ closed = FALSE /\ replies = 0
      /\ ekey = 0 /\ dkey = 0 /\ rc4 = FALSE /\ padD = 0
  BY DEF Init
<1>3. SetupTypeOK
  BY <1>1, <1>2, NoCells DEF SetupTypeOK, Places
<1>4. KeyExchange /\ KeysFollow /\ Strangers
  BY <1>2, NoCells DEF KeyExchange, KeysFollow, Strangers
<1> QED BY <1>3, <1>4 DEF SetupInv

LEMMA SetupInvFramed ==
    ASSUME SetupInv, UNCHANGED <<kind, at, encrypted, rc4, padD, rx, closed, replies, ekey, dkey>>
    PROVE  SetupInv'
BY DEF SetupInv, SetupTypeOK, KeyExchange, KeysFollow, Strangers, KnowsMSE, Lag

\* Moving on without a word said or read.
LEMMA SetupInvMoved ==
    ASSUME SetupInv, UNCHANGED <<kind, encrypted, rc4, padD, rx, closed, replies, ekey, dkey>>,
           at' \in {"handshake", "reconnect", "failed"}
    PROVE  SetupInv'
BY DEF SetupInv, SetupTypeOK, KeyExchange, KeysFollow, Strangers, KnowsMSE, Lag, Places

LEMMA SetupInvConnect ==
    ASSUME SetupInv, Connect
    PROVE  SetupInv'
BY DEF SetupInv, SetupTypeOK, KeyExchange, KeysFollow, Strangers, KnowsMSE, Lag, Places,
   Connect, remoteVars

LEMMA SetupInvReconnect ==
    ASSUME SetupInv, Reconnect
    PROVE  SetupInv'
<1>1. /\ at' = "handshake" /\ encrypted' = FALSE /\ rx' = <<>> /\ closed' = FALSE /\ replies' = 0
      /\ ekey' = 0 /\ kind' = kind /\ rc4' = rc4 /\ padD' = padD /\ dkey' = dkey
  BY DEF Reconnect
<1>2. SetupTypeOK'
  BY <1>1, NoCells DEF SetupInv, SetupTypeOK, Places
<1>3. KeyExchange' /\ KeysFollow' /\ Strangers'
  BY <1>1, NoCells DEF KeyExchange, KeysFollow, Strangers
<1> QED BY <1>2, <1>3 DEF SetupInv

\* Cells are read and the key streams stay as far apart as they were.
LEMMA Taking ==
    ASSUME SetupInv, NEW n \in Nat \ {0}, Take(n), UNCHANGED <<kind, encrypted>>
    PROVE  /\ rx' \in Seq(Cells) /\ Cut(Cells, rx, n, SubSeq(rx, 1, n), rx')
           /\ dkey' \in Nat /\ Len(rx') = Len(rx) - n /\ rx # <<>>
           /\ UNCHANGED <<closed, replies, ekey, incoming>>
           /\ KeysFollow'
           /\ kind' = "stranger" => \A j \in 1 .. Len(rx') : rx'[j].what = "handshake" => rx'[j].n = 2
           /\ kind' # "silent"
<1>1. /\ n <= Len(rx) /\ rx' = SubSeq(rx, n + 1, Len(rx))
      /\ dkey' = (IF encrypted THEN dkey + n ELSE dkey)
      /\ UNCHANGED <<closed, replies, ekey, incoming, kind, encrypted>>
  BY DEF Take
<1>2. /\ rx \in Seq(Cells) /\ Len(rx) \in Nat /\ dkey \in Nat /\ ekey \in Nat /\ encrypted \in BOOLEAN
  BY DEF SetupInv, SetupTypeOK
<1>3. n \in 0 .. Len(rx)
  BY <1>1, <1>2
<1>4. Cut(Cells, rx, n, SubSeq(rx, 1, n), rx')
  BY <1>1, <1>2, <1>3, Split
<1>5. /\ rx' \in Seq(Cells) /\ Len(rx') = Len(rx) - n
      /\ \A k \in 1 .. Len(rx) - n : rx'[k] = rx[n + k]
  BY <1>4 DEF Cut
<1>6. \A k \in 1 .. Len(rx') : n + k \in 1 .. Len(rx) /\ rx'[k] = rx[n + k]
  BY <1>2, <1>5
<1>7. dkey' \in Nat
  BY <1>1, <1>2
<1>8. KeysFollow'
  <2>1. CASE ~encrypted
    BY <1>1, <1>6, <2>1 DEF SetupInv, KeysFollow
  <2>2. CASE encrypted
    <3>1. KnowsMSE' /\ replies' >= 1 /\ (replies' = 1 => ekey' = 0) /\ encrypted'
      BY <1>1, <2>2 DEF SetupInv, KeysFollow, KnowsMSE
    <3>2. kind = "stranger" => \A j \in 1 .. Len(rx') : rx'[j].key = None
      BY <1>6, <2>2 DEF SetupInv, KeysFollow
    <3>3. ASSUME kind # "stranger"
          PROVE  /\ \A j \in 1 .. Len(rx') : rx'[j].key = dkey' + j - 1 - Lag
                 /\ ~closed => ekey = dkey' + Len(rx') - Lag
      <4>1. Lag \in {0, 1} /\ dkey' = dkey + n
        BY <1>1, <2>2 DEF Lag
      <4>2. /\ \A j \in 1 .. Len(rx) : rx[j].key = dkey + j - 1 - Lag
            /\ ~closed => ekey = dkey + Len(rx) - Lag
        BY <2>2, <3>3 DEF SetupInv, KeysFollow
      <4>3. ASSUME NEW j \in 1 .. Len(rx') PROVE rx'[j].key = dkey' + j - 1 - Lag
        <5>1. n + j \in 1 .. Len(rx) /\ rx'[j] = rx[n + j]
          BY <1>6
        <5>2. rx[n + j].key = dkey + (n + j) - 1 - Lag
          BY <4>2, <5>1
        <5>3. j \in Nat
          BY <1>5
        <5> QED BY <1>2, <4>1, <5>1, <5>2, <5>3
      <4>4. ~closed => ekey = dkey' + Len(rx') - Lag
        <5>1. SUFFICES ASSUME ~closed PROVE ekey = dkey' + Len(rx') - Lag
          OBVIOUS
        <5>2. ekey = dkey + Len(rx) - Lag
          BY <4>2, <5>1
        <5>3. Len(rx') = Len(rx) - n
          BY <1>5
        <5> QED BY <1>2, <4>1, <5>2, <5>3
      <4> QED BY <4>3, <4>4
    <3>4. Lag' = Lag
      BY <1>1 DEF Lag
    <3> QED BY <1>1, <2>2, <3>1, <3>2, <3>3, <3>4 DEF KeysFollow
  <2> QED BY <2>1, <2>2
<1>9. kind' = "stranger" => \A j \in 1 .. Len(rx') : rx'[j].what = "handshake" => rx'[j].n = 2
  BY <1>1, <1>6 DEF SetupInv, Strangers
<1>10. rx # <<>> /\ kind' # "silent"
  <2>1. rx # <<>>
    BY <1>1, NoCells
  <2> QED BY <1>1, <2>1 DEF SetupInv, Strangers
<1> QED BY <1>1, <1>4, <1>5, <1>7, <1>8, <1>9, <1>10


\* The first cell, if it is anything decrypted.
LEMMA Decrypted ==
    ASSUME SetupInv, rx # <<>>, Decrypt(Head(rx), 1).what # "garbage"
    PROVE  /\ Decrypt(Head(rx), 1) = rx[1]
           /\ 1 \in 1 .. Len(rx)
           /\ encrypted => rx[1].key = dkey /\ kind \in {"mse", "plaintext"}
<1>1. rx \in Seq(Cells) /\ Len(rx) >= 1 /\ Head(rx) = rx[1] /\ dkey \in Nat /\ kind \in RemoteKinds
  BY DEF SetupInv, SetupTypeOK
<1>2. rx[1].key = (IF encrypted THEN dkey + 1 - 1 ELSE None)
  BY <1>1 DEF Decrypt, Garbage, Cell
<1>3. Decrypt(Head(rx), 1) = rx[1]
  BY <1>1, <1>2 DEF Decrypt
<1>4. ASSUME encrypted PROVE rx[1].key = dkey /\ kind \in {"mse", "plaintext"}
  <2>1. rx[1].key = dkey /\ dkey # None
    BY <1>1, <1>2, <1>4 DEF None
  <2>2. kind # "stranger"
    BY <1>1, <1>4, <2>1 DEF SetupInv, KeysFollow
  <2>3. rx[1].key = dkey + 1 - 1 - Lag
    BY <1>1, <1>4, <2>2 DEF SetupInv, KeysFollow
  <2>4. kind # "padded"
    BY <1>1, <2>1, <2>3 DEF Lag
  <2> QED BY <1>1, <1>4, <2>1, <2>2, <2>4 DEF SetupInv, KeysFollow, KnowsMSE
<1> QED BY <1>1, <1>3, <1>4

\* Reading a reply on the way to the handshake.
LEMMA SetupInvTaken ==
    ASSUME SetupInv, Take(1), UNCHANGED <<kind, encrypted>>,
           at' \in {"padD", "handshake", "reconnect", "failed"},
           rc4' \in BOOLEAN, padD' \in Nat
    PROVE  SetupInv'
<1>1. /\ rx' \in Seq(Cells) /\ dkey' \in Nat /\ UNCHANGED <<closed, replies, ekey>>
      /\ KeysFollow' /\ kind' # "silent"
      /\ kind' = "stranger" => \A j \in 1 .. Len(rx') : rx'[j].what = "handshake" => rx'[j].n = 2
  BY Taking
<1>2. SetupTypeOK'
  BY <1>1 DEF SetupInv, SetupTypeOK, Places
<1> QED BY <1>1, <1>2 DEF SetupInv, KeyExchange, Strangers

LEMMA SetupInvReadSelect ==
    ASSUME SetupInv, ReadSelect
    PROVE  SetupInv'
<1>1. Take(1) /\ at' = "padD" /\ UNCHANGED <<kind, encrypted>> /\ rc4' \in BOOLEAN /\ padD' \in 0 .. 2
  BY DEF ReadSelect
<1>2. padD' \in Nat
  BY <1>1
<1> QED BY <1>1, <1>2, SetupInvTaken

LEMMA SetupInvReadPadD ==
    ASSUME SetupInv, ReadPadD
    PROVE  SetupInv'
<1>1. Take(1) /\ at' = "padD" /\ UNCHANGED <<kind, encrypted>> /\ rc4' = rc4
      /\ padD > 0 /\ padD' = padD - 1
  BY DEF ReadPadD
<1>2. padD' \in Nat /\ rc4' \in BOOLEAN
  BY <1>1 DEF SetupInv, SetupTypeOK
<1> QED BY <1>1, <1>2, SetupInvTaken

LEMMA SetupInvBadHandshake ==
    ASSUME SetupInv, BadHandshake
    PROVE  SetupInv'
<1>1. Take(1) /\ at' \in {"handshake", AfterFailure} /\ UNCHANGED <<kind, encrypted>>
      /\ rc4' = rc4 /\ padD' = padD
  BY DEF BadHandshake
<1>2. at' \in {"padD", "handshake", "reconnect", "failed"}
  BY <1>1 DEF AfterFailure
<1>3. rc4' \in BOOLEAN /\ padD' \in Nat
  BY <1>1 DEF SetupInv, SetupTypeOK
<1> QED BY <1>1, <1>2, <1>3, SetupInvTaken

\* The handshake is that of our torrent, and decrypted.
LEMMA SetupInvReadHandshake ==
    ASSUME SetupInv, ReadHandshake
    PROVE  SetupInv'
<1>1. /\ Take(1) /\ at' = "open" /\ UNCHANGED <<kind, encrypted, rc4, padD>>
      /\ Acceptable(Decrypt(Head(rx), 1))
  BY DEF ReadHandshake
<1>2. /\ rx' \in Seq(Cells) /\ dkey' \in Nat /\ UNCHANGED <<closed, replies, ekey>>
      /\ KeysFollow' /\ kind' # "silent" /\ rx # <<>>
      /\ kind' = "stranger" => \A j \in 1 .. Len(rx') : rx'[j].what = "handshake" => rx'[j].n = 2
  BY <1>1, Taking
<1>3. /\ rx[1].what = "handshake" /\ rx[1].n = 1 /\ 1 \in 1 .. Len(rx)
      /\ encrypted => kind \in {"mse", "plaintext"}
  BY <1>1, <1>2, Decrypted DEF Acceptable
<1>4. kind # "stranger"
  BY <1>3 DEF SetupInv, Strangers
<1>5. SetupTypeOK'
  BY <1>1, <1>2 DEF SetupInv, SetupTypeOK, Places
<1> QED BY <1>1, <1>2, <1>3, <1>4, <1>5 DEF SetupInv, KeyExchange, Strangers

LEMMA SetupInvReceive ==
    ASSUME SetupInv, Receive
    PROVE  SetupInv'
<1>1. PICK n \in 1 .. Len(rx) : Take(n)
  BY DEF Receive
<1>2. at = "open" /\ UNCHANGED <<kind, at, encrypted, rc4, padD>>
  BY DEF Receive, Reading, setupVars
<1>3. n \in Nat \ {0}
  OBVIOUS
<1>4. /\ rx' \in Seq(Cells) /\ dkey' \in Nat /\ UNCHANGED <<closed, replies, ekey>>
      /\ KeysFollow' /\ kind' # "silent"
      /\ kind' = "stranger" => \A j \in 1 .. Len(rx') : rx'[j].what = "handshake" => rx'[j].n = 2
  BY <1>1, <1>2, <1>3, Taking
<1>5. SetupTypeOK'
  BY <1>2, <1>4 DEF SetupInv, SetupTypeOK
<1> QED BY <1>2, <1>4, <1>5 DEF SetupInv, KeyExchange, Strangers

\* Only the key is skipped: padding after it is taken for the first encrypted cells.
LEMMA SetupInvReadKey ==
    ASSUME SetupInv, ReadKey
    PROVE  SetupInv' /\ encrypted' /\ replies' = 1 /\ Len(rx') = Lag /\ at' = "negotiate"
<1>1. /\ at = "dh" /\ at' = "negotiate" /\ Take(1) /\ encrypted' = TRUE
      /\ UNCHANGED <<kind, rc4, padD>>
  BY DEF ReadKey
<1>2. /\ 1 <= Len(rx) /\ rx' = SubSeq(rx, 1 + 1, Len(rx))
      /\ UNCHANGED <<closed, replies, ekey>>
  BY <1>1 DEF Take
<1>3. ~encrypted /\ ekey = 0 /\ dkey = 0 /\ dkey' = 0
  BY <1>1 DEF SetupInv, KeyExchange, Take
<1>4. rx \in Seq(Cells) /\ Len(rx) \in Nat /\ rx # <<>> /\ kind \in RemoteKinds
  BY <1>2, NoCells DEF SetupInv, SetupTypeOK
<1>5. KnowsMSE /\ replies = 1 /\ Len(rx) = 1 + Lag
  BY <1>1, <1>4 DEF SetupInv, KeyExchange
<1>6. Cut(Cells, rx, 1, SubSeq(rx, 1, 1), rx')
  <2>1. 1 \in 0 .. Len(rx)
    BY <1>2, <1>4
  <2> QED BY <1>2, <1>4, <2>1, Split
<1>7. rx' \in Seq(Cells) /\ Len(rx') = Lag /\ Lag \in {0, 1}
  BY <1>5, <1>6 DEF Cut, Lag
<1>8. \A j \in 1 .. Len(rx') : j = 1 /\ rx'[j].key = None
  <2> TAKE j \in 1 .. Len(rx')
  <2>1. j = 1 /\ 1 + j \in 1 .. Len(rx) /\ j \in 1 .. Len(rx) - 1
    BY <1>4, <1>5, <1>7
  <2>2. rx'[j] = rx[1 + j]
    BY <1>6, <2>1 DEF Cut
  <2> QED BY <1>3, <2>1, <2>2 DEF SetupInv, KeysFollow
<1>9. SetupTypeOK'
  BY <1>1, <1>2, <1>3, <1>7 DEF SetupInv, SetupTypeOK, Places
<1>10. KeysFollow'
  <2>1. KnowsMSE' /\ replies' = 1 /\ ekey' = 0 /\ Lag' = Lag
    BY <1>1, <1>2, <1>3, <1>5 DEF KnowsMSE, Lag
  <2>2. \A j \in 1 .. Len(rx') : rx'[j].key = dkey' + j - 1 - Lag
    <3> TAKE j \in 1 .. Len(rx')
    <3>1. Lag = 1
      BY <1>7
    <3> QED BY <1>3, <1>8, <3>1 DEF None
  <2>3. ekey' = dkey' + Len(rx') - Lag
    BY <1>3, <1>7, <2>1
  <2> QED BY <1>1, <1>8, <2>1, <2>2, <2>3 DEF KeysFollow
<1>11. Strangers'
  <2>1. kind = "stranger" => Len(rx') = 0
    BY <1>7 DEF Lag
  <2>2. kind' = "stranger" => \A j \in 1 .. Len(rx') : rx'[j].what = "handshake" => rx'[j].n = 2
    BY <1>1, <2>1
  <2> QED BY <1>1, <1>5, <2>2 DEF Strangers, KnowsMSE
<1> QED BY <1>1, <1>2, <1>5, <1>7, <1>9, <1>10, <1>11 DEF SetupInv, KeyExchange

\* The cells that the remote side adds are encrypted one after the other.
InStream(cells) ==
    /\ ~encrypted => \A j \in 1 .. Len(cells) : cells[j].key = None
    /\ encrypted =>
          /\ kind = "stranger" => \A j \in 1 .. Len(cells) : cells[j].key = None
          /\ kind # "stranger" =>
                ekey' = ekey + Len(cells) /\ \A j \in 1 .. Len(cells) : cells[j].key = ekey + j - 1

LEMMA Saying ==
    ASSUME SetupInv, NEW cells \in Seq(Cells), Says(cells), ekey' \in Nat, InStream(cells),
           kind = "stranger" =>
               \A j \in 1 .. Len(cells) : cells[j].what = "handshake" => cells[j].n = 2,
           kind # "silent"
    PROVE  SetupTypeOK' /\ KeysFollow' /\ Strangers' /\ Join(Cells, rx, cells, rx')
<1>1. /\ ~closed /\ rx' = rx \o cells /\ replies' = replies + 1
      /\ UNCHANGED <<kind, at, encrypted, rc4, padD, dkey, closed>>
  BY DEF Says, setupVars
<1>2. /\ rx \in Seq(Cells) /\ Len(rx) \in Nat /\ Len(cells) \in Nat /\ replies \in Nat
      /\ dkey \in Nat /\ ekey \in Nat /\ encrypted \in BOOLEAN
  BY DEF SetupInv, SetupTypeOK
<1>3. Join(Cells, rx, cells, rx')
  BY <1>1, <1>2, Concatenated
<1>4. /\ rx' \in Seq(Cells) /\ Len(rx') = Len(rx) + Len(cells)
      /\ \A k \in 1 .. Len(rx) : rx'[k] = rx[k]
      /\ \A k \in 1 .. Len(cells) : rx'[Len(rx) + k] = cells[k]
  BY <1>3 DEF Join
<1>5. ASSUME NEW j \in 1 .. Len(rx')
      PROVE  \/ j \in 1 .. Len(rx) /\ rx'[j] = rx[j]
             \/ \E k \in 1 .. Len(cells) : j = Len(rx) + k /\ rx'[j] = cells[k]
  <2>1. CASE j <= Len(rx)
    BY <1>2, <1>4, <2>1
  <2>2. CASE ~ (j <= Len(rx))
    <3>1. j - Len(rx) \in 1 .. Len(cells) /\ j = Len(rx) + (j - Len(rx))
      BY <1>2, <1>4, <2>2
    <3> QED BY <1>4, <3>1
  <2> QED BY <2>1, <2>2
<1>6. SetupTypeOK'
  <2>1. replies' \in Nat
    BY <1>1, <1>2
  <2> QED BY <1>1, <1>4, <2>1 DEF SetupInv, SetupTypeOK
<1>7. KeysFollow'
  <2>1. CASE ~encrypted
    <3>1. \A j \in 1 .. Len(rx') : rx'[j].key = None
      BY <1>5, <2>1 DEF SetupInv, KeysFollow, InStream
    <3> QED BY <1>1, <2>1, <3>1 DEF KeysFollow
  <2>2. CASE encrypted
    <3>1. KnowsMSE' /\ replies' >= 1 /\ replies' # 1
      <4>1. KnowsMSE /\ replies >= 1
        BY <2>2 DEF SetupInv, KeysFollow
      <4> QED BY <1>1, <1>2, <4>1 DEF KnowsMSE
    <3>2. kind = "stranger" => \A j \in 1 .. Len(rx') : rx'[j].key = None
      BY <1>5, <2>2 DEF SetupInv, KeysFollow, InStream
    <3>3. ASSUME kind # "stranger"
          PROVE  ekey' = dkey + Len(rx') - Lag /\ \A j \in 1 .. Len(rx') : rx'[j].key = dkey + j - 1 - Lag
      <4>1. Lag \in {0, 1}
        BY DEF Lag
      <4>2. /\ \A j \in 1 .. Len(rx) : rx[j].key = dkey + j - 1 - Lag
            /\ ekey = dkey + Len(rx) - Lag
        BY <1>1, <2>2, <3>3 DEF SetupInv, KeysFollow
      <4>3. /\ ekey' = ekey + Len(cells)
            /\ \A j \in 1 .. Len(cells) : cells[j].key = ekey + j - 1
        BY <2>2, <3>3 DEF InStream
      <4>4. ekey' = dkey + Len(rx') - Lag
        BY <1>2, <1>4, <4>1, <4>2, <4>3
      <4>5. ASSUME NEW j \in 1 .. Len(rx') PROVE rx'[j].key = dkey + j - 1 - Lag
        <5>1. CASE j \in 1 .. Len(rx) /\ rx'[j] = rx[j]
          BY <4>2, <5>1
        <5>2. ASSUME NEW k \in 1 .. Len(cells), j = Len(rx) + k, rx'[j] = cells[k]
              PROVE  rx'[j].key = dkey + j - 1 - Lag
          <6>1. cells[k].key = ekey + k - 1 /\ ekey = dkey + Len(rx) - Lag
            BY <4>2, <4>3
          <6>2. ekey + k - 1 = dkey + (Len(rx) + k) - 1 - Lag
            BY <1>2, <4>1, <6>1
          <6> QED BY <5>2, <6>1, <6>2
        <5> QED BY <1>5, <5>1, <5>2
      <4> QED BY <4>4, <4>5
    <3>4. Lag' = Lag
      BY <1>1 DEF Lag
    <3> QED BY <1>1, <2>2, <3>1, <3>2, <3>3, <3>4 DEF KeysFollow
  <2> QED BY <2>1, <2>2
<1>8. Strangers'
  <2>1. kind = "stranger" => \A j \in 1 .. Len(rx') : rx'[j].what = "handshake" => rx'[j].n = 2
    BY <1>5 DEF SetupInv, Strangers
  <2> QED BY <1>1, <2>1 DEF SetupInv, Strangers
<1> QED BY <1>3, <1>6, <1>7, <1>8

\* What the remote side says before the handshake.
KeyCells ==
    <<Cell("key", 0, 0, None)>> \o IF kind = "padded" THEN <<Cell("pad", 0, 0, None)>> ELSE <<>>

SelectCells(n) ==
    <<Cell("select", n, IF kind = "plaintext" THEN 1 ELSE 2, RemoteKey(0))>>
        \o [j \in 1 .. n |-> Cell("pad", 0, 0, RemoteKey(1))]

LEMMA OneCell ==
    ASSUME NEW c \in Cells
    PROVE  <<c>> \in Seq(Cells) /\ Len(<<c>>) = 1 /\ <<c>>[1] = c
OBVIOUS

LEMMA KeyCellsAre ==
    /\ KeyCells \in Seq(Cells) /\ Len(KeyCells) = 1 + Lag
    /\ \A j \in 1 .. Len(KeyCells) : KeyCells[j].key = None /\ KeyCells[j].what # "handshake"
<1> DEFINE k == Cell("key", 0, 0, None)
           p == Cell("pad", 0, 0, None)
           t == IF kind = "padded" THEN <<p>> ELSE <<>>
<1>1. /\ k \in Cells /\ k.key = None /\ k.what # "handshake"
      /\ p \in Cells /\ p.key = None /\ p.what # "handshake"
  BY DEF Cell, Cells, Labels, None
<1>2. KeyCells = <<k>> \o t
  BY DEF KeyCells
<1> HIDE DEF k, p
<1>3. <<k>> \in Seq(Cells) /\ Len(<<k>>) = 1 /\ <<k>>[1] = k
  BY <1>1, OneCell
<1>4. t \in Seq(Cells) /\ Len(t) = Lag /\ Lag \in {0, 1} /\ \A j \in 1 .. Len(t) : t[j] = p
  <2>1. CASE kind = "padded"
    BY <1>1, <2>1 DEF Lag
  <2>2. CASE kind # "padded"
    BY <2>2 DEF Lag
  <2> QED BY <2>1, <2>2
<1> HIDE DEF t
<1>5. Join(Cells, <<k>>, t, KeyCells)
  BY <1>2, <1>3, <1>4, Concatenated
<1>6. /\ KeyCells \in Seq(Cells) /\ Len(KeyCells) = 1 + Lag
      /\ \A j \in 1 .. 1 : KeyCells[j] = <<k>>[j]
      /\ \A j \in 1 .. Len(t) : KeyCells[1 + j] = t[j]
  BY <1>3, <1>4, <1>5 DEF Join
<1>7. ASSUME NEW j \in 1 .. Len(KeyCells) PROVE KeyCells[j] = k \/ KeyCells[j] = p
  <2>1. CASE j = 1
    BY <1>3, <1>6, <2>1
  <2>2. CASE j # 1
    <3>1. j - 1 \in 1 .. Len(t) /\ 1 + (j - 1) = j
      BY <1>4, <1>6, <2>2
    <3> QED BY <1>4, <1>6, <3>1
  <2> QED BY <2>1, <2>2
<1> QED BY <1>1, <1>6, <1>7

LEMMA SelectCellsAre ==
    ASSUME NEW n \in 0 .. 1
    PROVE  /\ SelectCells(n) \in Seq(Cells) /\ Len(SelectCells(n)) = 1 + n
           /\ SelectCells(n)[1].what = "select" /\ SelectCells(n)[1].n = n
           /\ \A j \in 1 .. Len(SelectCells(n)) :
                 SelectCells(n)[j].key = RemoteKey(j - 1) /\ SelectCells(n)[j].what # "handshake"
<1> DEFINE k == Cell("select", n, IF kind = "plaintext" THEN 1 ELSE 2, RemoteKey(0))
           p == Cell("pad", 0, 0, RemoteKey(1))
           t == [j \in 1 .. n |-> p]
           c == SelectCells(n)
<1>0. n \in Nat /\ RemoteKey(0) \in Int /\ RemoteKey(1) \in Int
  BY DEF RemoteKey, None
<1>1. /\ k \in Cells /\ k.key = RemoteKey(0) /\ k.what = "select" /\ k.n = n
      /\ p \in Cells /\ p.key = RemoteKey(1) /\ p.what = "pad"
  BY <1>0 DEF Cell, Cells, Labels
<1>2. c = <<k>> \o t
  BY DEF SelectCells
<1> HIDE DEF k, p
<1>3. <<k>> \in Seq(Cells) /\ Len(<<k>>) = 1 /\ <<k>>[1] = k
  BY <1>1, OneCell
<1>4. t \in Seq(Cells) /\ Len(t) = n /\ \A j \in 1 .. n : t[j] = p
  BY <1>0, <1>1
<1> HIDE DEF t, c
<1>5. Join(Cells, <<k>>, t, c)
  BY <1>2, <1>3, <1>4, Concatenated
<1>6. /\ c \in Seq(Cells) /\ Len(c) = 1 + n
      /\ \A j \in 1 .. 1 : c[j] = <<k>>[j]
      /\ \A j \in 1 .. n : c[1 + j] = t[j]
  BY <1>3, <1>4, <1>5 DEF Join
<1>7. c[1] = k
  BY <1>3, <1>6
<1>8. ASSUME NEW j \in 1 .. Len(c) PROVE c[j].key = RemoteKey(j - 1) /\ c[j].what # "handshake"
  <2>1. CASE j = 1
    <3>1. j - 1 = 0
      BY <2>1
    <3> QED BY <1>1, <1>7, <2>1, <3>1
  <2>2. CASE j # 1
    <3>1. 1 \in 1 .. n /\ 1 + 1 = j /\ j - 1 = 1
      BY <1>6, <2>2
    <3>2. c[j] = p
      BY <1>4, <1>6, <3>1
    <3> QED BY <1>1, <3>1, <3>2
  <2> QED BY <2>1, <2>2
<1> QED BY <1>1, <1>6, <1>7, <1>8 DEF c

LEMMA SetupInvSayKey ==
    ASSUME SetupInv, SayKey
    PROVE  SetupInv' /\ Join(Cells, rx, KeyCells, rx') /\ replies = 0 /\ at = "dh"
<1>1. /\ at = "dh" /\ ~encrypted /\ replies = 0 /\ KnowsMSE
      /\ Says(KeyCells) /\ UNCHANGED <<ekey, incoming>>
  BY DEF SayKey, Owes, KeyCells
<1>2. InStream(KeyCells)
  BY <1>1, KeyCellsAre DEF InStream
<1>3. ekey' \in Nat
  BY <1>1 DEF SetupInv, SetupTypeOK
<1>4. SetupTypeOK' /\ KeysFollow' /\ Strangers' /\ Join(Cells, rx, KeyCells, rx')
  BY <1>1, <1>2, <1>3, KeyCellsAre, Saying DEF KnowsMSE
<1>5. KeyExchange'
  <2>1. rx = <<>> /\ ekey = 0 /\ dkey = 0
    BY <1>1 DEF SetupInv, KeyExchange
  <2>2. UNCHANGED <<at, encrypted, dkey, kind>> /\ replies' = 1
    BY <1>1 DEF Says, setupVars
  <2>3. Len(rx') = 1 + Lag
    BY <1>4, <2>1, KeyCellsAre, NoCells DEF Join, Lag
  <2> QED BY <1>1, <2>1, <2>2, <2>3 DEF KeyExchange, KnowsMSE, Lag
<1> QED BY <1>1, <1>4, <1>5 DEF SetupInv

LEMMA SetupInvSaySelect ==
    ASSUME SetupInv, SaySelect
    PROVE  /\ SetupInv' /\ encrypted /\ replies = 1
           /\ \E n \in 0 .. 1 : Join(Cells, rx, SelectCells(n), rx')
<1>1. encrypted /\ replies = 1
  BY DEF SaySelect, Owes
<1>2. PICK n \in 0 .. 1 : Says(SelectCells(n)) /\ ekey' = 1 + n
  BY DEF SaySelect, SelectCells
<1>3. ekey = 0 /\ ekey' \in Nat /\ ekey' = ekey + Len(SelectCells(n))
  BY <1>1, <1>2, SelectCellsAre DEF SetupInv, KeysFollow
<1>4. InStream(SelectCells(n))
  <2>1. \A j \in 1 .. Len(SelectCells(n)) : SelectCells(n)[j].key = RemoteKey(ekey + j - 1)
    <3> TAKE j \in 1 .. Len(SelectCells(n))
    <3>1. SelectCells(n)[j].key = RemoteKey(j - 1) /\ j \in Int
      BY SelectCellsAre
    <3>2. ekey + j - 1 = j - 1
      BY <1>3, <3>1
    <3> QED BY <3>1, <3>2
  <2> QED BY <1>1, <1>3, <2>1 DEF InStream, RemoteKey
<1>5. SetupTypeOK' /\ KeysFollow' /\ Strangers' /\ Join(Cells, rx, SelectCells(n), rx')
  <2>1. kind # "silent"
    BY <1>1 DEF SetupInv, Strangers
  <2> QED BY <1>2, <1>3, <1>4, <2>1, SelectCellsAre, Saying
<1>6. KeyExchange'
  <2>1. UNCHANGED <<at, encrypted>>
    BY <1>2 DEF Says, setupVars
  <2> QED BY <1>1, <2>1 DEF SetupInv, KeyExchange
<1> QED BY <1>1, <1>5, <1>6 DEF SetupInv

LEMMA SetupInvSayHandshake ==
    ASSUME SetupInv, SayHandshake
    PROVE  /\ SetupInv' /\ at = "handshake" /\ replies = IF encrypted THEN 2 ELSE 0
           /\ Len(rx') = Len(rx) + 1
<1> DEFINE c == Cell("handshake", IF kind = "stranger" THEN 2 ELSE 1, 0,
                     IF encrypted THEN RemoteKey(ekey) ELSE None)
<1>1. at = "handshake" /\ kind # "silent" /\ replies = (IF encrypted THEN 2 ELSE 0)
  BY DEF SayHandshake, Owes
<1>2. Says(<<c>>) /\ ekey' = ekey + 1
  BY DEF SayHandshake
<1>3. ekey \in Nat /\ ekey' \in Nat /\ encrypted \in BOOLEAN /\ rx \in Seq(Cells)
  BY <1>2 DEF SetupInv, SetupTypeOK
<1>4. c \in Cells /\ c.what = "handshake" /\ (kind = "stranger" => c.n = 2)
      /\ c.key = IF encrypted THEN RemoteKey(ekey) ELSE None
  BY <1>3 DEF Cell, Cells, Labels, RemoteKey, None
<1> HIDE DEF c
<1>5. <<c>> \in Seq(Cells) /\ Len(<<c>>) = 1 /\ <<c>>[1] = c
  BY <1>4, OneCell
<1>6. \A j \in 1 .. Len(<<c>>) : j = 1 /\ <<c>>[j] = c
  BY <1>5
<1>7. InStream(<<c>>)
  <2>1. ekey + 1 - 1 = ekey
    BY <1>3
  <2> QED BY <1>2, <1>4, <1>5, <1>6, <2>1 DEF InStream, RemoteKey
<1>8. SetupTypeOK' /\ KeysFollow' /\ Strangers' /\ Join(Cells, rx, <<c>>, rx')
  BY <1>1, <1>2, <1>3, <1>4, <1>5, <1>6, <1>7, Saying
<1>9. KeyExchange'
  <2>1. UNCHANGED <<at, encrypted>>
    BY <1>2 DEF Says, setupVars
  <2> QED BY <1>1, <2>1 DEF SetupInv, KeyExchange
<1>10. Len(rx') = Len(rx) + 1
  BY <1>5, <1>8 DEF Join
<1> QED BY <1>1, <1>8, <1>9, <1>10 DEF SetupInv

LEMMA BodyLengthIsNat == ASSUME NEW m \in MessageSet PROVE BodyLength(m) \in Nat
BY DEF MessageSet, BodyLength

LEMMA EncodeCells ==
    ASSUME NEW m \in MessageSet, NEW n \in Nat, NEW key \in Int
    PROVE  /\ Encode(m, n, key) \in Seq(Cells) /\ Len(Encode(m, n, key)) = 1 + BodyLength(m)
           /\ \A j \in 1 .. 1 + BodyLength(m) :
                 Encode(m, n, key)[j] = Cell("message", n, j - 1, IF key = None THEN None ELSE key + j - 1)
<1>1. BodyLength(m) \in Nat
  BY BodyLengthIsNat
<1> DEFINE e(j) == Cell("message", n, j - 1, IF key = None THEN None ELSE key + j - 1)
<1>2. \A j \in 1 .. 1 + BodyLength(m) : e(j) \in Cells
  <2> TAKE j \in 1 .. 1 + BodyLength(m)
  <2>1. j - 1 \in Int /\ (IF key = None THEN None ELSE key + j - 1) \in Int
    BY <1>1 DEF None
  <2> QED BY <2>1 DEF Cell, Cells, Labels
<1>3. Encode(m, n, key) = [j \in 1 .. 1 + BodyLength(m) |-> e(j)]
  BY DEF Encode
<1> HIDE DEF e
<1>4. /\ Encode(m, n, key) \in Seq(Cells) /\ Len(Encode(m, n, key)) = 1 + BodyLength(m)
      /\ \A j \in 1 .. 1 + BodyLength(m) : Encode(m, n, key)[j] = e(j)
  BY <1>1, <1>2, <1>3
<1> QED BY <1>4 DEF e

LEMMA SetupInvSayMessage ==
    ASSUME SetupInv, MessagesOK, SayMessage
    PROVE  /\ SetupInv' /\ MessagesOK' /\ UNCHANGED <<at, closed>> /\ ~closed
           /\ \E m \in MessageSet, key \in Int :
                 /\ incoming' = Append(incoming, m)
                 /\ Join(Cells, rx, Encode(m, Len(incoming) + 1, key), rx')
<1> DEFINE key == IF encrypted THEN ekey ELSE None
<1>1. PICK m \in [type : MessageTypes, payload : 0 .. MaxPayload] :
        /\ m.type = "keepalive" => m.payload = 0
        /\ incoming' = Append(incoming, m)
        /\ Says(Encode(m, Len(incoming) + 1, key))
        /\ ekey' = ekey + 1 + BodyLength(m)
  BY DEF SayMessage
<1> DEFINE cells == Encode(m, Len(incoming) + 1, key)
<1>2. at = "open" /\ kind \notin {"stranger", "silent"}
  BY DEF SayMessage, SetupInv, Strangers
<1>3. m \in MessageSet /\ BodyLength(m) \in Nat
  <2>1. m \in MessageSet
    BY ConnectionConstants DEF MessageSet
  <2> QED BY <2>1, BodyLengthIsNat
<1>4. incoming \in Seq(MessageSet) /\ Len(incoming) \in Nat /\ Len(incoming) + 1 \in Nat
      /\ ekey \in Nat /\ encrypted \in BOOLEAN /\ key \in Int
  BY DEF MessagesOK, SetupInv, SetupTypeOK, None
<1>5. ekey' \in Nat
  BY <1>1, <1>3, <1>4
<1>6. /\ cells \in Seq(Cells) /\ Len(cells) = 1 + BodyLength(m)
      /\ \A j \in 1 .. 1 + BodyLength(m) :
            cells[j] = Cell("message", Len(incoming) + 1, j - 1, IF key = None THEN None ELSE key + j - 1)
  BY <1>3, <1>4, EncodeCells
<1>7. InStream(cells)
  <2>1. CASE ~encrypted
    <3>1. key = None
      BY <2>1
    <3> HIDE DEF cells, key
    <3> QED BY <1>6, <2>1, <3>1 DEF InStream, Cell
  <2>2. CASE encrypted
    <3>1. key = ekey /\ key # None
      BY <1>4, <2>2 DEF None
    <3> HIDE DEF cells, key
    <3>2. \A j \in 1 .. Len(cells) : cells[j].key = ekey + j - 1
      BY <1>6, <3>1 DEF Cell
    <3>3. ekey' = ekey + Len(cells)
      BY <1>1, <1>3, <1>4, <1>6
    <3> QED BY <1>2, <2>2, <3>2, <3>3 DEF InStream
  <2> QED BY <2>1, <2>2
<1>8. SetupTypeOK' /\ KeysFollow' /\ Strangers' /\ Join(Cells, rx, cells, rx')
  BY <1>1, <1>2, <1>5, <1>6, <1>7, Saying
<1>9. KeyExchange' /\ UNCHANGED <<at, closed>> /\ ~closed
  BY <1>1, <1>2 DEF Says, setupVars, KeyExchange
<1>10. MessagesOK'
  <2>1. incoming' \in Seq(MessageSet) /\ Len(incoming') = Len(incoming) + 1
        /\ \A n \in 1 .. Len(incoming) + 1 :
              incoming'[n] = IF n <= Len(incoming) THEN incoming[n] ELSE m
    BY <1>1, <1>3, <1>4
  <2>2. ASSUME NEW n \in 1 .. Len(incoming'), incoming'[n].type = "keepalive"
        PROVE  incoming'[n].payload = 0
    <3>1. CASE n <= Len(incoming)
      <4>1. n \in 1 .. Len(incoming) /\ incoming'[n] = incoming[n]
        BY <1>4, <2>1, <3>1
      <4> QED BY <2>2, <4>1 DEF MessagesOK
    <3>2. CASE ~ (n <= Len(incoming))
      BY <1>1, <2>1, <2>2, <3>2
    <3> QED BY <3>1, <3>2
  <2> QED BY <2>1, <2>2 DEF MessagesOK
<1>11. \E k \in Int :
         /\ incoming' = Append(incoming, m)
         /\ Join(Cells, rx, Encode(m, Len(incoming) + 1, k), rx')
  BY <1>1, <1>4, <1>8
<1> QED BY <1>3, <1>8, <1>9, <1>10, <1>11 DEF SetupInv

\* It closes at a cell of the last message, and that is lost if its first cell is.
LEMMA SetupInvRemoteCloses ==
    ASSUME SetupInv, MessagesOK, RemoteCloses
    PROVE  SetupInv' /\ MessagesOK'
<1>1. ~closed /\ closed' = TRUE /\ UNCHANGED <<kind, at, encrypted, rc4, padD, replies, ekey, dkey>>
  BY DEF RemoteCloses, setupVars
<1>2. rx \in Seq(Cells) /\ Len(rx) \in Nat /\ encrypted \in BOOLEAN
  BY DEF SetupInv, SetupTypeOK
<1>3. CASE UNCHANGED <<rx, incoming>>
  <2>1. SetupTypeOK'
    BY <1>1, <1>3 DEF SetupInv, SetupTypeOK
  <2> QED BY <1>1, <1>3, <2>1 DEF SetupInv, KeyExchange, KeysFollow, Strangers, KnowsMSE, Lag,
                                 MessagesOK
<1>4. CASE /\ at = "open" /\ incoming # <<>>
           /\ \E lost \in 1 .. Len(rx) :
                /\ rx' = SubSeq(rx, 1, Len(rx) - lost)
                /\ incoming' = IF rx[Len(rx) - lost + 1].part = 0 THEN Front(incoming)
                               ELSE incoming
  <2>1. PICK lost \in 1 .. Len(rx) :
          /\ rx' = SubSeq(rx, 1, Len(rx) - lost)
          /\ incoming' = IF rx[Len(rx) - lost + 1].part = 0 THEN Front(incoming) ELSE incoming
    BY <1>4
  <2>2. Len(rx) - lost \in 0 .. Len(rx)
    BY <1>2
  <2>3. Cut(Cells, rx, Len(rx) - lost, rx', SubSeq(rx, Len(rx) - lost + 1, Len(rx)))
    BY <1>2, <2>1, <2>2, Split
  <2>4. rx' \in Seq(Cells) /\ Len(rx') = Len(rx) - lost
        /\ \A k \in 1 .. Len(rx') : k \in 1 .. Len(rx) /\ rx'[k] = rx[k]
    BY <1>2, <2>3 DEF Cut
  <2>5. SetupTypeOK'
    BY <1>1, <2>4 DEF SetupInv, SetupTypeOK
  <2>6. KeysFollow' /\ Strangers'
    <3>1. kind # "silent" /\ kind # "stranger"
      BY <1>4 DEF SetupInv, Strangers
    <3>2. KeysFollow'
      BY <1>1, <2>4 DEF SetupInv, KeysFollow, KnowsMSE, Lag
    <3> QED BY <1>1, <3>1, <3>2 DEF SetupInv, Strangers
  <2>7. KeyExchange'
    BY <1>1, <1>4 DEF KeyExchange
  <2>8. MessagesOK'
    <3>1. incoming \in Seq(MessageSet) /\ Len(incoming) \in Nat /\ Len(incoming) >= 1
      BY <1>4 DEF MessagesOK
    <3>2. Len(incoming) - 1 \in 0 .. Len(incoming)
      BY <3>1
    <3>3. Cut(MessageSet, incoming, Len(incoming) - 1, Front(incoming),
              SubSeq(incoming, Len(incoming) - 1 + 1, Len(incoming)))
      BY <3>1, <3>2, Split DEF Front
    <3>4. Front(incoming) \in Seq(MessageSet) /\ Len(Front(incoming)) = Len(incoming) - 1
          /\ \A k \in 1 .. Len(incoming) - 1 : Front(incoming)[k] = incoming[k]
      BY <3>3 DEF Cut
    <3>5. CASE incoming' = incoming
      BY <3>5 DEF MessagesOK
    <3>6. CASE incoming' = Front(incoming)
      <4>1. \A k \in 1 .. Len(incoming') : k \in 1 .. Len(incoming) /\ incoming'[k] = incoming[k]
        BY <3>1, <3>4, <3>6
      <4> QED BY <3>4, <3>6, <4>1 DEF MessagesOK
    <3> QED BY <2>1, <3>5, <3>6
  <2> QED BY <2>5, <2>6, <2>7, <2>8 DEF SetupInv
<1> QED BY <1>3, <1>4 DEF RemoteCloses

LEMMA SetupInvStep ==
    ASSUME SetupInv, MessagesOK, [Next]_vars
    PROVE  SetupInv' /\ MessagesOK'
<1>1. CASE Answer
  <2>1. incoming' = incoming
    BY <1>1 DEF Answer, SayKey, SaySelect, SayHandshake
  <2>2. SetupInv'
    BY <1>1, SetupInvSayKey, SetupInvSaySelect, SetupInvSayHandshake DEF Answer
  <2> QED BY <2>1, <2>2 DEF MessagesOK
<1>2. CASE SayMessage
  BY <1>2, SetupInvSayMessage
<1>3. CASE RemoteCloses
  BY <1>3, SetupInvRemoteCloses
<1>4. CASE Receive
  <2>1. incoming' = incoming
    BY <1>4 DEF Receive, Take
  <2> QED BY <1>4, <2>1, SetupInvReceive DEF MessagesOK
<1>5. CASE SetupStep
  <2>1. incoming' = incoming
    BY <1>5 DEF SetupStep, Connect, ConnectFailed, ReadKey, ReadSelect, ReadPadD, Negotiated,
       ReadHandshake, BadHandshake, SetupEOF, Reconnect, Take, remoteVars
  <2>2. CASE ConnectFailed \/ Negotiated \/ SetupEOF
    <3>1. at' \in {"handshake", "reconnect", "failed"}
      BY <2>2 DEF ConnectFailed, Negotiated, SetupEOF, AfterFailure
    <3>2. UNCHANGED <<kind, encrypted, rc4, padD, rx, closed, replies, ekey, dkey>>
      BY <2>2 DEF ConnectFailed, Negotiated, SetupEOF, remoteVars
    <3> QED BY <2>1, <3>1, <3>2, SetupInvMoved DEF MessagesOK
  <2>3. CASE Connect \/ ReadKey \/ ReadSelect \/ ReadPadD \/ ReadHandshake \/ BadHandshake \/ Reconnect
    BY <2>1, <2>3, SetupInvConnect, SetupInvReadKey, SetupInvReadSelect, SetupInvReadPadD,
       SetupInvReadHandshake, SetupInvBadHandshake, SetupInvReconnect DEF MessagesOK
  <2> QED BY <1>5, <2>2, <2>3 DEF SetupStep
<1>6. CASE TakePrefix \/ TakeMessage \/ Timeout \/ EndOfStream \/ WriteStep \/ UNCHANGED vars
  <2>1. UNCHANGED <<kind, setupVars, remoteVars, dkey>>
    BY <1>6 DEF TakePrefix, TakeMessage, Timeout, EndOfStream, WriteStep, Send, PollPlain, PollRest,
       WakeByChance, PollWrite, vars
  <2> QED BY <2>1, SetupInvFramed DEF MessagesOK, setupVars, remoteVars
<1> QED BY <1>1, <1>2, <1>3, <1>4, <1>5, <1>6 DEF Next, ReadStep

LEMMA SetupInvImplies == SetupInv => OpenInStep
<1> SUFFICES ASSUME SetupInv, at = "open" PROVE OpenInStep
  BY DEF OpenInStep
<1>1. kind \notin {"stranger", "silent"} /\ (encrypted => Lag = 0)
  BY DEF SetupInv, Strangers, Lag
<1>2. rx \in Seq(Cells) /\ DOMAIN rx = 1 .. Len(rx) /\ dkey \in Nat /\ encrypted \in BOOLEAN
  BY DEF SetupInv, SetupTypeOK
<1>3. ASSUME NEW j \in 1 .. Len(rx) PROVE rx[j].key = IF encrypted THEN dkey + j - 1 ELSE None
  <2>1. CASE encrypted
    <3>1. rx[j].key = dkey + j - 1 - Lag
      BY <1>1, <2>1 DEF SetupInv, KeysFollow
    <3> QED BY <1>1, <1>2, <2>1, <3>1
  <2>2. CASE ~encrypted
    BY <2>2 DEF SetupInv, KeysFollow
  <2> QED BY <2>1, <2>2
<1> QED BY <1>1, <1>2, <1>3 DEF OpenInStep

LEMMA MessagesInit == Init => MessagesOK
<1> SUFFICES ASSUME Init PROVE MessagesOK
  OBVIOUS
<1>1. incoming = <<>>
  BY DEF Init
<1>2. <<>> \in Seq(MessageSet) /\ Len(<<>>) = 0
  OBVIOUS
<1> QED BY <1>1, <1>2 DEF MessagesOK

LEMMA SetupHolds == Spec => [](SetupInv /\ MessagesOK)
<1>1. Init => SetupInv /\ MessagesOK
  BY SetupInvInit, MessagesInit
<1>2. SetupInv /\ MessagesOK /\ [Next]_vars => SetupInv' /\ MessagesOK'
  BY SetupInvStep
<1> QED BY <1>1, <1>2, PTL DEF Spec

\* However the negotiation goes, whether over padding, plaintext or a stranger's key:
\* a connection that is open is one to a peer of our torrent, and in step, although
\* neither the VC nor the padding is looked at (run_peer, MseStream::perform_initiator).
THEOREM OpenIsInStep == Spec => []OpenInStep
BY SetupHolds, SetupInvImplies, PTL


-----------------------------------------------------------------------------
(* Reading: the stages before the first message.                           *)

LEMMA EmptyOrNot == ASSUME NEW s \in Seq(Cells) PROVE s = <<>> <=> Len(s) = 0
OBVIOUS

\* Only the sequence of stages and what is on its way matter to the stages.
LEMMA StagesFramed ==
    ASSUME StagesFollow, UNCHANGED <<kind, at, encrypted, rx, replies, padD>>
    PROVE  StagesFollow'
BY DEF StagesFollow

LEMMA StagesSetup ==
    ASSUME SetupInv, StagesFollow, SetupStep
    PROVE  StagesFollow' /\ (at' = "open" => at = "handshake" /\ rx' = <<>>)
<1>1. rx \in Seq(Cells) /\ Len(rx) \in Nat /\ replies \in Nat /\ padD \in Nat /\ dkey \in Nat
  BY DEF SetupInv, SetupTypeOK
<1>2. CASE Connect \/ ConnectFailed \/ SetupEOF
  <2>1. at' \in {"dh", "failed", "reconnect"} /\ (at' = "dh" => ~encrypted')
    BY <1>2 DEF Connect, ConnectFailed, SetupEOF, AfterFailure, SetupInv, KeyExchange
  <2> QED BY <2>1 DEF StagesFollow
<1>3. CASE Reconnect
  <2>1. at' = "handshake" /\ encrypted' = FALSE /\ rx' = <<>> /\ replies' = 0
    BY <1>3 DEF Reconnect
  <2> QED BY <2>1 DEF StagesFollow
<1>4. CASE ReadKey
  <2>1. SetupInv' /\ encrypted' /\ replies' = 1 /\ Len(rx') = Lag /\ at' = "negotiate" /\ kind' = kind
    BY <1>4, SetupInvReadKey DEF ReadKey
  <2>2. kind # "padded" => rx' = <<>>
    <3>1. rx' \in Seq(Cells)
      BY <2>1 DEF SetupInv, SetupTypeOK
    <3> QED BY <2>1, <3>1, EmptyOrNot DEF Lag
  <2> QED BY <2>1, <2>2 DEF StagesFollow
<1>5. CASE ReadSelect
  <2>1. /\ at = "negotiate" /\ at' = "padD" /\ Take(1) /\ UNCHANGED <<kind, encrypted>>
        /\ LET reply == Decrypt(Head(rx), 1)
           IN  reply.what = "select" => padD' = reply.n
    BY <1>5 DEF ReadSelect
  <2>2. rx' \in Seq(Cells) /\ Len(rx') = Len(rx) - 1 /\ replies' = replies /\ rx # <<>>
    BY <2>1, Taking
  <2>3. ASSUME kind \in {"mse", "plaintext"}, encrypted
        PROVE  replies' = 2 /\ Len(rx') = padD'
    <3>1. replies = 2 /\ rx[1].what = "select" /\ Len(rx) = 1 + rx[1].n /\ 1 \in 1 .. Len(rx)
      BY <1>1, <2>1, <2>2, <2>3, EmptyOrNot DEF StagesFollow
    <3>2. rx[1].key = dkey + 1 - 1 - Lag /\ Lag = 0
      BY <2>3, <3>1 DEF SetupInv, KeysFollow, Lag
    <3>3. Head(rx) = rx[1] /\ rx[1] \in Cells
      BY <1>1, <3>1
    <3>4. Decrypt(Head(rx), 1) = rx[1]
      BY <1>1, <2>3, <3>2, <3>3 DEF Decrypt
    <3>5. padD' = rx[1].n
      BY <2>1, <3>1, <3>4
    <3>6. rx[1].n \in Int
      BY <3>3 DEF Cells
    <3> QED BY <2>2, <3>1, <3>5, <3>6
  <2> QED BY <2>1, <2>3 DEF StagesFollow
<1>6. CASE ReadPadD
  <2>1. at = "padD" /\ at' = "padD" /\ Take(1) /\ UNCHANGED <<kind, encrypted>> /\ padD' = padD - 1
    BY <1>6 DEF ReadPadD
  <2>2. Len(rx') = Len(rx) - 1 /\ replies' = replies
    BY <2>1, Taking
  <2>3. encrypted /\ kind \in {"mse", "plaintext"} => replies' = 2 /\ Len(rx') = padD'
    BY <1>1, <2>1, <2>2 DEF StagesFollow
  <2> QED BY <2>1, <2>3 DEF StagesFollow
<1>7. CASE Negotiated
  <2>1. /\ at = "padD" /\ padD = 0 /\ at' \in {"handshake", "reconnect"}
        /\ UNCHANGED <<kind, encrypted, rx, replies>>
    BY <1>7 DEF Negotiated, remoteVars
  <2>2. encrypted
    BY <2>1 DEF StagesFollow
  <2>3. kind \in {"mse", "plaintext"} => replies = 2 /\ rx = <<>>
    BY <1>1, <2>1, <2>2, EmptyOrNot DEF StagesFollow
  <2> QED BY <2>1, <2>2, <2>3 DEF StagesFollow
<1>8. CASE ReadHandshake \/ BadHandshake
  <2>1. /\ at = "handshake" /\ at' \in {"open", "handshake", AfterFailure} /\ Take(1)
        /\ UNCHANGED <<kind, encrypted>>
    BY <1>8 DEF ReadHandshake, BadHandshake
  <2>2. rx' \in Seq(Cells) /\ Len(rx') = Len(rx) - 1 /\ replies' = replies /\ rx # <<>>
    BY <2>1, Taking
  <2>3. at' \in {"open", "handshake", "reconnect", "failed"}
    BY <2>1 DEF AfterFailure
  <2>4. ASSUME encrypted => kind \in {"mse", "plaintext"}
        PROVE  rx' = <<>> /\ replies' = IF encrypted THEN 3 ELSE 1
    <3>1. Len(rx) <= 1 /\ replies = IF encrypted THEN 3 ELSE 1
      BY <2>1, <2>2, <2>4 DEF StagesFollow
    <3>2. Len(rx) # 0
      BY <1>1, <2>2, EmptyOrNot
    <3>3. Len(rx') = 0
      BY <1>1, <2>2, <3>1, <3>2
    <3> QED BY <2>2, <3>1, <3>3, EmptyOrNot
  <2>5. at' = "open" => (encrypted => kind \in {"mse", "plaintext"})
    <3>1. SUFFICES ASSUME at' = "open", encrypted PROVE kind \in {"mse", "plaintext"}
      OBVIOUS
    <3>2. CASE ReadHandshake
      <4>1. Decrypt(Head(rx), 1).what # "garbage"
        BY <3>2 DEF ReadHandshake, Acceptable
      <4> QED BY <2>2, <3>1, <4>1, Decrypted
    <3>3. CASE BadHandshake
      BY <3>1, <3>3 DEF BadHandshake, AfterFailure
    <3> QED BY <1>8, <3>2, <3>3
  <2>6. at' = "open" => rx' = <<>>
    BY <2>4, <2>5
  <2>7. StagesFollow'
    <3>1. encrypted /\ kind \in {"mse", "plaintext"} => rx' = <<>> /\ replies' = 3 /\ Len(rx') <= 1
      BY <2>4, NoCells
    <3>2. ~encrypted => rx' = <<>> /\ replies' = 1 /\ Len(rx') <= 1
      BY <2>4, NoCells
    <3> QED BY <2>1, <2>3, <3>1, <3>2 DEF StagesFollow
  <2> QED BY <2>1, <2>6, <2>7
<1>9. at' = "open" => ReadHandshake
  BY DEF SetupStep, Connect, ConnectFailed, ReadKey, ReadSelect, ReadPadD, Negotiated,
     ReadHandshake, BadHandshake, SetupEOF, Reconnect, AfterFailure
<1> QED BY <1>2, <1>3, <1>4, <1>5, <1>6, <1>7, <1>8, <1>9 DEF SetupStep

LEMMA StagesAnswer ==
    ASSUME SetupInv, StagesFollow, Answer
    PROVE  StagesFollow' /\ at # "open" /\ at' = at
<1>1. rx \in Seq(Cells) /\ Len(rx) \in Nat /\ replies \in Nat /\ encrypted \in BOOLEAN
  BY DEF SetupInv, SetupTypeOK
<1>2. UNCHANGED <<kind, at, encrypted, padD>> /\ replies' = replies + 1
  BY DEF Answer, SayKey, SaySelect, SayHandshake, Says, setupVars
<1>3. CASE SayKey
  <2>1. at = "dh"
    BY <1>3, SetupInvSayKey
  <2> QED BY <1>2, <2>1 DEF StagesFollow
<1>4. CASE SaySelect
  <2>1. encrypted /\ replies = 1 /\ replies' = 2
    BY <1>2, <1>4, SetupInvSaySelect
  <2>2. PICK n \in 0 .. 1 : Join(Cells, rx, SelectCells(n), rx')
    BY <1>4, SetupInvSaySelect
  <2>3. /\ Len(SelectCells(n)) = 1 + n /\ SelectCells(n)[1].what = "select"
        /\ SelectCells(n)[1].n = n
    BY SelectCellsAre
  <2>4. ASSUME kind \in {"mse", "plaintext"} PROVE at \notin {"padD", "handshake", "open"}
    BY <2>1, <2>4 DEF StagesFollow
  <2>5. ASSUME kind \in {"mse", "plaintext"}, at = "negotiate"
        PROVE  rx' # <<>> /\ rx'[1].what = "select" /\ Len(rx') = 1 + rx'[1].n
    <3>1. Len(rx) = 0
      BY <1>1, <2>1, <2>5, EmptyOrNot DEF StagesFollow
    <3>2. /\ rx' \in Seq(Cells) /\ Len(rx') = 0 + (1 + n)
          /\ \A k \in 1 .. 1 + n : rx'[0 + k] = SelectCells(n)[k]
      BY <2>2, <2>3, <3>1 DEF Join
    <3>3. 1 \in 1 .. 1 + n /\ 0 + 1 = 1 /\ 0 + (1 + n) = 1 + n /\ 1 + n # 0
      OBVIOUS
    <3>4. rx'[1] = SelectCells(n)[1]
      BY <3>2, <3>3
    <3> QED BY <2>3, <3>2, <3>3, <3>4, EmptyOrNot
  <2>6. at # "open"
    <3>1. CASE kind \in {"mse", "plaintext"}
      BY <2>4, <3>1
    <3>2. CASE kind \notin {"mse", "plaintext"}
      BY <2>1, <3>2 DEF SetupInv, KeysFollow, Strangers, KnowsMSE
    <3> QED BY <3>1, <3>2
  <2> QED BY <1>2, <2>1, <2>4, <2>5, <2>6 DEF StagesFollow
<1>5. CASE SayHandshake
  <2>1. at = "handshake" /\ Len(rx') = Len(rx) + 1 /\ replies = (IF encrypted THEN 2 ELSE 0)
    BY <1>5, SetupInvSayHandshake
  <2>2. replies' = (IF encrypted THEN 3 ELSE 1)
    BY <1>1, <1>2, <2>1
  <2>3. encrypted => (kind \in {"mse", "plaintext"} => Len(rx') <= 1)
    <3>1. SUFFICES ASSUME encrypted, kind \in {"mse", "plaintext"} PROVE Len(rx') <= 1
      OBVIOUS
    <3>2. Len(rx) = 0
      BY <1>1, <2>1, <3>1, EmptyOrNot DEF StagesFollow
    <3> QED BY <2>1, <3>2
  <2>4. ~encrypted => Len(rx') <= 1
    <3>1. SUFFICES ASSUME ~encrypted PROVE Len(rx') <= 1
      OBVIOUS
    <3>2. Len(rx) = 0
      BY <1>1, <2>1, <3>1, EmptyOrNot DEF StagesFollow
    <3> QED BY <2>1, <3>2
  <2> QED BY <1>2, <2>1, <2>2, <2>3, <2>4 DEF StagesFollow
<1> QED BY <1>2, <1>3, <1>4, <1>5 DEF Answer

LEMMA StagesStep ==
    ASSUME SetupInv, StagesFollow, [Next]_vars
    PROVE  StagesFollow'
<1>1. CASE SetupStep
  BY <1>1, StagesSetup
<1>2. CASE Answer
  BY <1>2, StagesAnswer
<1>3. CASE SayMessage
  <2>1. at = "open" /\ UNCHANGED <<kind, at, encrypted>> /\ replies' = replies + 1 /\ replies \in Nat
    BY <1>3 DEF SayMessage, Says, setupVars, SetupInv, SetupTypeOK
  <2> QED BY <2>1 DEF StagesFollow
<1>4. CASE RemoteCloses
  <2>1. /\ UNCHANGED <<kind, at, encrypted, padD, replies>>
        /\ rx' = rx \/ at = "open"
    BY <1>4 DEF RemoteCloses, setupVars
  <2> QED BY <2>1 DEF StagesFollow
<1>5. CASE Receive
  <2>1. at = "open" /\ UNCHANGED <<kind, at, encrypted, replies>>
    BY <1>5 DEF Receive, Reading, Take, setupVars
  <2> QED BY <2>1 DEF StagesFollow
<1>6. CASE TakePrefix \/ TakeMessage \/ Timeout \/ EndOfStream \/ WriteStep \/ UNCHANGED vars
  <2>1. UNCHANGED <<kind, setupVars, remoteVars, dkey>>
    BY <1>6 DEF TakePrefix, TakeMessage, Timeout, EndOfStream, WriteStep, Send, PollPlain, PollRest,
       WakeByChance, PollWrite, vars
  <2> QED BY <2>1, StagesFramed DEF setupVars, remoteVars
<1> QED BY <1>1, <1>2, <1>3, <1>4, <1>5, <1>6 DEF Next, ReadStep

-----------------------------------------------------------------------------
(* Reading: the messages accepted.                                         *)

LEMMA AcceptedRecur ==
    ASSUME NEW ms \in Seq(MessageSet)
    PROVE  /\ \A n \in 0 .. Len(ms) : Accepted(ms)[n] \in Seq(MessageSet)
           /\ Accepted(ms)[0] = <<>>
           /\ \A n \in 1 .. Len(ms) :
                 Accepted(ms)[n] = IF ms[n].payload < MinPayload(ms[n].type) THEN Accepted(ms)[n - 1]
                                   ELSE Append(Accepted(ms)[n - 1], ms[n])
<1> DEFINE L == Len(ms)
           T == Seq(MessageSet)
           Small(n) == ms[n].payload < MinPayload(ms[n].type)
           h == [n \in 1 .. L |-> [s \in T |-> IF Small(n) THEN s ELSE Append(s, ms[n])]]
           G(f, n) == IF n = 0 THEN <<>> ELSE IF Small(n) THEN f[n - 1] ELSE Append(f[n - 1], ms[n])
           F(f) == [n \in 0 .. L |-> G(f, n)]
<1>1. L \in Nat /\ <<>> \in T /\ \A n \in 1 .. L : ms[n] \in MessageSet
  OBVIOUS
<1>2. h \in [1 .. L -> [T -> T]]
  <2>1. ASSUME NEW n \in 1 .. L, NEW s \in T PROVE (IF Small(n) THEN s ELSE Append(s, ms[n])) \in T
    BY <1>1
  <2> HIDE DEF T, L, Small
  <2> QED BY <2>1
<1>3. PICK f : Recurs(f, L, T, <<>>, h)
  <2> HIDE DEF h, L, T
  <2> QED BY <1>1, <1>2, RecursionExists
<1>4. f = F(f)
  <2>1. f \in [0 .. L -> T] /\ f[0] = <<>> /\ \A n \in 1 .. L : f[n] = h[n][f[n - 1]]
    BY <1>3 DEF Recurs
  <2>2. \A n \in 1 .. L : f[n] = IF Small(n) THEN f[n - 1] ELSE Append(f[n - 1], ms[n])
    <3> TAKE n \in 1 .. L
    <3>1. f[n] = h[n][f[n - 1]]
      <4> HIDE DEF h, L, T
      <4> QED BY <2>1
    <3>2. f[n - 1] \in T
      <4>1. n - 1 \in 0 .. L
        BY <1>1
      <4> HIDE DEF h, L, T
      <4> QED BY <2>1, <4>1
    <3> HIDE DEF T, L, Small
    <3> QED BY <3>1, <3>2
  <2>3. ASSUME NEW n \in 0 .. L PROVE f[n] = G(f, n)
    <3>1. n = 0 \/ n \in 1 .. L
      BY <1>1
    <3>2. CASE n = 0
      BY <2>1, <3>2
    <3>3. CASE n \in 1 .. L
      <4>1. n # 0
        BY <3>3
      <4> HIDE DEF T, L, Small
      <4> QED BY <2>2, <3>3, <4>1
    <3> QED BY <3>1, <3>2, <3>3
  <2> HIDE DEF T, L, Small, G
  <2> QED BY <2>1, <2>3
<1>5. Accepted(ms) = F(Accepted(ms))
  BY <1>4 DEF Accepted
<1>6. /\ Accepted(ms)[0] = <<>>
      /\ \A n \in 1 .. L : Accepted(ms)[n] = IF Small(n) THEN Accepted(ms)[n - 1]
                                             ELSE Append(Accepted(ms)[n - 1], ms[n])
  <2>1. \A n \in 0 .. L : Accepted(ms)[n] = G(Accepted(ms), n)
    <3> HIDE DEF L, G
    <3> QED BY <1>5
  <2>2. 0 \in 0 .. L /\ \A n \in 1 .. L : n \in 0 .. L /\ n # 0
    BY <1>1
  <2> HIDE DEF L, Small
  <2> QED BY <2>1, <2>2
<1>7. \A n \in 0 .. L : Accepted(ms)[n] \in T
  <2> DEFINE S == {n \in 0 .. L : Accepted(ms)[n] \in T}
  <2>1. 0 \in S
    <3>1. 0 \in 0 .. L
      BY <1>1
    <3> HIDE DEF T, L
    <3> QED BY <1>1, <1>6, <3>1
  <2>2. ASSUME NEW n \in 1 .. L, n - 1 \in S PROVE n \in S
    <3>1. Accepted(ms)[n - 1] \in T /\ ms[n] \in MessageSet
      BY <1>1, <2>2
    <3>2. Append(Accepted(ms)[n - 1], ms[n]) \in T
      BY <3>1
    <3> HIDE DEF T, Small
    <3> QED BY <1>6, <3>1, <3>2
  <2>3. 0 .. L \subseteq S
    <3> HIDE DEF S
    <3> QED BY <1>1, <2>1, <2>2, RangeInduction
  <2> QED BY <2>3
<1> QED BY <1>6, <1>7

\* What is accepted of the first messages does not depend on those after them.
LEMMA AcceptedAgree ==
    ASSUME NEW ms \in Seq(MessageSet), NEW ns \in Seq(MessageSet), NEW L \in Nat,
           L <= Len(ms), L <= Len(ns), \A n \in 1 .. L : ms[n] = ns[n]
    PROVE  \A n \in 0 .. L : Accepted(ms)[n] = Accepted(ns)[n]
<1> DEFINE S == {n \in 0 .. L : Accepted(ms)[n] = Accepted(ns)[n]}
<1>1. 0 \in S
  BY AcceptedRecur
<1>2. ASSUME NEW n \in 1 .. L, n - 1 \in S PROVE n \in S
  <2>1. n \in 1 .. Len(ms) /\ n \in 1 .. Len(ns) /\ ms[n] = ns[n]
    OBVIOUS
  <2>2. Accepted(ms)[n - 1] = Accepted(ns)[n - 1]
    BY <1>2
  <2>3. Accepted(ms)[n] = Accepted(ns)[n]
    BY <2>1, <2>2, AcceptedRecur
  <2> QED BY <2>3
<1>3. 0 .. L \subseteq S
  <2> HIDE DEF S
  <2> QED BY <1>1, <1>2, RangeInduction
<1> QED BY <1>3

\* And it is a prefix of what is accepted of all.
LEMMA AcceptedGrows ==
    ASSUME NEW ms \in Seq(MessageSet), NEW n \in 0 .. Len(ms)
    PROVE  IsPrefix(Accepted(ms)[n], Accepted(ms)[Len(ms)])
<1> DEFINE A == Accepted(ms)
           L == Len(ms)
           Begins(k) == Len(A[n]) <= Len(A[k]) /\ \A i \in 1 .. Len(A[n]) : A[k][i] = A[n][i]
           S == {k \in 0 .. L : k >= n => Begins(k)}
<1>1. L \in Nat /\ \A k \in 0 .. L : A[k] \in Seq(MessageSet) /\ Len(A[k]) \in Nat
  BY AcceptedRecur
<1>2. 0 \in S
  <2>1. 0 >= n => n = 0
    BY <1>1
  <2>2. Begins(n)
    BY <1>1
  <2> QED BY <1>1, <2>1, <2>2
<1>3. ASSUME NEW k \in 1 .. L, k - 1 \in S PROVE k \in S
  <2>1. SUFFICES ASSUME k >= n PROVE Begins(k)
    BY <1>1
  <2>2. CASE k = n
    BY <1>1, <2>2
  <2>3. CASE k # n
    <3>1. k - 1 >= n /\ k - 1 \in 0 .. L
      BY <1>1, <2>1, <2>3
    <3>2. Begins(k - 1)
      BY <1>3, <3>1
    <3>3. A[k] = A[k - 1] \/ A[k] = Append(A[k - 1], ms[k])
      BY AcceptedRecur
    <3>4. A[k - 1] \in Seq(MessageSet) /\ A[n] \in Seq(MessageSet) /\ ms[k] \in MessageSet
      BY <1>1, <3>1
    <3>5. CASE A[k] = A[k - 1]
      BY <3>2, <3>5
    <3>6. CASE A[k] = Append(A[k - 1], ms[k])
      <4> HIDE DEF A, L, S
      <4>1. /\ Len(A[k]) = Len(A[k - 1]) + 1
            /\ \A i \in 1 .. Len(A[k - 1]) : A[k][i] = A[k - 1][i]
        BY <3>4, <3>6
      <4>2. Len(A[k - 1]) \in Nat /\ Len(A[n]) \in Nat
        BY <3>4
      <4>3. \A i \in 1 .. Len(A[n]) : i \in 1 .. Len(A[k - 1])
        BY <3>2, <4>2
      <4> QED BY <3>2, <4>1, <4>2, <4>3
    <3> QED BY <3>3, <3>5, <3>6
  <2> QED BY <2>2, <2>3
<1>4. 0 .. L \subseteq S
  <2> HIDE DEF S
  <2> QED BY <1>1, <1>2, <1>3, RangeInduction
<1>5. Begins(L) /\ A[n] \in Seq(MessageSet) /\ A[L] \in Seq(MessageSet) /\ Len(A[n]) \in Nat
  BY <1>1, <1>4
<1> HIDE DEF A, L
<1>6. SubSeq(A[n], 1, Len(A[n])) = SubSeq(A[L], 1, Len(A[n]))
  BY <1>5
<1> QED BY <1>5, <1>6 DEF IsPrefix, A, L


-----------------------------------------------------------------------------
(* Reading: the cells follow each other.                                   *)

LEMMA PlacesAre ==
    ASSUME NEW s \in Seq(Cells), NEW e
    PROVE  /\ \A j \in 1 .. Len(s) : PlacesOf(s, e)[j] = PlaceOf(s[j])
           /\ PlacesOf(s, e)[Len(s) + 1] = e
BY DEF PlacesOf

\* The first cells are taken.
LEMMA ChainDrop ==
    ASSUME NEW ms, NEW s \in Seq(Cells), NEW p, NEW e, NEW n \in 0 .. Len(s), NEW t \in Seq(Cells),
           Rear(Cells, s, n, t), Chain(ms, s, p, e)
    PROVE  Chain(ms, t, PlacesOf(s, e)[n + 1], e)
<1>1. /\ Len(s) \in Nat /\ Len(t) \in Nat /\ n \in Nat /\ n <= Len(s) /\ Len(t) = Len(s) - n
      /\ \A k \in 1 .. Len(t) : t[k] = s[n + k]
  BY DEF Rear
<1>2. \A j \in 1 .. Len(t) : n + j \in 1 .. Len(s) /\ t[j] = s[n + j]
  BY <1>1
<1>3. ASSUME NEW j \in 1 .. Len(t) + 1 PROVE PlacesOf(t, e)[j] = PlacesOf(s, e)[n + j]
  <2>1. CASE j \in 1 .. Len(t)
    BY <1>2, <2>1, PlacesAre
  <2>2. CASE j \notin 1 .. Len(t)
    <3>1. j = Len(t) + 1 /\ n + j = Len(s) + 1
      BY <1>1, <2>2
    <3> QED BY <3>1, PlacesAre
  <2> QED BY <2>1, <2>2
<1>4. PlacesOf(t, e)[1] = PlacesOf(s, e)[n + 1]
  <2>1. 1 \in 1 .. Len(t) + 1
    BY <1>1
  <2> QED BY <1>3, <2>1
<1>5. ASSUME NEW j \in 1 .. Len(t) PROVE PlacesOf(t, e)[j + 1] = After(ms, PlacesOf(t, e)[j])
  <2>1. j \in 1 .. Len(t) + 1 /\ j + 1 \in 1 .. Len(t) + 1 /\ n + (j + 1) = (n + j) + 1
        /\ n + j \in 1 .. Len(s)
    BY <1>1
  <2>2. PlacesOf(t, e)[j + 1] = PlacesOf(s, e)[(n + j) + 1] /\ PlacesOf(t, e)[j] = PlacesOf(s, e)[n + j]
    BY <1>3, <2>1
  <2> QED BY <2>1, <2>2 DEF Chain
<1>6. \A j \in 1 .. Len(t) :
         /\ t[j].what = "message" /\ t[j].n \in 1 .. Len(ms)
         /\ t[j].part \in 0 .. BodyLength(ms[t[j].n])
  BY <1>2 DEF Chain
<1>7. ASSUME NEW i \in 1 .. Len(t), NEW j \in 1 .. Len(t), i < j, t[i].n = t[j].n
      PROVE  t[i].part < t[j].part
  <2>1. n + i < n + j /\ n + i \in 1 .. Len(s) /\ n + j \in 1 .. Len(s)
    BY <1>1, <1>2, <1>7
  <2> QED BY <1>2, <1>7, <2>1 DEF Chain
<1> QED BY <1>4, <1>5, <1>6, <1>7 DEF Chain

\* The last cells are lost.
LEMMA ChainCut ==
    ASSUME NEW ms, NEW s \in Seq(Cells), NEW p, NEW e, NEW h \in Seq(Cells),
           Len(h) < Len(s), \A k \in 1 .. Len(h) : h[k] = s[k],
           Chain(ms, s, p, e)
    PROVE  Chain(ms, h, p, PlaceOf(s[Len(h) + 1]))
<1> DEFINE f == PlaceOf(s[Len(h) + 1])
<1>1. Len(s) \in Nat /\ Len(h) \in Nat /\ \A j \in 1 .. Len(h) : j \in 1 .. Len(s)
  OBVIOUS
<1>2. Len(h) + 1 \in 1 .. Len(s)
  BY <1>1
<1> HIDE DEF f
<1>3. ASSUME NEW j \in 1 .. Len(h) + 1 PROVE PlacesOf(h, f)[j] = PlacesOf(s, e)[j]
  <2>1. CASE j \in 1 .. Len(h)
    BY <1>1, <2>1, PlacesAre
  <2>2. CASE j \notin 1 .. Len(h)
    <3>1. j = Len(h) + 1
      BY <1>1, <2>2
    <3> QED BY <1>2, <3>1, PlacesAre DEF f
  <2> QED BY <2>1, <2>2
<1>4. PlacesOf(h, f)[1] = p
  <2>1. 1 \in 1 .. Len(h) + 1
    BY <1>1
  <2> QED BY <1>3, <2>1 DEF Chain
<1>5. ASSUME NEW j \in 1 .. Len(h) PROVE PlacesOf(h, f)[j + 1] = After(ms, PlacesOf(h, f)[j])
  <2>1. j \in 1 .. Len(h) + 1 /\ j + 1 \in 1 .. Len(h) + 1 /\ j \in 1 .. Len(s)
    BY <1>1
  <2> QED BY <1>3, <2>1 DEF Chain
<1>6. \A j \in 1 .. Len(h) :
         /\ h[j].what = "message" /\ h[j].n \in 1 .. Len(ms)
         /\ h[j].part \in 0 .. BodyLength(ms[h[j].n])
  BY <1>1 DEF Chain
<1>7. \A i, j \in 1 .. Len(h) : i < j /\ h[i].n = h[j].n => h[i].part < h[j].part
  BY <1>1 DEF Chain
<1> QED BY <1>4, <1>5, <1>6, <1>7 DEF Chain, f

\* The chain depends on those messages only whose cells it holds.
LEMMA ChainAgrees ==
    ASSUME NEW ms, NEW ns, NEW s \in Seq(Cells), NEW p, NEW e, Chain(ms, s, p, e),
           \A j \in 1 .. Len(s) : s[j].n \in 1 .. Len(ns) /\ ns[s[j].n] = ms[s[j].n]
    PROVE  Chain(ns, s, p, e)
<1>1. ASSUME NEW j \in 1 .. Len(s) PROVE PlacesOf(s, e)[j + 1] = After(ns, PlacesOf(s, e)[j])
  <2>1. PlacesOf(s, e)[j] = <<s[j].n, s[j].part>>
    BY PlacesAre DEF PlaceOf
  <2>2. PlacesOf(s, e)[j + 1] = After(ms, <<s[j].n, s[j].part>>)
    BY <2>1 DEF Chain
  <2>3. After(ms, <<s[j].n, s[j].part>>) = After(ns, <<s[j].n, s[j].part>>)
    BY DEF After
  <2> QED BY <2>1, <2>2, <2>3
<1> QED BY <1>1 DEF Chain

\* One more message is sent.
LEMMA ChainExtend ==
    ASSUME NEW ms \in Seq(MessageSet), NEW s \in Seq(Cells), NEW p,
           Chain(ms, s, p, <<Len(ms) + 1, 0>>),
           NEW m \in MessageSet, NEW key \in Int, NEW r,
           Join(Cells, s, Encode(m, Len(ms) + 1, key), r)
    PROVE  Chain(Append(ms, m), r, p, <<Len(Append(ms, m)) + 1, 0>>)
<1> DEFINE N == Len(ms)
           ns == Append(ms, m)
           c == Encode(m, N + 1, key)
           B == BodyLength(m)
           d == <<N + 1, 0>>
           e == <<N + 2, 0>>
<1>1. N \in Nat /\ Len(s) \in Nat /\ B \in Nat
  BY BodyLengthIsNat
<1>2. /\ c \in Seq(Cells) /\ Len(c) = 1 + B
      /\ \A k \in 1 .. 1 + B : c[k].what = "message" /\ c[k].n = N + 1 /\ c[k].part = k - 1
  <2>1. N + 1 \in Nat
    BY <1>1
  <2>2. /\ c \in Seq(Cells) /\ Len(c) = 1 + B
        /\ \A k \in 1 .. 1 + B :
              c[k] = Cell("message", N + 1, k - 1, IF key = None THEN None ELSE key + k - 1)
    BY <2>1, EncodeCells
  <2> HIDE DEF c, B, N
  <2>3. ASSUME NEW k \in 1 .. 1 + B
        PROVE  c[k].what = "message" /\ c[k].n = N + 1 /\ c[k].part = k - 1
    BY <2>2 DEF Cell
  <2> QED BY <2>2, <2>3
<1>3. /\ ns \in Seq(MessageSet) /\ Len(ns) = N + 1 /\ ns[N + 1] = m
      /\ \A k \in 1 .. N : ns[k] = ms[k]
  BY <1>1
<1>4. /\ r \in Seq(Cells) /\ Len(r) = Len(s) + (1 + B)
      /\ \A k \in 1 .. Len(s) : r[k] = s[k]
      /\ \A k \in 1 .. 1 + B : r[Len(s) + k] = c[k]
  BY <1>2 DEF Join
<1> HIDE DEF ns, c, B, d, e
<1>5. Chain(ns, s, p, d)
  <2>1. \A j \in 1 .. Len(s) : s[j].n \in 1 .. N
    BY DEF Chain
  <2>2. \A j \in 1 .. Len(s) : s[j].n \in 1 .. Len(ns) /\ ns[s[j].n] = ms[s[j].n]
    BY <1>1, <1>3, <2>1
  <2> QED BY <2>2, ChainAgrees DEF d
<1>6. ASSUME NEW j \in 1 .. Len(r)
      PROVE  \/ j \in 1 .. Len(s) /\ r[j] = s[j]
             \/ \E k \in 1 .. 1 + B : j = Len(s) + k /\ r[j] = c[k]
  <2>1. CASE j <= Len(s)
    BY <1>1, <1>4, <2>1
  <2>2. CASE ~ (j <= Len(s))
    <3>1. j - Len(s) \in 1 .. 1 + B /\ j = Len(s) + (j - Len(s))
      BY <1>1, <1>4, <2>2
    <3> QED BY <1>4, <3>1
  <2> QED BY <2>1, <2>2
<1>7. ASSUME NEW k \in 1 .. 1 + B PROVE PlacesOf(r, e)[Len(s) + k] = <<N + 1, k - 1>>
  <2>1. Len(s) + k \in 1 .. Len(r) /\ r[Len(s) + k] = c[k]
    BY <1>1, <1>4
  <2>2. PlacesOf(r, e)[Len(s) + k] = PlaceOf(c[k])
    BY <1>4, <2>1, PlacesAre
  <2>3. PlaceOf(c[k]) = <<N + 1, k - 1>>
    BY <1>2 DEF PlaceOf
  <2> QED BY <2>2, <2>3
<1>8. ASSUME NEW j \in 1 .. Len(s) + 1 PROVE PlacesOf(r, e)[j] = PlacesOf(s, d)[j]
  <2>1. CASE j \in 1 .. Len(s)
    <3>1. j \in 1 .. Len(r) /\ r[j] = s[j]
      BY <1>1, <1>4, <2>1
    <3> QED BY <1>4, <2>1, <3>1, PlacesAre
  <2>2. CASE j \notin 1 .. Len(s)
    <3>1. j = Len(s) + 1 /\ 1 \in 1 .. 1 + B /\ 1 - 1 = 0
      BY <1>1, <2>2
    <3>2. PlacesOf(r, e)[Len(s) + 1] = <<N + 1, 1 - 1>>
      BY <1>7, <3>1
    <3> QED BY <3>1, <3>2, PlacesAre DEF d
  <2> QED BY <2>1, <2>2
<1>9. PlacesOf(r, e)[1] = p
  <2>1. 1 \in 1 .. Len(s) + 1
    BY <1>1
  <2> QED BY <1>5, <1>8, <2>1 DEF Chain
<1>10. ASSUME NEW j \in 1 .. Len(r) PROVE PlacesOf(r, e)[j + 1] = After(ns, PlacesOf(r, e)[j])
  <2>1. CASE j \in 1 .. Len(s)
    <3>1. j \in 1 .. Len(s) + 1 /\ j + 1 \in 1 .. Len(s) + 1
      BY <1>1, <2>1
    <3> QED BY <1>5, <1>8, <2>1, <3>1 DEF Chain
  <2>2. ASSUME NEW k \in 1 .. 1 + B, j = Len(s) + k
        PROVE  PlacesOf(r, e)[j + 1] = After(ns, PlacesOf(r, e)[j])
    <3>1. PlacesOf(r, e)[j] = <<N + 1, k - 1>>
      BY <1>7, <2>2
    <3>2. CASE k = 1 + B
      <4>1. j + 1 = Len(r) + 1 /\ ~ (k - 1 < B) /\ N + 1 + 1 = N + 2
        BY <1>1, <1>4, <2>2, <3>2
      <4>2. PlacesOf(r, e)[j + 1] = <<N + 2, 0>>
        BY <1>4, <4>1, PlacesAre DEF e
      <4>3. After(ns, <<N + 1, k - 1>>) = <<N + 1 + 1, 0>>
        BY <1>3, <4>1 DEF After, B
      <4> QED BY <3>1, <4>1, <4>2, <4>3
    <3>3. CASE k # 1 + B
      <4>1. k + 1 \in 1 .. 1 + B /\ k - 1 < B /\ (k + 1) - 1 = (k - 1) + 1
            /\ Len(s) + (k + 1) = j + 1
        BY <1>1, <2>2, <3>3
      <4>2. PlacesOf(r, e)[j + 1] = <<N + 1, (k - 1) + 1>>
        BY <1>7, <4>1
      <4>3. After(ns, <<N + 1, k - 1>>) = <<N + 1, (k - 1) + 1>>
        BY <1>3, <4>1 DEF After, B
      <4> QED BY <3>1, <4>2, <4>3
    <3> QED BY <3>2, <3>3
  <2> QED BY <1>6, <2>1, <2>2
<1>11. ASSUME NEW j \in 1 .. Len(r)
       PROVE  /\ r[j].what = "message" /\ r[j].n \in 1 .. Len(ns)
              /\ r[j].part \in 0 .. BodyLength(ns[r[j].n])
  <2>1. CASE j \in 1 .. Len(s) /\ r[j] = s[j]
    BY <1>5, <2>1 DEF Chain
  <2>2. ASSUME NEW k \in 1 .. 1 + B, r[j] = c[k]
        PROVE  /\ r[j].what = "message" /\ r[j].n \in 1 .. Len(ns)
               /\ r[j].part \in 0 .. BodyLength(ns[r[j].n])
    <3>1. k - 1 \in 0 .. B /\ N + 1 \in 1 .. Len(ns)
      BY <1>1, <1>3
    <3> QED BY <1>2, <1>3, <2>2, <3>1 DEF B
  <2> QED BY <1>6, <2>1, <2>2
<1>12. ASSUME NEW i \in 1 .. Len(r), NEW j \in 1 .. Len(r), i < j, r[i].n = r[j].n
       PROVE  r[i].part < r[j].part
  <2>1. \A k \in 1 .. Len(s) : s[k].n \in 1 .. N
    BY DEF Chain
  <2>2. CASE j \in 1 .. Len(s) /\ r[j] = s[j]
    <3>1. i \in 1 .. Len(s) /\ r[i] = s[i]
      BY <1>1, <1>4, <1>12, <2>2
    <3> QED BY <1>5, <1>12, <2>2, <3>1 DEF Chain
  <2>3. ASSUME NEW k \in 1 .. 1 + B, j = Len(s) + k, r[j] = c[k]
        PROVE  r[i].part < r[j].part
    <3>1. r[j].n = N + 1 /\ r[j].part = k - 1
      BY <1>2, <2>3
    <3>2. ~ (i \in 1 .. Len(s) /\ r[i] = s[i])
      BY <1>1, <1>12, <2>1, <3>1
    <3>3. PICK l \in 1 .. 1 + B : i = Len(s) + l /\ r[i] = c[l]
      BY <1>6, <3>2
    <3>4. l - 1 < k - 1
      BY <1>1, <1>12, <2>3, <3>3
    <3> QED BY <1>2, <3>1, <3>3, <3>4
  <2> QED BY <1>6, <2>2, <2>3
<1>13. <<Len(ns) + 1, 0>> = e
  BY <1>1, <1>3 DEF e
<1>14. Chain(ns, r, p, e)
  BY <1>9, <1>10, <1>11, <1>12 DEF Chain
<1> QED BY <1>13, <1>14 DEF ns


-----------------------------------------------------------------------------
(* Reading: the proof.                                                     *)

LEMMA UntouchedStep ==
    ASSUME SetupInv, StagesFollow, at # "open" => Untouched, [Next]_vars
    PROVE  at' # "open" => Untouched'
<1>1. CASE SetupStep
  <2>1. UNCHANGED <<incoming, readVars>>
    BY <1>1 DEF SetupStep, Connect, ConnectFailed, ReadKey, ReadSelect, ReadPadD, Negotiated,
       ReadHandshake, BadHandshake, SetupEOF, Reconnect, Take, remoteVars
  <2>2. at # "open"
    BY <1>1 DEF SetupStep, Connect, ConnectFailed, ReadKey, ReadSelect, ReadPadD, Negotiated,
       ReadHandshake, BadHandshake, SetupEOF, Reconnect
  <2> QED BY <2>1, <2>2 DEF Untouched, readVars
<1>2. CASE Answer
  <2>1. UNCHANGED <<at, incoming, readVars>>
    BY <1>2 DEF Answer, SayKey, SaySelect, SayHandshake, Says, setupVars
  <2> QED BY <2>1 DEF Untouched, readVars
<1>3. CASE SayMessage \/ ReadStep
  BY <1>3 DEF SayMessage, Says, setupVars, ReadStep, Receive, TakePrefix, TakeMessage, Timeout,
     EndOfStream, Reading
<1>4. CASE RemoteCloses
  <2>1. at' = at /\ UNCHANGED readVars /\ (at # "open" => incoming' = incoming)
    BY <1>4 DEF RemoteCloses, setupVars
  <2> QED BY <2>1 DEF Untouched, readVars
<1>5. CASE WriteStep \/ UNCHANGED vars
  <2>1. UNCHANGED <<at, incoming, readVars>>
    BY <1>5 DEF WriteStep, Send, PollPlain, PollRest, WakeByChance, PollWrite, vars, setupVars,
       remoteVars
  <2> QED BY <2>1 DEF Untouched, readVars
<1> QED BY <1>1, <1>2, <1>3, <1>4, <1>5 DEF Next

LEMMA StreamFramed ==
    ASSUME StreamInv, UNCHANGED <<at, buf, need, got, rx, closed, incoming>>,
           cut => cut', phase' = phase \/ phase' # "eof"
    PROVE  StreamInv'
BY DEF StreamInv, InFrame, Awaited

\* It opens with nothing on its way.
LEMMA StreamOpens ==
    ASSUME SetupInv, StagesFollow, at # "open" => Untouched, SetupStep
    PROVE  StreamInv'
<1>1. SUFFICES ASSUME at' = "open" PROVE buf' \in Seq(Cells) /\ \E n \in 0 .. Len(incoming') : InFrame(n)'
  BY DEF StreamInv
<1>2. at = "handshake" /\ rx' = <<>>
  BY <1>1, StagesSetup
<1>3. UNCHANGED <<incoming, readVars>>
  BY DEF SetupStep, Connect, ConnectFailed, ReadKey, ReadSelect, ReadPadD, Negotiated,
     ReadHandshake, BadHandshake, SetupEOF, Reconnect, Take, remoteVars
<1>4. incoming' = <<>> /\ buf' = <<>> /\ need' = None /\ got' = <<>> /\ phase' = "initial"
  BY <1>2, <1>3 DEF Untouched, readVars
<1>5. <<>> \o <<>> = <<>> /\ Len(<<>>) = 0 /\ <<>> \in Seq(Cells) /\ <<>> \in Seq(MessageSet)
  OBVIOUS
<1>6. Accepted(<<>>)[0] = <<>>
  BY <1>5, AcceptedRecur
<1>7. <<0 + 1, 0>> \in Ends(<<>>, closed')
  BY <1>5 DEF Ends
<1>8. Chain(<<>>, <<>>, <<0 + 1, 0>>, <<0 + 1, 0>>)
  <2> DEFINE e == <<0 + 1, 0>>
  <2>1. e = e
    OBVIOUS
  <2> HIDE DEF e
  <2>2. PlacesOf(<<>>, e)[0 + 1] = e
    BY <1>5, PlacesAre
  <2>3. 0 + 1 = 1 /\ \A j \in 1 .. 0 : FALSE
    OBVIOUS
  <2>4. Chain(<<>>, <<>>, e, e)
    BY <1>5, <2>2, <2>3 DEF Chain
  <2> QED BY <2>4 DEF e
<1>9. InFrame(0)'
  <2>1. Awaited(incoming', need', 0) = <<0 + 1, 0>> /\ buf' \o rx' = <<>>
    BY <1>2, <1>4, <1>5 DEF Awaited
  <2>2. \E e \in Ends(incoming', closed') :
           Chain(incoming', buf' \o rx', Awaited(incoming', need', 0), e)
    BY <1>4, <1>7, <1>8, <2>1
  <2>3. got' = Accepted(incoming')[0] /\ need' = None /\ phase' # "eof"
    BY <1>4, <1>6
  <2> QED BY <2>2, <2>3 DEF InFrame
<1> QED BY <1>4, <1>5, <1>9

\* A message is sent.
LEMMA StreamSays ==
    ASSUME SetupInv, MessagesOK, StreamInv, SayMessage
    PROVE  StreamInv'
<1>1. UNCHANGED <<at, cut, buf, need, got, phase, closed>> /\ at = "open" /\ ~closed
  BY DEF SayMessage, Says, setupVars, readVars
<1>2. SUFFICES ASSUME ~cut PROVE buf' \in Seq(Cells) /\ \E n \in 0 .. Len(incoming') : InFrame(n)'
  BY <1>1 DEF StreamInv
<1>3. PICK n \in 0 .. Len(incoming) : InFrame(n)
  BY <1>1, <1>2 DEF StreamInv
<1>4. PICK m \in MessageSet, key \in Int :
        /\ incoming' = Append(incoming, m)
        /\ Join(Cells, rx, Encode(m, Len(incoming) + 1, key), rx')
  BY SetupInvSayMessage
<1>5. /\ incoming \in Seq(MessageSet) /\ Len(incoming) \in Nat /\ buf \in Seq(Cells)
      /\ rx \in Seq(Cells) /\ n \in Nat /\ n <= Len(incoming)
  BY <1>1, <1>2 DEF MessagesOK, SetupInv, SetupTypeOK, StreamInv
<1>6. /\ incoming' \in Seq(MessageSet) /\ Len(incoming') = Len(incoming) + 1
      /\ \A k \in 1 .. Len(incoming) : incoming'[k] = incoming[k]
  BY <1>4, <1>5
<1>7. PICK e \in Ends(incoming, closed) : Chain(incoming, buf \o rx, Awaited(incoming, need, n), e)
  BY <1>3 DEF InFrame
<1>8. e = <<Len(incoming) + 1, 0>>
  BY <1>1 DEF Ends
<1>9. Join(Cells, buf \o rx, Encode(m, Len(incoming) + 1, key), buf \o rx')
  <2>1. Encode(m, Len(incoming) + 1, key) \in Seq(Cells)
    <3>1. Len(incoming) + 1 \in Nat
      BY <1>5
    <3> QED BY <3>1, EncodeCells
  <2> QED BY <1>4, <1>5, <2>1, JoinAssociates
<1>10. buf \o rx \in Seq(Cells)
  BY <1>5
<1>11. Chain(incoming', buf \o rx', Awaited(incoming, need, n), <<Len(incoming') + 1, 0>>)
  BY <1>4, <1>5, <1>7, <1>8, <1>9, <1>10, ChainExtend
<1>12. Awaited(incoming', need, n) = Awaited(incoming, need, n)
  <2>1. CASE need = None
    BY <2>1 DEF Awaited
  <2>2. CASE need # None
    <3>1. n + 1 \in 1 .. Len(incoming)
      BY <1>3, <1>5, <2>2 DEF InFrame
    <3>2. incoming'[n + 1] = incoming[n + 1]
      BY <1>6, <3>1
    <3> QED BY <2>2, <3>2 DEF Awaited, After
  <2> QED BY <2>1, <2>2
<1>13. <<Len(incoming') + 1, 0>> \in Ends(incoming', closed')
  BY DEF Ends
<1>14. need # None => n < Len(incoming') /\ need = BodyLength(incoming'[n + 1])
  <2>1. SUFFICES ASSUME need # None PROVE n < Len(incoming') /\ need = BodyLength(incoming'[n + 1])
    OBVIOUS
  <2>2. n < Len(incoming) /\ need = BodyLength(incoming[n + 1])
    BY <1>3, <2>1 DEF InFrame
  <2>3. n + 1 \in 1 .. Len(incoming) /\ n < Len(incoming')
    BY <1>5, <1>6, <2>2
  <2> QED BY <1>6, <2>2, <2>3
<1>15. got = Accepted(incoming')[n]
  <2>1. Accepted(incoming)[n] = Accepted(incoming')[n]
    <3>1. Len(incoming) <= Len(incoming')
      BY <1>5, <1>6
    <3> QED BY <1>5, <1>6, <3>1, AcceptedAgree
  <2> QED BY <1>3, <2>1 DEF InFrame
<1>16. phase # "eof"
  BY <1>1, <1>3 DEF InFrame
<1>17. n \in 0 .. Len(incoming')
  BY <1>5, <1>6
<1>18. InFrame(n)'
  BY <1>1, <1>11, <1>12, <1>13, <1>14, <1>15, <1>16 DEF InFrame
<1> QED BY <1>1, <1>5, <1>17, <1>18

\* It closes, and cells of the last message are lost.
LEMMA StreamCloses ==
    ASSUME SetupInv, MessagesOK, StreamInv, RemoteCloses
    PROVE  StreamInv'
<1>1. /\ UNCHANGED <<at, cut, buf, need, got, phase>> /\ ~closed /\ closed' = TRUE
  BY DEF RemoteCloses, setupVars, readVars
<1>2. SUFFICES ASSUME at = "open", ~cut
               PROVE  buf' \in Seq(Cells) /\ \E n \in 0 .. Len(incoming') : InFrame(n)'
  BY <1>1 DEF StreamInv
<1>3. PICK n \in 0 .. Len(incoming) : InFrame(n)
  BY <1>2 DEF StreamInv
<1> DEFINE N == Len(incoming)
           s == buf \o rx
<1>4. /\ incoming \in Seq(MessageSet) /\ N \in Nat /\ buf \in Seq(Cells) /\ Len(buf) \in Nat
      /\ rx \in Seq(Cells) /\ Len(rx) \in Nat /\ n \in Nat /\ n <= N
  BY <1>2 DEF MessagesOK, SetupInv, SetupTypeOK, StreamInv
<1>5. PICK e \in Ends(incoming, closed) : Chain(incoming, s, Awaited(incoming, need, n), e)
  BY <1>3 DEF InFrame
<1>6. e = <<N + 1, 0>> /\ phase # "eof"
  BY <1>1, <1>3 DEF Ends, InFrame
<1>7. CASE UNCHANGED <<rx, incoming>>
  <2>1. e \in Ends(incoming, TRUE)
    BY <1>6 DEF Ends
  <2>2. InFrame(n)'
    BY <1>1, <1>3, <1>5, <1>6, <1>7, <2>1 DEF InFrame
  <2> QED BY <1>1, <1>4, <1>7, <2>2
<1>8. ASSUME NEW lost \in 1 .. Len(rx), incoming # <<>>,
             \A j \in Len(rx) - lost + 1 .. Len(rx) : rx[j].n = N,
             rx' = SubSeq(rx, 1, Len(rx) - lost),
             incoming' = IF rx[Len(rx) - lost + 1].part = 0 THEN Front(incoming) ELSE incoming
      PROVE  buf' \in Seq(Cells) /\ \E k \in 0 .. Len(incoming') : InFrame(k)'
  <2> DEFINE h == buf \o rx'
             r == Len(rx) - lost
  <2>1. r \in 0 .. Len(rx) /\ r + 1 \in 1 .. Len(rx) /\ r + 1 \in r + 1 .. Len(rx) /\ N >= 1
    BY <1>4, <1>8
  <2>2. Cut(Cells, rx, r, rx', SubSeq(rx, r + 1, Len(rx)))
    BY <1>4, <1>8, <2>1, Split
  <2>3. rx' \in Seq(Cells) /\ Len(rx') = r /\ \A k \in 1 .. r : rx'[k] = rx[k]
    BY <2>2 DEF Cut
  <2>4. Join(Cells, buf, rx, s) /\ Join(Cells, buf, rx', h)
    BY <1>4, <2>3, Concatenated
  <2>5. rx[r + 1].n = N
    <3>1. \A j \in r + 1 .. Len(rx) : rx[j].n = N
      BY <1>8
    <3> QED BY <2>1, <3>1
  <2> HIDE DEF r, h, s, N
  <2>6. /\ s \in Seq(Cells) /\ Len(s) = Len(buf) + Len(rx) /\ h \in Seq(Cells)
        /\ Len(h) = Len(buf) + r /\ s[Len(buf) + (r + 1)] = rx[r + 1]
        /\ \A k \in 1 .. Len(h) : h[k] = s[k]
    <3>1. /\ s \in Seq(Cells) /\ Len(s) = Len(buf) + Len(rx) /\ h \in Seq(Cells)
          /\ Len(h) = Len(buf) + r /\ s[Len(buf) + (r + 1)] = rx[r + 1]
      BY <2>1, <2>3, <2>4 DEF Join
    <3>2. ASSUME NEW k \in 1 .. Len(h) PROVE h[k] = s[k]
      <4>1. CASE k \in 1 .. Len(buf) /\ h[k] = buf[k]
        BY <2>4, <4>1 DEF Join
      <4>2. CASE k - Len(buf) \in 1 .. Len(rx') /\ h[k] = rx'[k - Len(buf)]
        <5>1. k - Len(buf) \in 1 .. Len(rx) /\ Len(buf) + (k - Len(buf)) = k
          BY <1>4, <2>1, <2>3, <4>2
        <5>2. s[Len(buf) + (k - Len(buf))] = rx[k - Len(buf)]
          BY <2>4, <5>1 DEF Join
        <5> QED BY <2>3, <4>2, <5>1, <5>2
      <4> QED BY <1>4, <2>3, <2>4, <4>1, <4>2, JoinElements
    <3> QED BY <3>1, <3>2
  <2>7. Len(h) + 1 = Len(buf) + (r + 1) /\ Len(h) < Len(s) /\ Len(h) + 1 \in 1 .. Len(s)
        /\ Len(h) \in Nat /\ Len(s) \in Nat
    BY <1>4, <2>1, <2>6
  <2> DEFINE c == s[Len(h) + 1]
             p == Awaited(incoming, need, n)
             d == PlaceOf(c)
  <2>8. c = rx[r + 1] /\ c.n = N
    BY <2>5, <2>6, <2>7
  <2>9. Chain(incoming, s, p, e)
    BY <1>5
  <2> HIDE DEF p
  <2>10. Chain(incoming, h, p, d)
    BY <2>6, <2>7, <2>9, ChainCut
  <2>11. c.part \in 0 .. BodyLength(incoming[N])
    BY <2>7, <2>8, <2>9 DEF Chain
  <2>12. d = <<N, c.part>>
    BY <2>8 DEF PlaceOf
  <2>13. CASE c.part # 0
    <3>1. incoming' = incoming
      BY <1>8, <2>8, <2>13 DEF r
    <3>2. incoming[N] \in MessageSet
      BY <1>4, <2>1 DEF N
    <3>3. c.part \in 1 .. BodyLength(incoming[N])
      BY <2>11, <2>13, <3>2, BodyLengthIsNat
    <3>4. d \in Ends(incoming, TRUE)
      BY <1>8, <2>12, <3>3 DEF Ends, N
    <3>5. InFrame(n)'
      BY <1>1, <1>3, <1>6, <2>10, <3>1, <3>4 DEF InFrame, p, h
    <3> QED BY <1>1, <1>4, <3>1, <3>5
  <2>14. CASE c.part = 0
    <3>1. incoming' = Front(incoming)
      BY <1>8, <2>8, <2>14 DEF r
    <3>2. Cut(MessageSet, incoming, N - 1, Front(incoming), SubSeq(incoming, N - 1 + 1, N))
      <4>1. N - 1 \in 0 .. N
        BY <1>4, <2>1
      <4> QED BY <1>4, <4>1, Split DEF Front, N
    <3>3. /\ incoming' \in Seq(MessageSet) /\ Len(incoming') = N - 1
          /\ \A k \in 1 .. N - 1 : incoming'[k] = incoming[k]
      BY <3>1, <3>2 DEF Cut
    <3>4. ASSUME NEW j \in 1 .. Len(h) PROVE h[j].n \in 1 .. N - 1
      <4>1. j \in 1 .. Len(s) /\ j < Len(h) + 1 /\ h[j] = s[j]
        BY <2>6, <2>7
      <4>2. s[j].n \in 1 .. N /\ s[j].part \in 0 .. BodyLength(incoming[s[j].n])
        BY <2>9, <4>1 DEF Chain, N
      <4>3. s[j].n = N => s[j].part < c.part
        BY <2>7, <2>8, <2>9, <4>1 DEF Chain
      <4>4. ~ (s[j].part < 0)
        <5>1. incoming[s[j].n] \in MessageSet
          BY <1>4, <4>2 DEF N
        <5> QED BY <4>2, <5>1, BodyLengthIsNat
      <4>5. s[j].n # N
        BY <2>14, <4>3, <4>4
      <4> QED BY <1>4, <4>1, <4>2, <4>5
    <3>5. Chain(incoming', h, p, d)
      <4>1. \A j \in 1 .. Len(h) :
               h[j].n \in 1 .. Len(incoming') /\ incoming'[h[j].n] = incoming[h[j].n]
        BY <3>3, <3>4
      <4> HIDE DEF d
      <4> QED BY <2>6, <2>10, <4>1, ChainAgrees
    <3>6. d \in Ends(incoming', TRUE)
      <4>1. d = <<Len(incoming') + 1, 0>>
        BY <1>4, <2>12, <2>14, <3>3
      <4> QED BY <4>1 DEF Ends
    <3>7. p[1] < N \/ p = <<N, 0>>
      <4>1. PlacesOf(h, d)[1] = p
        BY <2>10 DEF Chain
      <4>2. CASE Len(h) = 0
        <5>1. PlacesOf(h, d)[1] = d
          <6>1. Len(h) + 1 = 1
            BY <4>2
          <6> QED BY <2>6, <6>1, PlacesAre
        <5> QED BY <2>12, <2>14, <4>1, <5>1
      <4>3. CASE Len(h) # 0
        <5>1. 1 \in 1 .. Len(h)
          BY <2>7, <4>3
        <5>2. p = <<h[1].n, h[1].part>>
          <6>1. PlacesOf(h, d)[1] = PlaceOf(h[1])
            <7> HIDE DEF d
            <7> QED BY <2>6, <5>1, PlacesAre
          <6> QED BY <4>1, <6>1 DEF PlaceOf
        <5>3. h[1].n \in 1 .. N - 1
          BY <3>4, <5>1
        <5> QED BY <1>4, <5>2, <5>3
      <4> QED BY <4>2, <4>3
    <3>8. n <= N - 1 /\ (need # None => n + 1 <= N - 1)
      <4>1. CASE need = None
        <5>1. p = <<n + 1, 0>>
          BY <4>1 DEF p, Awaited
        <5> QED BY <1>4, <3>7, <4>1, <5>1
      <4>2. CASE need # None
        <5>1. n < N /\ p = After(incoming, <<n + 1, 0>>)
          BY <1>3, <4>2 DEF InFrame, p, Awaited, N
        <5>2. p = <<n + 1, 0 + 1>> \/ p = <<n + 1 + 1, 0>>
          BY <5>1 DEF After
        <5>3. n + 1 < N \/ p = <<N, 0>>
          BY <1>4, <3>7, <5>2
        <5>4. n + 1 <= N - 1
          BY <1>4, <5>1, <5>2, <5>3
        <5> QED BY <1>4, <5>4
      <4> QED BY <4>1, <4>2
    <3>9. Awaited(incoming', need, n) = p
      <4>1. CASE need = None
        BY <4>1 DEF Awaited, p
      <4>2. CASE need # None
        <5>1. n + 1 \in 1 .. N - 1
          BY <1>4, <3>8, <4>2
        <5>2. incoming'[n + 1] = incoming[n + 1]
          BY <3>3, <5>1
        <5> QED BY <4>2, <5>2 DEF Awaited, After, p
      <4> QED BY <4>1, <4>2
    <3>10. need # None => n < Len(incoming') /\ need = BodyLength(incoming'[n + 1])
      <4>1. SUFFICES ASSUME need # None PROVE n < Len(incoming') /\ need = BodyLength(incoming'[n + 1])
        OBVIOUS
      <4>2. n + 1 \in 1 .. N - 1 /\ n < Len(incoming')
        BY <1>4, <3>3, <3>8, <4>1
      <4> QED BY <1>3, <3>3, <4>1, <4>2 DEF InFrame
    <3>11. got = Accepted(incoming')[n]
      <4>1. n \in 0 .. N - 1 /\ N - 1 \in Nat /\ N - 1 <= Len(incoming) /\ N - 1 <= Len(incoming')
        BY <1>4, <2>1, <3>3, <3>8 DEF N
      <4>2. Accepted(incoming)[n] = Accepted(incoming')[n]
        BY <1>4, <3>3, <4>1, AcceptedAgree
      <4> QED BY <1>3, <4>2 DEF InFrame
    <3>12. InFrame(n)'
      <4>1. \E f \in Ends(incoming', closed') :
               Chain(incoming', buf' \o rx', Awaited(incoming', need', n), f)
        BY <1>1, <3>5, <3>6, <3>9 DEF h
      <4> QED BY <1>1, <1>6, <3>10, <3>11, <4>1 DEF InFrame
    <3>13. n \in 0 .. Len(incoming')
      BY <1>4, <2>1, <3>3, <3>8
    <3> QED BY <1>1, <1>4, <3>12, <3>13
  <2> QED BY <2>13, <2>14
<1>9. UNCHANGED <<rx, incoming>> \/
      \E lost \in 1 .. Len(rx) :
         /\ incoming # <<>>
         /\ \A j \in Len(rx) - lost + 1 .. Len(rx) : rx[j].n = Len(incoming)
         /\ rx' = SubSeq(rx, 1, Len(rx) - lost)
         /\ incoming' = IF rx[Len(rx) - lost + 1].part = 0 THEN Front(incoming) ELSE incoming
  BY DEF RemoteCloses
<1> QED BY <1>7, <1>8, <1>9

\* Bytes are decrypted and appended to read_buf: in step, they are what was sent.
LEMMA StreamReceives ==
    ASSUME SetupInv, StreamInv, Receive
    PROVE  StreamInv'
<1>1. /\ at = "open" /\ UNCHANGED <<at, encrypted, kind, need, got, cut, phase>>
  BY DEF Receive, Reading, setupVars
<1>2. SUFFICES ASSUME ~cut PROVE buf' \in Seq(Cells) /\ \E n \in 0 .. Len(incoming') : InFrame(n)'
  BY <1>1 DEF StreamInv
<1>3. PICK n \in 1 .. Len(rx) : Take(n) /\ buf' = buf \o [j \in 1 .. n |-> Decrypt(rx[j], j)]
  BY DEF Receive
<1> DEFINE u == [j \in 1 .. n |-> Decrypt(rx[j], j)]
<1>4. /\ buf \in Seq(Cells) /\ Len(buf) \in Nat /\ rx \in Seq(Cells) /\ Len(rx) \in Nat
      /\ DOMAIN rx = 1 .. Len(rx) /\ n \in Nat \ {0} /\ n \in 0 .. Len(rx)
  BY <1>1, <1>2 DEF SetupInv, SetupTypeOK, StreamInv
<1>5. /\ rx' \in Seq(Cells) /\ Cut(Cells, rx, n, SubSeq(rx, 1, n), rx')
      /\ UNCHANGED <<closed, incoming>>
  BY <1>1, <1>3, <1>4, Taking
<1>6. \A j \in 1 .. n : Decrypt(rx[j], j) = rx[j] /\ rx[j] \in Cells
  <2> TAKE j \in 1 .. n
  <2>1. j \in 1 .. Len(rx)
    BY <1>4
  <2>2. rx[j].key = IF encrypted THEN dkey + j - 1 ELSE None
    BY <1>1, <1>4, <2>1, SetupInvImplies DEF OpenInStep
  <2> QED BY <1>4, <2>1, <2>2 DEF Decrypt
<1>7. u \in Seq(Cells) /\ Len(u) = n /\ \A j \in 1 .. n : u[j] = rx[j]
  <2>1. u = [j \in 1 .. n |-> rx[j]]
    BY <1>6
  <2> QED BY <1>4, <1>6, <2>1
<1> HIDE DEF u
<1>8. Join(Cells, u, rx', rx)
  BY <1>4, <1>5, <1>7 DEF Join, Cut
<1>9. buf' \o rx' = buf \o rx
  <2> DEFINE v == buf \o u
  <2>1. Join(Cells, v, rx', buf \o rx)
    BY <1>4, <1>5, <1>7, <1>8, JoinAssociates
  <2>2. Join(Cells, buf, u, v)
    BY <1>4, <1>7, Concatenated
  <2> HIDE DEF v
  <2>3. v \in Seq(Cells)
    BY <2>2 DEF Join
  <2>4. Join(Cells, v, rx', v \o rx')
    BY <1>5, <2>3, Concatenated
  <2> DEFINE a == buf \o rx
             b == v \o rx'
  <2>5. Join(Cells, v, rx', a) /\ Join(Cells, v, rx', b)
    BY <2>1, <2>4
  <2> HIDE DEF a, b
  <2>6. a \in Seq(Cells) /\ b \in Seq(Cells) /\ Len(a) = Len(b)
    BY <2>5 DEF Join
  <2>7. \A k \in 1 .. Len(a) : a[k] = b[k]
    <3> TAKE k \in 1 .. Len(a)
    <3>1. /\ \/ k \in 1 .. Len(v) /\ a[k] = v[k]
             \/ k - Len(v) \in 1 .. Len(rx') /\ a[k] = rx'[k - Len(v)]
          /\ \/ k \in 1 .. Len(v) /\ b[k] = v[k]
             \/ k - Len(v) \in 1 .. Len(rx') /\ b[k] = rx'[k - Len(v)]
      BY <1>5, <2>3, <2>5, <2>6, JoinElements
    <3>2. ~ (k \in 1 .. Len(v) /\ k - Len(v) \in 1 .. Len(rx'))
      BY <2>3
    <3> QED BY <3>1, <3>2
  <2>8. a = b
    BY <2>6, <2>7, SameElements
  <2> QED BY <1>3, <2>8 DEF a, b, v, u
<1>10. buf' \in Seq(Cells)
  <2>1. Join(Cells, buf, u, buf \o u)
    BY <1>4, <1>7, Concatenated
  <2> QED BY <1>3, <2>1 DEF Join, u
<1>11. PICK l \in 0 .. Len(incoming) : InFrame(l)
  BY <1>1, <1>2 DEF StreamInv
<1>12. InFrame(l)'
  BY <1>1, <1>5, <1>9, <1>11 DEF InFrame, Awaited
<1> QED BY <1>5, <1>10, <1>11, <1>12

\* In step, a prefix is read where one is awaited, and it is that of the next message.
LEMMA StreamPrefix ==
    ASSUME SetupInv, MessagesOK, StreamInv, TakePrefix
    PROVE  StreamInv'
<1>1. /\ at = "open" /\ UNCHANGED <<at, got, rx, closed, incoming>> /\ (cut' = cut \/ cut' = TRUE)
      /\ need = None /\ buf # <<>> /\ buf' = Tail(buf) /\ phase \in {"initial", "main"}
  BY DEF TakePrefix, Reading, setupVars, remoteVars
<1>2. SUFFICES ASSUME ~cut, ~cut'
               PROVE  buf' \in Seq(Cells) /\ \E n \in 0 .. Len(incoming) : InFrame(n)'
  BY <1>1 DEF StreamInv
<1>3. PICK n \in 0 .. Len(incoming) : InFrame(n)
  BY <1>1, <1>2 DEF StreamInv
<1> DEFINE s == buf \o rx
           t == Tail(buf) \o rx
<1>4. /\ buf \in Seq(Cells) /\ Len(buf) \in Nat /\ Len(buf) >= 1 /\ rx \in Seq(Cells) /\ n \in Nat
      /\ Len(rx) \in Nat /\ Head(buf) = buf[1] /\ Tail(buf) \in Seq(Cells)
      /\ Len(Tail(buf)) = Len(buf) - 1
      /\ \A k \in 1 .. Len(Tail(buf)) : Tail(buf)[k] = buf[1 + k]
      /\ incoming \in Seq(MessageSet) /\ Len(incoming) \in Nat
  BY <1>1, <1>2 DEF SetupInv, SetupTypeOK, StreamInv, MessagesOK
<1>5. Rear(Cells, s, 1, t)
  <2>1. 1 \in 0 .. Len(buf) /\ Rear(Cells, buf, 1, Tail(buf))
    BY <1>4 DEF Rear
  <2> QED BY <1>4, <2>1, JoinWithout
<1>6. Join(Cells, buf, rx, s)
  BY <1>4, Concatenated
<1>7. PICK e \in Ends(incoming, closed) : Chain(incoming, s, <<n + 1, 0>>, e)
  BY <1>1, <1>3 DEF InFrame, Awaited
<1> HIDE DEF s, t
<1>8. /\ s \in Seq(Cells) /\ Len(s) \in Nat /\ Len(s) >= 1 /\ 1 \in 1 .. Len(s) /\ s[1] = buf[1]
      /\ 1 \in 0 .. Len(s)
  <2>1. s \in Seq(Cells) /\ Len(s) = Len(buf) + Len(rx) /\ 1 \in 1 .. Len(buf)
    BY <1>4, <1>6 DEF Join
  <2>2. s[1] = buf[1]
    BY <1>6, <2>1 DEF Join
  <2> QED BY <1>4, <2>1, <2>2
<1>9. PlacesOf(s, e)[1] = <<n + 1, 0>> /\ PlacesOf(s, e)[1 + 1] = After(incoming, <<n + 1, 0>>)
  BY <1>7, <1>8 DEF Chain
<1>10. /\ Head(buf).what = "message" /\ Head(buf).part = 0 /\ Head(buf).n = n + 1
       /\ n + 1 \in 1 .. Len(incoming)
  <2>1. PlacesOf(s, e)[1] = PlaceOf(s[1])
    BY <1>8, PlacesAre
  <2>2. <<s[1].n, s[1].part>> = <<n + 1, 0>>
    BY <1>9, <2>1 DEF PlaceOf
  <2>3. s[1].n = n + 1 /\ s[1].part = 0
    BY <2>2
  <2> QED BY <1>4, <1>7, <1>8, <2>3 DEF Chain
<1>11. need' = BodyLength(incoming[n + 1]) /\ phase' = phase
  BY <1>2, <1>10 DEF TakePrefix
<1>12. need' # None /\ n < Len(incoming)
  <2>1. incoming[n + 1] \in MessageSet
    BY <1>4, <1>10
  <2>2. BodyLength(incoming[n + 1]) \in Nat
    BY <2>1, BodyLengthIsNat
  <2> QED BY <1>4, <1>10, <1>11, <2>2 DEF None
<1>13. Chain(incoming, t, PlacesOf(s, e)[1 + 1], e)
  <2>1. t \in Seq(Cells)
    BY <1>5 DEF Rear
  <2> QED BY <1>5, <1>7, <1>8, <2>1, ChainDrop
<1>14. \E f \in Ends(incoming', closed') :
           Chain(incoming', buf' \o rx', Awaited(incoming', need', n), f)
  BY <1>1, <1>9, <1>12, <1>13 DEF Awaited, t
<1>15. InFrame(n)'
  BY <1>1, <1>3, <1>11, <1>12, <1>14 DEF InFrame
<1> QED BY <1>1, <1>4, <1>15

\* The cells after the prefix of message n + 1 are its id and payload.
LEMMA BodyFollows ==
    ASSUME NEW ms, NEW s \in Seq(Cells), NEW e, NEW n \in Nat, NEW l \in Nat, l <= Len(s),
           l = BodyLength(ms[n + 1]), Chain(ms, s, After(ms, <<n + 1, 0>>), e)
    PROVE  /\ \A j \in 1 .. l : s[j].what = "message" /\ s[j].n = n + 1 /\ s[j].part = j
           /\ PlacesOf(s, e)[l + 1] = <<n + 2, 0>>
<1> DEFINE P == PlacesOf(s, e)
           S == {j \in 0 .. l : P[j + 1] = After(ms, <<n + 1, j>>)}
<1>1. Len(s) \in Nat
  OBVIOUS
<1>2. 0 \in S
  BY DEF Chain
<1>3. ASSUME NEW j \in 1 .. l, j - 1 \in S PROVE P[j] = <<n + 1, j>> /\ j \in S
  <2>1. P[(j - 1) + 1] = After(ms, <<n + 1, j - 1>>)
    BY <1>3
  <2>2. (j - 1) + 1 = j /\ j - 1 < l /\ j \in 1 .. Len(s) /\ j \in 0 .. l
    BY <1>1
  <2>3. After(ms, <<n + 1, j - 1>>) = <<n + 1, (j - 1) + 1>>
    BY <2>2 DEF After
  <2>4. P[j] = <<n + 1, j>>
    BY <2>1, <2>2, <2>3
  <2>5. P[j + 1] = After(ms, P[j])
    BY <2>2 DEF Chain
  <2> QED BY <2>2, <2>4, <2>5
<1>4. 0 .. l \subseteq S
  <2> HIDE DEF S
  <2> QED BY <1>2, <1>3, RangeInduction
<1>5. ASSUME NEW j \in 1 .. l
      PROVE  s[j].what = "message" /\ s[j].n = n + 1 /\ s[j].part = j
  <2>1. j - 1 \in 0 .. l /\ j \in 1 .. Len(s)
    BY <1>1
  <2>2. P[j] = <<n + 1, j>>
    BY <1>3, <1>4, <2>1
  <2>3. P[j] = <<s[j].n, s[j].part>>
    BY <2>1, PlacesAre DEF PlaceOf
  <2> QED BY <2>1, <2>2, <2>3 DEF Chain
<1>6. P[l + 1] = <<n + 2, 0>>
  <2>1. l \in 0 .. l /\ ~ (l < l) /\ n + 1 + 1 = n + 2
    OBVIOUS
  <2>2. P[l + 1] = After(ms, <<n + 1, l>>)
    BY <1>4, <2>1
  <2>3. After(ms, <<n + 1, l>>) = <<n + 1 + 1, 0>>
    BY <2>1 DEF After
  <2> QED BY <2>1, <2>2, <2>3
<1> QED BY <1>5, <1>6

\* In step, what is decoded and split off is the next message.
LEMMA StreamMessage ==
    ASSUME SetupInv, MessagesOK, StreamInv, TakeMessage
    PROVE  StreamInv'
<1>1. /\ at = "open" /\ UNCHANGED <<at, cut, rx, closed, incoming>>
      /\ need # None /\ ~ (Len(buf) < need) /\ phase \in {"initial", "main"}
      /\ need' = None /\ buf' = SubSeq(buf, need + 1, Len(buf))
  BY DEF TakeMessage, Reading, Short, Rest, setupVars, remoteVars
<1>2. SUFFICES ASSUME ~cut PROVE buf' \in Seq(Cells) /\ \E n \in 0 .. Len(incoming) : InFrame(n)'
  BY <1>1 DEF StreamInv
<1>3. PICK n \in 0 .. Len(incoming) : InFrame(n)
  BY <1>1, <1>2 DEF StreamInv
<1> DEFINE s == buf \o rx
           t == buf' \o rx
           m == incoming[n + 1]
           body == SubSeq(buf, 1, need)
<1>4. /\ n < Len(incoming) /\ need = BodyLength(m) /\ got = Accepted(incoming)[n]
  BY <1>1, <1>3 DEF InFrame
<1>5. /\ buf \in Seq(Cells) /\ Len(buf) \in Nat /\ rx \in Seq(Cells) /\ Len(rx) \in Nat /\ n \in Nat
      /\ incoming \in Seq(MessageSet) /\ Len(incoming) \in Nat
  BY <1>1, <1>2 DEF SetupInv, SetupTypeOK, StreamInv, MessagesOK
<1>6. /\ n + 1 \in 1 .. Len(incoming) /\ n + 1 \in 0 .. Len(incoming) /\ m \in MessageSet
      /\ (m.type = "keepalive" => m.payload = 0)
  <2>1. n + 1 \in 1 .. Len(incoming) /\ n + 1 \in 0 .. Len(incoming)
    BY <1>4, <1>5
  <2> QED BY <1>5, <2>1 DEF MessagesOK
<1>7. need \in Nat /\ need <= Len(buf) /\ need \in 0 .. Len(buf)
  BY <1>1, <1>4, <1>5, <1>6, BodyLengthIsNat
<1>8. Cut(Cells, buf, need, body, buf')
  BY <1>1, <1>5, <1>7, Split
<1> HIDE DEF body, m
<1>9. /\ body \in Seq(Cells) /\ Len(body) = need /\ \A k \in 1 .. need : body[k] = buf[k]
      /\ buf' \in Seq(Cells) /\ Len(buf') = Len(buf) - need
      /\ \A k \in 1 .. Len(buf') : buf'[k] = buf[need + k]
  BY <1>8 DEF Cut
<1>10. Rear(Cells, s, need, t)
  <2>1. Rear(Cells, buf, need, buf')
    BY <1>9 DEF Rear
  <2> QED BY <1>5, <1>7, <1>9, <2>1, JoinWithout
<1>11. Join(Cells, buf, rx, s)
  BY <1>5, Concatenated
<1>12. PICK e \in Ends(incoming, closed) : Chain(incoming, s, After(incoming, <<n + 1, 0>>), e)
  BY <1>1, <1>3 DEF InFrame, Awaited
<1> HIDE DEF s, t
<1>13. /\ s \in Seq(Cells) /\ need <= Len(s) /\ need \in 0 .. Len(s)
       /\ \A k \in 1 .. need : s[k] = buf[k]
  <2>1. s \in Seq(Cells) /\ Len(s) = Len(buf) + Len(rx) /\ \A k \in 1 .. Len(buf) : s[k] = buf[k]
    BY <1>11 DEF Join
  <2> QED BY <1>5, <1>7, <2>1
<1>14. /\ \A j \in 1 .. need : s[j].what = "message" /\ s[j].n = n + 1 /\ s[j].part = j
       /\ PlacesOf(s, e)[need + 1] = <<n + 2, 0>>
  BY <1>4, <1>5, <1>7, <1>12, <1>13, BodyFollows DEF m
<1>15. \A j \in 1 .. need : body[j].what = "message" /\ body[j].n = n + 1 /\ body[j].part = j
  BY <1>9, <1>13, <1>14
<1>16. Decodes(body) = {IF m.payload < MinPayload(m.type) THEN "refused" ELSE m.type}
  <2>1. CASE need = 0
    <3>1. body = <<>>
      BY <1>9, <2>1, EmptyOrNot
    <3>2. m.type = "keepalive" /\ m.payload = 0
      BY <1>4, <1>6, <2>1 DEF BodyLength, MessageSet
    <3>3. MinPayload("keepalive") = 0
      BY DEF MinPayload
    <3> QED BY <3>1, <3>2, <3>3 DEF Decodes
  <2>2. CASE need # 0
    <3>1. body # <<>> /\ 1 \in 1 .. need /\ Head(body) = body[1] /\ DOMAIN body = 1 .. need
      BY <1>7, <1>9, <2>2
    <3>2. Head(body).n = n + 1
      BY <1>15, <3>1
    <3>3. IsBody(body)
      BY <1>4, <1>9, <1>15, <3>1, <3>2 DEF IsBody, m
    <3> QED BY <3>1, <3>2, <3>3 DEF Decodes, m
  <2> QED BY <2>1, <2>2
<1>17. m = [type |-> m.type, payload |-> IF need = 0 THEN 0 ELSE need - 1]
  <2>1. m.payload = IF need = 0 THEN 0 ELSE need - 1
    BY <1>4, <1>6 DEF BodyLength, MessageSet
  <2>2. m = [type |-> m.type, payload |-> m.payload]
    BY <1>6 DEF MessageSet
  <2> QED BY <2>1, <2>2
<1>18. PICK type \in Decodes(body) :
         IF type = "refused"
         THEN phase' = Failed /\ UNCHANGED got
         ELSE /\ phase' = NextPhase(type)
              /\ got' = Append(got, [type |-> type, payload |-> IF need = 0 THEN 0 ELSE need - 1])
  BY DEF TakeMessage, body
<1>19. /\ got' = IF m.payload < MinPayload(m.type) THEN got ELSE Append(got, m)
       /\ phase' # "eof"
  <2>1. m.type # "refused"
    BY <1>6 DEF MessageSet, MessageTypes, Types
  <2>2. CASE m.payload < MinPayload(m.type)
    BY <1>16, <1>18, <2>2 DEF Failed
  <2>3. CASE ~ (m.payload < MinPayload(m.type))
    <3>1. type = m.type
      BY <1>16, <2>3
    <3>2. got' = Append(got, m) /\ phase' = NextPhase(type)
      BY <1>17, <1>18, <2>1, <3>1
    <3> QED BY <1>1, <2>3, <3>2 DEF NextPhase
  <2> QED BY <2>2, <2>3
<1>20. got' = Accepted(incoming)[n + 1]
  <2>1. Accepted(incoming)[n + 1] =
          IF m.payload < MinPayload(m.type) THEN Accepted(incoming)[n + 1 - 1]
          ELSE Append(Accepted(incoming)[n + 1 - 1], m)
    BY <1>5, <1>6, AcceptedRecur DEF m
  <2>2. n + 1 - 1 = n
    BY <1>5
  <2> QED BY <1>4, <1>19, <2>1, <2>2
<1>21. Chain(incoming, t, <<n + 2, 0>>, e)
  <2>1. Chain(incoming, t, PlacesOf(s, e)[need + 1], e)
    <3>1. t \in Seq(Cells)
      BY <1>10 DEF Rear
    <3> QED BY <1>10, <1>12, <1>13, <3>1, ChainDrop
  <2> QED BY <1>14, <2>1
<1>22. \E f \in Ends(incoming', closed') :
          Chain(incoming', buf' \o rx', Awaited(incoming', need', n + 1), f)
  <2>1. Awaited(incoming', need', n + 1) = <<n + 2, 0>>
    BY <1>1, <1>5 DEF Awaited
  <2> QED BY <1>1, <1>21, <2>1 DEF t
<1>23. InFrame(n + 1)'
  BY <1>1, <1>19, <1>20, <1>22 DEF InFrame
<1> QED BY <1>6, <1>9, <1>23

\* A read is given up, or the stream has ended.
LEMMA StreamGivenUp ==
    ASSUME SetupInv, StreamInv, Timeout \/ EndOfStream
    PROVE  StreamInv'
<1>1. /\ at = "open" /\ UNCHANGED <<at, buf, got, rx, closed, incoming>> /\ need' = None
      /\ cut' = (cut \/ need # None) /\ Short /\ rx = <<>> /\ phase \in {"initial", "main"}
  BY DEF Timeout, EndOfStream, Reading, AtEOF, setupVars, remoteVars
<1>2. SUFFICES ASSUME ~cut, need = None
               PROVE  buf' \in Seq(Cells) /\ \E n \in 0 .. Len(incoming) : InFrame(n)'
  BY <1>1 DEF StreamInv
<1>3. CASE phase' # "eof"
  <2>1. UNCHANGED <<at, buf, need, got, rx, closed, incoming>> /\ ~cut'
    BY <1>1, <1>2
  <2>2. StreamInv'
    BY <1>2, <1>3, <2>1, StreamFramed
  <2> QED BY <1>1, <1>2, <2>1, <2>2 DEF StreamInv
<1>4. CASE phase' = "eof"
  <2>1. closed /\ buf = <<>>
    BY <1>1, <1>2, <1>4 DEF Timeout, EndOfStream, Failed, AtEOF, Short
  <2>2. PICK n \in 0 .. Len(incoming) : InFrame(n)
    BY <1>1, <1>2 DEF StreamInv
  <2>3. PICK e \in Ends(incoming, closed) : Chain(incoming, buf \o rx, <<n + 1, 0>>, e)
    BY <1>2, <2>2 DEF InFrame, Awaited
  <2>4. buf \o rx = <<>> /\ Len(<<>>) = 0 /\ <<>> \in Seq(Cells)
    BY <1>1, <2>1
  <2>5. PlacesOf(<<>>, e)[1] = e
    <3>1. PlacesOf(<<>>, e)[Len(<<>>) + 1] = e
      BY NoCells, PlacesAre
    <3>2. Len(<<>>) + 1 = 1
      BY NoCells
    <3> QED BY <3>1, <3>2
  <2>6. e = <<n + 1, 0>>
    BY <2>3, <2>4, <2>5 DEF Chain
  <2>7. n = Len(incoming)
    <3>1. e = <<Len(incoming) + 1, 0>> \/ \E q \in 1 .. BodyLength(incoming[Len(incoming)]) :
                                             e = <<Len(incoming), q>>
      BY DEF Ends
    <3>2. e = <<Len(incoming) + 1, 0>>
      BY <2>6, <3>1
    <3>3. n + 1 = Len(incoming) + 1 /\ n \in Int
      BY <2>6, <3>2
    <3>4. Len(incoming) \in Int
      OBVIOUS
    <3> QED BY <3>3, <3>4
  <2>8. InFrame(n)'
    <3>1. need' = None /\ got' = Accepted(incoming')[n] /\ closed' /\ n = Len(incoming')
      BY <1>1, <2>1, <2>2, <2>7 DEF InFrame
    <3>2. \E f \in Ends(incoming', closed') :
             Chain(incoming', buf' \o rx', Awaited(incoming', need', n), f)
      BY <1>1, <1>2, <2>2 DEF InFrame
    <3> QED BY <3>1, <3>2 DEF InFrame
  <2> QED BY <1>1, <1>2, <2>8 DEF StreamInv
<1> QED BY <1>3, <1>4

LEMMA StreamStep ==
    ASSUME SetupInv, MessagesOK, ReadInv, [Next]_vars
    PROVE  StreamInv'
<1>1. StagesFollow /\ (at # "open" => Untouched) /\ StreamInv
  BY DEF ReadInv
<1>2. CASE SetupStep
  BY <1>1, <1>2, StreamOpens
<1>3. CASE Answer
  <2>1. at' # "open"
    BY <1>1, <1>3, StagesAnswer
  <2> QED BY <2>1 DEF StreamInv
<1>4. CASE SayMessage
  BY <1>1, <1>4, StreamSays
<1>5. CASE RemoteCloses
  BY <1>1, <1>5, StreamCloses
<1>6. CASE ReadStep
  BY <1>1, <1>6, StreamReceives, StreamPrefix, StreamMessage, StreamGivenUp DEF ReadStep
<1>7. CASE WriteStep \/ UNCHANGED vars
  <2>1. UNCHANGED <<setupVars, remoteVars, readVars>>
    BY <1>7 DEF WriteStep, Send, PollPlain, PollRest, WakeByChance, PollWrite, vars
  <2>2. UNCHANGED <<at, buf, need, got, rx, closed, incoming, cut, phase>>
    BY <2>1 DEF setupVars, remoteVars, readVars
  <2> QED BY <1>1, <2>2, StreamFramed
<1> QED BY <1>2, <1>3, <1>4, <1>5, <1>6, <1>7 DEF Next

LEMMA ReadInvInit == Init => ReadInv
<1> SUFFICES ASSUME Init PROVE ReadInv
  OBVIOUS
<1>1. /\ at = "connect" /\ encrypted = FALSE /\ incoming = <<>> /\ buf = <<>>
      /\ need = None /\ got = <<>> /\ phase = "initial"
  BY DEF Init
<1> QED BY <1>1 DEF ReadInv, StagesFollow, Untouched, StreamInv

LEMMA ReadInvStep ==
    ASSUME SetupInv, MessagesOK, ReadInv, [Next]_vars
    PROVE  ReadInv'
<1>1. StagesFollow'
  BY StagesStep DEF ReadInv
<1>2. at' # "open" => Untouched'
  BY UntouchedStep DEF ReadInv
<1>3. StreamInv'
  BY StreamStep
<1> QED BY <1>1, <1>2, <1>3 DEF ReadInv

LEMMA ReadInvImplies ==
    ASSUME MessagesOK, ReadInv
    PROVE  FramesInStep
<1> DEFINE all == Accepted(incoming)[Len(incoming)]
<1>1. SUFFICES ASSUME ~cut PROVE IsPrefix(got, all) /\ (phase = "eof" => got = all)
  BY DEF FramesInStep
<1>2. incoming \in Seq(MessageSet) /\ Len(incoming) \in Nat
  BY DEF MessagesOK
<1>3. PICK n \in 0 .. Len(incoming) :
         got = Accepted(incoming)[n] /\ (phase = "eof" => n = Len(incoming))
  <2>1. CASE at = "open"
    BY <1>1, <2>1 DEF ReadInv, StreamInv, InFrame
  <2>2. CASE at # "open"
    <3>1. got = <<>> /\ phase # "eof" /\ 0 \in 0 .. Len(incoming)
      BY <1>2, <2>2 DEF ReadInv, Untouched
    <3>2. Accepted(incoming)[0] = <<>>
      BY <1>2, AcceptedRecur
    <3> QED BY <3>1, <3>2
  <2> QED BY <2>1, <2>2
<1>4. IsPrefix(Accepted(incoming)[n], all)
  BY <1>2, AcceptedGrows
<1> QED BY <1>3, <1>4

\* What read_message returns are the messages sent, in order and none twice, however
\* the stream delivers their bytes and whichever of them decode() refuses, as long as
\* no read was dropped between prefix and body; and the end of stream is taken for a
\* clean one only when all of them were read (PeerConn::read_message, fill).
THEOREM FramesAreInStep == Spec => []FramesInStep
<1>1. Init => SetupInv /\ MessagesOK /\ ReadInv
  BY SetupInvInit, MessagesInit, ReadInvInit
<1>2. SetupInv /\ MessagesOK /\ ReadInv /\ [Next]_vars => (SetupInv /\ MessagesOK /\ ReadInv)'
  BY SetupInvStep, ReadInvStep
<1>3. SetupInv /\ MessagesOK /\ ReadInv => FramesInStep
  BY ReadInvImplies
<1> QED BY <1>1, <1>2, <1>3, PTL DEF Spec
=============================================================================
