----------------------------- MODULE SeedProofs -----------------------------
(***************************************************************************)
(* Files are written, read back and served right for every list of file    *)
(* lengths and every piece length, whatever the order in which the bytes   *)
(* reach the files, and no permit of the seeder is lost.                   *)
(***************************************************************************)
EXTENDS Seed, DataLemmas, FiniteSetTheorems

\* How much of the range lies before the end of the n-th file, as an offset.
Clip(flat, len, n) ==
    LET end == Offsets(lengths)[n]
    IN  IF end <= flat THEN flat ELSE IF end >= flat + len THEN flat + len ELSE end

-----------------------------------------------------------------------------
(* The inductive invariant.                                                *)

FileParts ==
    {p \in [file : Files, pos : Nat, from : Nat, len : Nat \ {0}] :
        p.from = Offset(p.file) + p.pos /\ p.pos + p.len <= lengths[p.file]}

StoreTypeOK ==
    /\ lengths \in Layouts
    /\ files \in [Files -> Seq(Int)]
    /\ write \in [Pieces -> {"none", "busy", "done"}]
    /\ todo \in [Pieces -> SUBSET Files]
    /\ pending \subseteq FileParts

\* A byte in a file is the right one of its place or none of ours.
InPlace(f) == \A k \in 1 .. Len(files[f]) : files[f][k] \in {Wrong, Offset(f) + k - 1}

\* The files that piece i overlaps.
PieceFiles(i) == Overlaps(PieceStart(i), PieceLen(i))

\* What write_piece is through with is with the blocking pool or in its file.
Written(i) ==
    /\ todo[i] \subseteq PieceFiles(i)
    /\ write[i] = "busy" <=> todo[i] # {}
    /\ write[i] # "none" =>
          \A f \in PieceFiles(i) \ todo[i] :
             PiecePart(i, f) \in pending \/ Stored(PiecePart(i, f))

StoreInv ==
    /\ StoreTypeOK
    /\ \A f \in Files : InPlace(f)
    /\ \A i \in Pieces : Written(i)

ClientTypeOK ==
    /\ conn \in [Clients -> {"outside", "handshake", "serve", "read", "send", "ended"}]
    /\ request \in [Clients -> [index : Nat, begin : Nat, length : Nat]]
    /\ unread \in [Clients -> SUBSET Files]
    /\ data \in [Clients -> Seq(Int)]
    /\ intact \in [Clients -> BOOLEAN]

\* The files that are still to be read come last, and what was read ends where the
\* first of them begins.
Progress(c) ==
    /\ unread[c] \subseteq AskedFiles(request[c])
    /\ \A f \in AskedFiles(request[c]) \ unread[c] : \A g \in unread[c] : f < g
    /\ conn[c] = "send" <=> unread[c] = {}
    /\ RequestStart(request[c]) + Len(data[c])
         = IF unread[c] = {} THEN RequestStart(request[c]) + request[c].length
           ELSE Clip(RequestStart(request[c]), request[c].length, Min(unread[c]) - 1)

RightSoFar(c) ==
    \A k \in 1 .. Len(data[c]) :
        /\ data[c][k] \in {RequestStart(request[c]) + k - 1, Wrong}
        /\ intact[c] => data[c][k] = RequestStart(request[c]) + k - 1

Intact(c) == \A f \in AskedFiles(request[c]) : Stored(Asked(request[c], f))

Answering(c) ==
    /\ Valid(request[c])
    /\ Progress(c)
    /\ RightSoFar(c)
    /\ intact[c] => Intact(c)

ClientInv ==
    /\ ClientTypeOK
    /\ \A c \in Clients : conn[c] \in {"read", "send"} => Answering(c)

PermitsInv ==
    /\ permits \in Int /\ IsFiniteSet(Serving)
    /\ permits + Cardinality(Serving) = MaxPeers
    /\ seeding \in {"downloading", "over"} => Serving = {}

IInv == StoreInv /\ ClientInv /\ PermitsInv

-----------------------------------------------------------------------------
(* The layout.                                                             *)

\* The offsets are defined for every list of lengths.
LEMMA OffsetsRecur ==
    ASSUME NEW ls \in Seq(Nat)
    PROVE  /\ \A n \in 0 .. Len(ls) : Offsets(ls)[n] \in Nat
           /\ Offsets(ls)[0] = 0
           /\ \A n \in 1 .. Len(ls) : Offsets(ls)[n] = Offsets(ls)[n - 1] + ls[n]
<1> DEFINE L == Len(ls)
           h == [n \in 1 .. L |-> [s \in Int |-> s + ls[n]]]
           F(f) == [n \in 0 .. L |-> IF n = 0 THEN 0 ELSE f[n - 1] + ls[n]]
<1>1. L \in Nat /\ 0 \in Int /\ h \in [1 .. L -> [Int -> Int]] /\ \A n \in 1 .. L : ls[n] \in Nat
  OBVIOUS
<1>2. PICK f : Recurs(f, L, Int, 0, h)
  <2> HIDE DEF h, L
  <2> QED BY <1>1, RecursionExists
<1>3. f = F(f)
  <2>1. f \in [0 .. L -> Int] /\ f[0] = 0 /\ \A n \in 1 .. L : f[n] = h[n][f[n - 1]]
    BY <1>2 DEF Recurs
  <2>2. \A n \in 1 .. L : f[n] = f[n - 1] + ls[n]
    <3> TAKE n \in 1 .. L
    <3>1. f[n] = h[n][f[n - 1]]
      <4> HIDE DEF h, L
      <4> QED BY <2>1
    <3>2. f[n - 1] \in Int
      <4>1. n - 1 \in 0 .. L
        BY <1>1
      <4> HIDE DEF h, L
      <4> QED BY <2>1, <4>1
    <3> QED BY <3>1, <3>2
  <2> QED BY <2>1, <2>2
<1>4. Offsets(ls) = F(Offsets(ls))
  BY <1>3 DEF Offsets
<1>5. Offsets(ls)[0] = 0 /\ \A n \in 1 .. L : Offsets(ls)[n] = Offsets(ls)[n - 1] + ls[n]
  <2> HIDE DEF L
  <2> QED BY <1>1, <1>4
<1>6. \A n \in 0 .. L : Offsets(ls)[n] \in Nat
  <2> DEFINE S == {n \in 0 .. L : Offsets(ls)[n] \in Nat}
  <2>1. 0 \in S
    BY <1>1, <1>5
  <2>2. \A n \in 1 .. L : n - 1 \in S => n \in S
    BY <1>1, <1>5
  <2>3. 0 .. L \subseteq S
    <3> HIDE DEF S
    <3> QED BY <1>1, <2>1, <2>2, RangeInduction
  <2> QED BY <2>3
<1> QED BY <1>5, <1>6

\* The offsets of this torrent.
LEMMA Layout ==
    ASSUME lengths \in Layouts
    PROVE  /\ Len(lengths) \in Nat /\ TotalLength \in Nat
           /\ Offsets(lengths)[0] = 0 /\ Offsets(lengths)[Len(lengths)] = TotalLength
           /\ \A n \in 0 .. Len(lengths) : Offsets(lengths)[n] \in Nat
           /\ \A f \in Files :
                 /\ f \in 1 .. Len(lengths) /\ f - 1 \in 0 .. Len(lengths)
                 /\ lengths[f] \in Nat /\ Offset(f) = Offsets(lengths)[f - 1]
                 /\ Offset(f) \in Nat /\ FileEnd(f) \in Nat
                 /\ FileEnd(f) = Offset(f) + lengths[f]
                 /\ FileEnd(f) = Offsets(lengths)[f]
<1>1. lengths \in Seq(Nat)
  BY LayoutConstants
<1> QED BY <1>1, OffsetsRecur DEF TotalLength, Files, Offset, FileEnd

\* Nothing of it moves while the lengths stay.
LEMMA LayoutStays ==
    ASSUME UNCHANGED lengths
    PROVE  /\ Files' = Files /\ Pieces' = Pieces /\ PieceCount' = PieceCount
           /\ \A f : Offset(f)' = Offset(f)
           /\ \A flat, len, f : Part(flat, len, f)' = Part(flat, len, f)
           /\ \A flat, len : Overlaps(flat, len)' = Overlaps(flat, len)
           /\ \A flat, len, n : Clip(flat, len, n)' = Clip(flat, len, n)
           /\ \A i : PieceLen(i)' = PieceLen(i)
           /\ \A i : PieceFiles(i)' = PieceFiles(i)
           /\ \A i, f : PiecePart(i, f)' = PiecePart(i, f)
BY DEF Files, Pieces, PieceCount, TotalLength, Offset, Part, FileEnd, Overlaps, Clip, PieceLen,
       PieceStart, PieceFiles, PiecePart

\* A piece lies within the stream.
LEMMA PieceWithin ==
    ASSUME lengths \in Layouts, NEW i \in Pieces
    PROVE  /\ i \in Nat /\ PieceStart(i) \in Nat /\ PieceLen(i) \in Nat \ {0}
           /\ PieceStart(i) + PieceLen(i) <= TotalLength
           /\ PieceLen(i) <= PieceLength
<1> DEFINE T == TotalLength
           P == PieceLength
           q == T \div P
           r == T % P
<1>1. T \in Nat /\ P \in Nat \ {0}
  BY Layout, LayoutConstants
<1>2. T = P * q + r /\ r \in 0 .. P - 1 /\ q \in Nat
  BY <1>1, Quotient
<1>3. i \in 0 .. PieceCount - 1 /\ PieceCount = (T + P - 1) \div P
  BY DEF Pieces, PieceCount
<1>4. T + P - 1 = P * PieceCount + ((T + P - 1) % P)
      /\ (T + P - 1) % P \in 0 .. P - 1 /\ PieceCount \in Nat
  <2>1. T + P - 1 \in Nat
    BY <1>1
  <2> HIDE DEF T, P
  <2> QED BY <1>1, <1>3, <2>1, Quotient
<1>5. i \in Nat /\ PieceStart(i) = P * i /\ P * i \in Nat
  BY <1>1, <1>3, <1>4 DEF PieceStart
<1>6. P * PieceCount \in Nat /\ P * PieceCount <= T + P - 1
  <2> HIDE DEF T, P
  <2> QED BY <1>1, <1>4
<1>7. CASE i # PieceCount - 1
  <2>1. PieceLen(i) = P
    <3>1. Max({PieceCount - 1, 0}) = PieceCount - 1
      BY <1>3, <1>4, MaxOfTwo
    <3> QED BY <1>7, <3>1 DEF PieceLen
  <2>2. P * (i + 2) = P * i + P + P
    <3> HIDE DEF T, P
    <3> QED BY <1>1, <1>5
  <2>3. P * (i + 2) <= P * PieceCount
    <3>1. ~ (PieceCount < i + 2)
      BY <1>3, <1>4, <1>5, <1>7
    <3> HIDE DEF T, P
    <3> QED BY <1>1, <1>4, <1>5, <1>6, <2>2, <3>1, PositiveFactor
  <2> HIDE DEF T, P
  <2> QED BY <1>1, <1>5, <1>6, <2>1, <2>2, <2>3 DEF T, P
<1>8. CASE i = PieceCount - 1
  <2>1. PieceLen(i) = IF r = 0 THEN P ELSE r
    <3>1. Max({PieceCount - 1, 0}) = PieceCount - 1
      BY <1>3, <1>4, MaxOfTwo
    <3> QED BY <1>8, <3>1 DEF PieceLen
  <2>2. P * i + P = P * PieceCount
    <3> HIDE DEF T, P
    <3> QED BY <1>1, <1>4, <1>8
  <2>3. P * i < P * q + r /\ P * q \in Nat
    <3> HIDE DEF T, P, r, q
    <3> QED BY <1>1, <1>2, <1>5, <1>6, <2>2
  <2>4. CASE r = 0
    <3>1. P * i < P * q
      BY <2>3, <2>4
    <3>2. i < q
      <4> HIDE DEF T, P, r, q
      <4> QED BY <1>1, <1>2, <1>5, <3>1, PositiveFactor
    <3>3. P * i + P <= P * q
      <4>1. P * (i + 1) = P * i + P /\ ~ (q < i + 1)
        <5> HIDE DEF T, P, r, q
        <5> QED BY <1>1, <1>2, <1>5, <3>2
      <4> HIDE DEF T, P, r, q
      <4> QED BY <1>1, <1>2, <1>5, <2>3, <4>1, PositiveFactor
    <3> HIDE DEF T, P, r, q
    <3> QED BY <1>1, <1>2, <1>5, <2>1, <2>3, <2>4, <3>3 DEF T, P
  <2>5. CASE r # 0
    <3>1. P * (q + 1) = P * q + P
      <4> HIDE DEF T, P, r, q
      <4> QED BY <1>1, <1>2
    <3>2. i < q + 1
      <4>1. P * i < P * (q + 1)
        <5> HIDE DEF T, P, r, q
        <5> QED BY <1>1, <1>2, <1>5, <2>3, <3>1
      <4> HIDE DEF T, P, r, q
      <4> QED BY <1>1, <1>2, <1>5, <4>1, PositiveFactor
    <3>3. P * i <= P * q
      <4>1. ~ (q < i)
        BY <1>2, <1>5, <3>2
      <4> HIDE DEF T, P, r, q
      <4> QED BY <1>1, <1>2, <1>5, <2>3, <4>1, PositiveFactor
    <3> HIDE DEF T, P, r, q
    <3> QED BY <1>1, <1>2, <1>5, <2>1, <2>3, <2>5, <3>3 DEF T, P
  <2> QED BY <2>4, <2>5
<1> QED BY <1>7, <1>8

\* What the range has in common with a file, in terms of Clip.
LEMMA ClipSteps ==
    ASSUME lengths \in Layouts, NEW flat \in Nat, NEW len \in Nat \ {0}, NEW f \in Files
    PROVE  /\ Clip(flat, len, f - 1) \in flat .. flat + len
           /\ Clip(flat, len, f) \in Clip(flat, len, f - 1) .. flat + len
           /\ f \in Overlaps(flat, len) <=> Clip(flat, len, f - 1) < Clip(flat, len, f)
           /\ f \in Overlaps(flat, len) =>
                 /\ Part(flat, len, f) \in FileParts
                 /\ Part(flat, len, f).file = f
                 /\ Part(flat, len, f).from = Clip(flat, len, f - 1)
                 /\ Part(flat, len, f).from + Part(flat, len, f).len = Clip(flat, len, f)
<1> DEFINE p == Part(flat, len, f)
<1>1. /\ Offset(f) \in Nat /\ FileEnd(f) \in Nat /\ lengths[f] \in Nat
      /\ FileEnd(f) = Offset(f) + lengths[f]
      /\ Offsets(lengths)[f - 1] = Offset(f) /\ Offsets(lengths)[f] = FileEnd(f)
  BY Layout
<1>2. /\ p.file = f
      /\ p.from = IF flat >= Offset(f) THEN flat ELSE Offset(f)
      /\ p.pos = p.from - Offset(f)
      /\ p.len = (IF flat + len <= FileEnd(f) THEN flat + len ELSE FileEnd(f)) - p.from
  <2>1. Max({flat, Offset(f)}) = IF flat >= Offset(f) THEN flat ELSE Offset(f)
    BY <1>1, MaxOfTwo
  <2>2. Min({flat + len, FileEnd(f)}) = IF flat + len <= FileEnd(f) THEN flat + len ELSE FileEnd(f)
    BY <1>1, MinOfTwo
  <2> QED BY <2>1, <2>2 DEF Part
<1>3. p = [file |-> p.file, pos |-> p.pos, from |-> p.from, len |-> p.len]
  BY DEF Part
<1>4. f \in Overlaps(flat, len) <=> p.len > 0
  BY DEF Overlaps
<1>5. /\ Clip(flat, len, f - 1) = IF Offset(f) <= flat THEN flat
                                  ELSE IF Offset(f) >= flat + len THEN flat + len ELSE Offset(f)
      /\ Clip(flat, len, f) = IF FileEnd(f) <= flat THEN flat
                              ELSE IF FileEnd(f) >= flat + len THEN flat + len ELSE FileEnd(f)
  BY <1>1 DEF Clip
<1> HIDE DEF p
<1>6. f \in Overlaps(flat, len) => p \in FileParts
  <2> SUFFICES ASSUME p.len > 0 PROVE p \in FileParts
    BY <1>4
  <2>1. p.file \in Files /\ p.pos \in Nat /\ p.from \in Nat /\ p.len \in Nat \ {0}
        /\ p.from = Offset(f) + p.pos /\ p.pos + p.len <= lengths[f]
    BY <1>1, <1>2
  <2>2. p \in [file : Files, pos : Nat, from : Nat, len : Nat \ {0}]
    BY <1>3, <2>1
  <2> QED BY <1>2, <2>1, <2>2 DEF FileParts
<1>7. /\ Clip(flat, len, f - 1) \in flat .. flat + len
      /\ Clip(flat, len, f) \in Clip(flat, len, f - 1) .. flat + len
  BY <1>1, <1>5
<1>8. p.len > 0 <=> Clip(flat, len, f - 1) < Clip(flat, len, f)
  BY <1>1, <1>2, <1>5
<1>9. p.len > 0 => p.from = Clip(flat, len, f - 1) /\ p.from + p.len = Clip(flat, len, f)
  BY <1>1, <1>2, <1>5
<1> QED BY <1>2, <1>4, <1>6, <1>7, <1>8, <1>9 DEF p

\* Where the range begins and ends.
LEMMA ClipEnds ==
    ASSUME lengths \in Layouts, NEW flat \in Nat, NEW len \in Nat \ {0},
           flat + len <= TotalLength
    PROVE  Clip(flat, len, 0) = flat /\ Clip(flat, len, Len(lengths)) = flat + len
BY Layout DEF Clip

\* Files outside the range do not move it on.
LEMMA ClipSkips ==
    ASSUME lengths \in Layouts, NEW flat \in Nat, NEW len \in Nat \ {0},
           NEW a \in 0 .. Len(lengths), NEW b \in 0 .. Len(lengths), a <= b,
           \A f \in Files : a < f /\ f <= b => f \notin Overlaps(flat, len)
    PROVE  Clip(flat, len, a) = Clip(flat, len, b)
<1> DEFINE S == {n \in 0 .. b : n >= a => Clip(flat, len, n) = Clip(flat, len, a)}
<1>1. Len(lengths) \in Nat /\ b \in Nat /\ a \in Nat
  BY Layout
<1>2. 0 \in S
  BY <1>1
<1>3. ASSUME NEW n \in 1 .. b, n - 1 \in S PROVE n \in S
  <2>1. CASE n <= a
    BY <1>1, <2>1
  <2>2. CASE n > a
    <3>1. n \in Files /\ n \notin Overlaps(flat, len)
      BY <1>1, <2>2 DEF Files
    <3>2. /\ Clip(flat, len, n - 1) \in flat .. flat + len
          /\ Clip(flat, len, n) \in Clip(flat, len, n - 1) .. flat + len
          /\ ~ (Clip(flat, len, n - 1) < Clip(flat, len, n))
      BY <3>1, ClipSteps
    <3>3. Clip(flat, len, n - 1) = Clip(flat, len, n)
      BY <3>2
    <3> QED BY <1>1, <1>3, <2>2, <3>3
  <2> QED BY <1>1, <2>1, <2>2
<1>4. 0 .. b \subseteq S
  <2> HIDE DEF S
  <2> QED BY <1>1, <1>2, <1>3, RangeInduction
<1> QED BY <1>1, <1>4

\* A range is not all outside the files.
LEMMA SomeFile ==
    ASSUME lengths \in Layouts, NEW flat \in Nat, NEW len \in Nat \ {0},
           flat + len <= TotalLength
    PROVE  Overlaps(flat, len) # {}
<1> SUFFICES ASSUME Overlaps(flat, len) = {} PROVE FALSE
  OBVIOUS
<1>1. Len(lengths) \in Nat
  BY Layout
<1>2. Clip(flat, len, 0) = Clip(flat, len, Len(lengths))
  BY <1>1, ClipSkips
<1> QED BY <1>2, ClipEnds

\* The first of some files is one of them.
LEMMA FirstFile ==
    ASSUME lengths \in Layouts, NEW S, S \subseteq Files, S # {}
    PROVE  Min(S) \in S /\ Min(S) \in Files /\ \A f \in S : Min(S) <= f
<1>1. S \subseteq Nat
  BY Layout DEF Files
<1> QED BY <1>1, LeastElement

-----------------------------------------------------------------------------
(* Reading a range back.                                                   *)

\* Where the resume code stands is defined after every file.
LEMMA ResumeRecur ==
    ASSUME lengths \in Layouts, NEW flat \in Nat, NEW len \in Nat \ {0}
    PROVE  LET at == ResumeOffsets(flat, len)
           IN  /\ at[0] = flat
               /\ \A n \in 1 .. Len(lengths) :
                     at[n] = IF ResumeSkips(at[n - 1], flat + len, n) THEN at[n - 1]
                             ELSE at[n - 1] + ResumePart(at[n - 1], flat + len, n).len
<1> DEFINE L == Len(lengths)
           end == flat + len
           h == [n \in 1 .. L |-> [s \in Int |->
                   IF ResumeSkips(s, end, n) THEN s ELSE s + ResumePart(s, end, n).len]]
           F(f) == [n \in 0 .. L |->
                      IF n = 0 THEN flat
                      ELSE IF ResumeSkips(f[n - 1], end, n) THEN f[n - 1]
                      ELSE f[n - 1] + ResumePart(f[n - 1], end, n).len]
<1>1. L \in Nat /\ flat \in Int /\ end \in Int
  BY Layout
<1>2. h \in [1 .. L -> [Int -> Int]]
  <2>1. ASSUME NEW n \in 1 .. L, NEW s \in Int PROVE ResumePart(s, end, n).len \in Int
    <3>1. n \in Files /\ Offset(n) \in Int /\ lengths[n] \in Int
      BY Layout DEF Files
    <3>2. Max({s - Offset(n), 0}) \in Int /\ Min({end - Offset(n), lengths[n]}) \in Int
      BY <1>1, <3>1, MaxOfTwo, MinOfTwo
    <3> QED BY <3>2 DEF ResumePart
  <2> QED BY <2>1
<1>3. PICK f : Recurs(f, L, Int, flat, h)
  <2> HIDE DEF h, L
  <2> QED BY <1>1, <1>2, RecursionExists
<1>4. f = F(f)
  <2>1. f \in [0 .. L -> Int] /\ f[0] = flat /\ \A n \in 1 .. L : f[n] = h[n][f[n - 1]]
    BY <1>3 DEF Recurs
  <2>2. ASSUME NEW n \in 1 .. L
        PROVE  f[n] = IF ResumeSkips(f[n - 1], end, n) THEN f[n - 1]
                      ELSE f[n - 1] + ResumePart(f[n - 1], end, n).len
    <3>1. f[n] = h[n][f[n - 1]]
      <4> HIDE DEF h, L
      <4> QED BY <2>1
    <3>2. n - 1 \in 0 .. L
      BY <1>1
    <3>3. f[n - 1] \in Int
      <4> HIDE DEF h, L
      <4> QED BY <2>1, <3>2
    <3> QED BY <3>1, <3>3
  <2> HIDE DEF h
  <2> QED BY <1>1, <2>1, <2>2
<1>5. ResumeOffsets(flat, len) = F(ResumeOffsets(flat, len))
  BY <1>4 DEF ResumeOffsets
<1> HIDE DEF h
<1> QED BY <1>1, <1>5

\* The resume code comes as far as the range reaches, and what it reads of a file is
\* what the writer put there.
LEMMA ResumeFollows ==
    ASSUME lengths \in Layouts, NEW flat \in Nat, NEW len \in Nat \ {0}
    PROVE  LET at == ResumeOffsets(flat, len)
           IN  /\ at[Len(lengths)] = Clip(flat, len, Len(lengths))
               /\ \A f \in Files : ~ResumeSkips(at[f - 1], flat + len, f) =>
                     /\ f \in Overlaps(flat, len)
                     /\ ResumePart(at[f - 1], flat + len, f) = Part(flat, len, f)
<1> DEFINE at == ResumeOffsets(flat, len)
           end == flat + len
           S == {n \in 0 .. Len(lengths) : at[n] = Clip(flat, len, n)}
<1>1. Len(lengths) \in Nat
  BY Layout
<1>2. ASSUME NEW f \in Files, at[f - 1] = Clip(flat, len, f - 1)
      PROVE  /\ at[f] = Clip(flat, len, f)
             /\ ~ResumeSkips(at[f - 1], end, f) =>
                   /\ f \in Overlaps(flat, len)
                   /\ ResumePart(at[f - 1], end, f) = Part(flat, len, f)
  <2> DEFINE x == Clip(flat, len, f - 1)
             E0 == Offset(f)
             E1 == FileEnd(f)
  <2>1. /\ E0 \in Nat /\ E1 \in Nat /\ lengths[f] \in Nat /\ E1 = E0 + lengths[f]
        /\ Offsets(lengths)[f - 1] = E0 /\ Offsets(lengths)[f] = E1 /\ f \in 1 .. Len(lengths)
    BY Layout
  <2>2. /\ x = IF E0 <= flat THEN flat ELSE IF E0 >= end THEN end ELSE E0
        /\ Clip(flat, len, f) = IF E1 <= flat THEN flat ELSE IF E1 >= end THEN end ELSE E1
    BY <2>1 DEF Clip
  <2>3. x \in Int /\ end \in Int
    BY <2>1, <2>2
  <2>4. Max({x - E0, 0}) = (IF x - E0 >= 0 THEN x - E0 ELSE 0)
        /\ Min({end - E0, lengths[f]}) = (IF end - E0 <= lengths[f] THEN end - E0 ELSE lengths[f])
    <3> HIDE DEF x, E0, E1, end
    <3> QED BY <2>1, <2>3, MaxOfTwo, MinOfTwo
  <2>5. at[f] = IF ResumeSkips(x, end, f) THEN x ELSE x + ResumePart(x, end, f).len
    <3> HIDE DEF at
    <3>1. \A n \in 1 .. Len(lengths) :
             at[n] = IF ResumeSkips(at[n - 1], flat + len, n) THEN at[n - 1]
                     ELSE at[n - 1] + ResumePart(at[n - 1], flat + len, n).len
      BY ResumeRecur DEF at
    <3> QED BY <1>2, <2>1, <3>1
  <2>6. ResumeSkips(x, end, f) <=> x >= end \/ x >= E1 \/ E0 >= end
    BY DEF ResumeSkips
  <2>7. /\ ResumePart(x, end, f).file = f
        /\ ResumePart(x, end, f).pos = Max({x - E0, 0})
        /\ ResumePart(x, end, f).from = x
        /\ ResumePart(x, end, f).len = Min({end - E0, lengths[f]}) - Max({x - E0, 0})
        /\ ResumePart(x, end, f)
             = [file |-> ResumePart(x, end, f).file, pos |-> ResumePart(x, end, f).pos,
                from |-> ResumePart(x, end, f).from, len |-> ResumePart(x, end, f).len]
    BY DEF ResumePart
  <2>8. at[f] = Clip(flat, len, f)
    <3> HIDE DEF x, E0, E1, at
    <3>1. at[f] = IF x >= end \/ x >= E1 \/ E0 >= end THEN x
                  ELSE x + ((IF end - E0 <= lengths[f] THEN end - E0 ELSE lengths[f])
                            - (IF x - E0 >= 0 THEN x - E0 ELSE 0))
      BY <2>4, <2>5, <2>6, <2>7
    <3>2. flat \in Nat /\ flat < end
      OBVIOUS
    <3> HIDE DEF end
    <3> QED BY <2>1, <2>2, <2>3, <3>1, <3>2
  <2>9. ASSUME ~ResumeSkips(x, end, f)
        PROVE  f \in Overlaps(flat, len) /\ ResumePart(x, end, f) = Part(flat, len, f)
    <3>1. x < Clip(flat, len, f)
      <4> HIDE DEF x, E0, E1, at
      <4> QED BY <2>1, <2>2, <2>3, <2>6, <2>9
    <3>2. /\ f \in Overlaps(flat, len) /\ Part(flat, len, f) \in FileParts
          /\ Part(flat, len, f).file = f /\ Part(flat, len, f).from = x
          /\ Part(flat, len, f).from + Part(flat, len, f).len = Clip(flat, len, f)
      BY <3>1, ClipSteps
    <3> DEFINE p == Part(flat, len, f)
               q == ResumePart(x, end, f)
    <3>3. /\ p.pos \in Nat /\ p.from = E0 + p.pos /\ p.len \in Nat
          /\ p = [file |-> p.file, pos |-> p.pos, from |-> p.from, len |-> p.len]
      BY <3>2 DEF FileParts
    <3>4. q.file = p.file /\ q.from = p.from /\ q.pos = p.pos /\ q.len = p.len
      <4> HIDE DEF x, E0, E1, at, p, q
      <4>1. q.file = f /\ q.from = x /\ q.pos = Max({x - E0, 0})
            /\ q.len = Min({end - E0, lengths[f]}) - Max({x - E0, 0})
        BY <2>7 DEF q
      <4>2. p.file = f /\ p.from = x /\ p.from + p.len = Clip(flat, len, f)
        BY <3>2 DEF p
      <4>3. flat \in Nat /\ flat < end /\ ~ (x >= end \/ x >= E1 \/ E0 >= end)
        BY <2>6, <2>9
      <4> HIDE DEF end
      <4>4. x >= E0 /\ Max({x - E0, 0}) = x - E0
        BY <2>1, <2>2, <2>3, <2>4, <4>3
      <4>5. p.pos = x - E0 /\ p.len = Clip(flat, len, f) - x
        BY <2>1, <2>2, <2>3, <3>3, <4>2
      <4>6. Clip(flat, len, f) = Min({end - E0, lengths[f]}) + E0
        BY <2>1, <2>2, <2>3, <2>4, <4>3
      <4>7. Min({end - E0, lengths[f]}) \in Int
        BY <2>1, <2>3, <2>4
      <4>8. Min({end - E0, lengths[f]}) - (x - E0) = Min({end - E0, lengths[f]}) + E0 - x
        BY <2>1, <2>3, <4>7
      <4>9. q.pos = p.pos
        BY <4>1, <4>4, <4>5
      <4>10. q.len = p.len
        BY <2>1, <2>3, <4>1, <4>4, <4>5, <4>6, <4>7, <4>8
      <4> QED BY <4>1, <4>2, <4>9, <4>10
    <3>5. p = q
      <4> HIDE DEF x, E0, E1, at, p, q
      <4> QED BY <2>7, <3>3, <3>4 DEF q
    <3> QED BY <3>2, <3>5
  <2> QED BY <1>2, <2>8, <2>9
<1>3. 0 .. Len(lengths) \subseteq S
  <2>1. 0 \in S
    <3>1. at[0] = flat
      BY ResumeRecur
    <3>2. Clip(flat, len, 0) = flat
      BY Layout DEF Clip
    <3> QED BY <1>1, <3>1, <3>2
  <2>2. ASSUME NEW n \in 1 .. Len(lengths), n - 1 \in S PROVE n \in S
    <3>1. n \in Files /\ n \in 0 .. Len(lengths)
      BY <1>1 DEF Files
    <3>2. at[n] = Clip(flat, len, n)
      <4> HIDE DEF at
      <4> QED BY <1>2, <2>2, <3>1
    <3> QED BY <3>1, <3>2
  <2> HIDE DEF S
  <2> QED BY <1>1, <2>1, <2>2, RangeInduction
<1>4. \A f \in Files : at[f - 1] = Clip(flat, len, f - 1)
  <2> TAKE f \in Files
  <2>1. f - 1 \in S
    <3>1. f - 1 \in 0 .. Len(lengths)
      BY Layout
    <3> HIDE DEF S
    <3> QED BY <1>3, <3>1
  <2> QED BY <2>1
<1>5. at[Len(lengths)] = Clip(flat, len, Len(lengths))
  <2>1. Len(lengths) \in S
    <3> HIDE DEF S
    <3> QED BY <1>1, <1>3
  <2> QED BY <2>1
<1> HIDE DEF at
<1> QED BY <1>2, <1>4, <1>5 DEF at

-----------------------------------------------------------------------------
(* The bytes in the files.                                                 *)

\* A part of a file, byte by byte.
LEMMA PartBytes ==
    ASSUME NEW s \in Seq(Int), NEW p \in FileParts
    PROVE  /\ p.pos + p.len <= Len(s)
           /\ SubSeq(s, p.pos + 1, p.pos + p.len) = Stream(p.from, p.len)
           <=>
           /\ p.pos + p.len <= Len(s)
           /\ \A k \in 1 .. p.len : s[p.pos + k] = p.from + k - 1
<1>1. p.pos \in Nat /\ p.len \in Nat /\ p.from \in Nat
  BY DEF FileParts
<1> SUFFICES ASSUME p.pos + p.len <= Len(s)
             PROVE  SubSeq(s, p.pos + 1, p.pos + p.len) = Stream(p.from, p.len)
                    <=> \A k \in 1 .. p.len : s[p.pos + k] = p.from + k - 1
  OBVIOUS
<1> DEFINE m == p.pos
           n == p.len
           b == SubSeq(s, m + 1, m + n)
<1>2. b \in Seq(Int) /\ Len(b) = n /\ \A k \in 1 .. n : b[k] = s[m + k]
  <2>1. m \in Nat /\ n \in Nat /\ m + n <= Len(s)
    BY <1>1
  <2> HIDE DEF m, n
  <2> QED BY <2>1, Slice
<1> HIDE DEF b
<1>3. b = [k \in 1 .. n |-> b[k]]
  BY <1>1, <1>2
<1>4. b = Stream(p.from, n) <=> \A k \in 1 .. n : b[k] = p.from + k - 1
  BY <1>3 DEF Stream
<1> QED BY <1>2, <1>4 DEF b

LEMMA StoredBytes ==
    ASSUME files \in [Files -> Seq(Int)], NEW p \in FileParts
    PROVE  Stored(p) <=>
              /\ p.pos + p.len <= Len(files[p.file])
              /\ \A k \in 1 .. p.len : files[p.file][p.pos + k] = p.from + k - 1
<1>1. files[p.file] \in Seq(Int)
  BY DEF FileParts
<1> QED BY <1>1, PartBytes DEF Stored, Readable, BytesOf

\* What write_at leaves in a file.
LEMMA PutBytes ==
    ASSUME NEW bytes \in Seq(Int), NEW p \in FileParts
    PROVE  /\ Put(bytes, p) \in Seq(Int)
           /\ Len(Put(bytes, p)) >= Len(bytes) /\ Len(Put(bytes, p)) >= p.pos + p.len
           /\ \A k \in 1 .. Len(Put(bytes, p)) :
                 Put(bytes, p)[k] = IF k > p.pos /\ k <= p.pos + p.len
                                    THEN p.from + k - p.pos - 1
                                    ELSE IF k <= Len(bytes) THEN bytes[k] ELSE Wrong
<1> DEFINE m == Max({Len(bytes), p.pos + p.len})
<1>1. p.pos \in Nat /\ p.len \in Nat /\ p.from \in Nat /\ Len(bytes) \in Nat /\ p.pos + p.len \in Nat
  BY DEF FileParts
<1>2. m = (IF Len(bytes) >= p.pos + p.len THEN Len(bytes) ELSE p.pos + p.len)
  <2> HIDE DEF m
  <2> QED BY <1>1, MaxOfTwo DEF m
<1>3. Put(bytes, p) = [k \in 1 .. m |->
          IF k > p.pos /\ k <= p.pos + p.len THEN p.from + k - p.pos - 1
          ELSE IF k <= Len(bytes) THEN bytes[k] ELSE Wrong]
  BY DEF Put
<1>4. m \in Nat
  BY <1>1, <1>2
<1> HIDE DEF m
<1>5. \A k \in 1 .. m : Put(bytes, p)[k] \in Int
  BY <1>1, <1>3, <1>4 DEF Wrong
<1>6. Put(bytes, p) \in Seq(Int) /\ Len(Put(bytes, p)) = m
  BY <1>3, <1>4, <1>5
<1> QED BY <1>1, <1>2, <1>3, <1>4, <1>6

\* A range whose parts are all in their files is read back by the resume code.
LEMMA ReadBack ==
    ASSUME lengths \in Layouts, NEW i \in Pieces,
           \A f \in Overlaps(PieceStart(i), PieceLen(i)) : Stored(PiecePart(i, f))
    PROVE  Resumable(i)
<1> DEFINE flat == PieceStart(i)
           len == PieceLen(i)
           at == ResumeOffsets(flat, len)
<1>1. flat \in Nat /\ len \in Nat \ {0} /\ flat + len <= TotalLength
  BY PieceWithin
<1> HIDE DEF flat, len
<1>2. /\ at[Len(lengths)] = Clip(flat, len, Len(lengths))
      /\ \A f \in Files : ~ResumeSkips(at[f - 1], flat + len, f) =>
            /\ f \in Overlaps(flat, len)
            /\ ResumePart(at[f - 1], flat + len, f) = Part(flat, len, f)
  BY <1>1, ResumeFollows
<1>3. at[Len(lengths)] = flat + len
  BY <1>1, <1>2, ClipEnds
<1> QED BY <1>2, <1>3 DEF Resumable, PiecePart, flat, len

\* The bytes of a part reach their file: right bytes stay right, and so what was stored
\* stays stored.
LEMMA LandKeepsBytes ==
    ASSUME StoreTypeOK, \A f \in Files : InPlace(f), NEW p \in pending,
           files' = [files EXCEPT ![p.file] = Put(@, p)], UNCHANGED lengths
    PROVE  /\ files' \in [Files -> Seq(Int)]
           /\ \A f \in Files : InPlace(f)'
           /\ Stored(p)'
           /\ \A q \in FileParts : Stored(q) => Stored(q)'
<1>1. p \in FileParts /\ files \in [Files -> Seq(Int)]
  BY DEF StoreTypeOK
<1>2. /\ p.file \in Files /\ p.pos \in Nat /\ p.len \in Nat \ {0} /\ p.from \in Nat
      /\ p.from = Offset(p.file) + p.pos
  BY <1>1 DEF FileParts
<1>3. files[p.file] \in Seq(Int)
  BY <1>1, <1>2
<1> DEFINE old == files[p.file]
           new == files'[p.file]
<1>4. new = Put(old, p) /\ \A f \in Files : f # p.file => files'[f] = files[f]
  BY <1>1, <1>2
<1>5. /\ new \in Seq(Int) /\ Len(new) \in Nat /\ Len(old) \in Nat
      /\ Len(new) >= Len(old) /\ Len(new) >= p.pos + p.len
      /\ \A k \in 1 .. Len(new) :
            new[k] = IF k > p.pos /\ k <= p.pos + p.len THEN p.from + k - p.pos - 1
                     ELSE IF k <= Len(old) THEN old[k] ELSE Wrong
  <2> HIDE DEF old, new
  <2>1. old \in Seq(Int)
    BY <1>3 DEF old
  <2> DEFINE put == Put(old, p)
  <2>2. /\ put \in Seq(Int) /\ Len(put) >= Len(old) /\ Len(put) >= p.pos + p.len
        /\ \A k \in 1 .. Len(put) :
              put[k] = IF k > p.pos /\ k <= p.pos + p.len THEN p.from + k - p.pos - 1
                       ELSE IF k <= Len(old) THEN old[k] ELSE Wrong
    BY <1>1, <2>1, PutBytes
  <2>3. new = put
    BY <1>4
  <2> HIDE DEF put
  <2> QED BY <2>1, <2>2, <2>3
<1>6. files' \in [Files -> Seq(Int)]
  <2>1. \A f \in Files : files'[f] \in Seq(Int)
    BY <1>1, <1>4, <1>5
  <2> QED BY <1>1, <2>1
<1>7. Offset(p.file) \in Nat
  BY <1>2, Layout DEF StoreTypeOK
<1>8. ASSUME NEW f \in Files PROVE InPlace(f)'
  <2>1. Offset(f)' = Offset(f)
    BY LayoutStays
  <2>2. CASE f # p.file
    BY <1>4, <2>1, <2>2 DEF InPlace
  <2>3. CASE f = p.file
    <3>1. ASSUME NEW k \in 1 .. Len(new) PROVE new[k] \in {Wrong, Offset(f) + k - 1}
      <4>1. CASE k > p.pos /\ k <= p.pos + p.len
        <5> HIDE DEF old, new
        <5>1. new[k] = p.from + k - p.pos - 1
          BY <1>5, <4>1
        <5>2. p.from + k - p.pos - 1 = Offset(f) + k - 1
          BY <1>2, <1>5, <1>7, <2>3
        <5> QED BY <5>1, <5>2
      <4>2. CASE ~ (k > p.pos /\ k <= p.pos + p.len) /\ k <= Len(old)
        <5>1. old[k] \in {Wrong, Offset(f) + k - 1}
          BY <1>5, <2>3, <4>2 DEF InPlace
        <5> HIDE DEF old, new
        <5> QED BY <1>5, <4>2, <5>1
      <4>3. CASE ~ (k > p.pos /\ k <= p.pos + p.len) /\ ~ (k <= Len(old))
        <5> HIDE DEF old, new
        <5> QED BY <1>5, <4>3
      <4> QED BY <4>1, <4>2, <4>3
    <3> QED BY <2>1, <2>3, <3>1 DEF InPlace
  <2> QED BY <2>2, <2>3
<1>9. ASSUME NEW q \in FileParts
       PROVE  Stored(q)' <=> /\ q.pos + q.len <= Len(files'[q.file])
                             /\ \A k \in 1 .. q.len : files'[q.file][q.pos + k] = q.from + k - 1
  <2>1. files'[q.file] \in Seq(Int)
    BY <1>6 DEF FileParts
  <2> QED BY <2>1, PartBytes DEF Stored, Readable, BytesOf, Stream
<1>10. Stored(p)'
  <2>1. \A k \in 1 .. p.len : new[p.pos + k] = p.from + k - 1
    <3> TAKE k \in 1 .. p.len
    <3> DEFINE j == p.pos + k
    <3>1. j \in 1 .. Len(new) /\ j > p.pos /\ j <= p.pos + p.len /\ p.from + j - p.pos - 1 = p.from + k - 1
      <4> HIDE DEF new, old
      <4>1. k \in Int /\ k >= 1 /\ k <= p.len
        BY <1>2
      <4>2. j > p.pos /\ j <= p.pos + p.len /\ j \in Int
        BY <1>2, <4>1
      <4>3. p.from + j - p.pos - 1 = p.from + k - 1
        BY <1>2, <4>1
      <4>4. j \in 1 .. Len(new)
        <5> HIDE DEF j
        <5> QED BY <1>2, <1>5, <4>2
      <4> QED BY <4>2, <4>3, <4>4
    <3> HIDE DEF j, new
    <3>2. new[j] = p.from + j - p.pos - 1
      BY <1>5, <3>1
    <3> QED BY <3>1, <3>2 DEF j
  <2> QED BY <1>1, <1>5, <1>9, <2>1
<1>11. ASSUME NEW q \in FileParts, Stored(q) PROVE Stored(q)'
  <2>1. /\ q.pos + q.len <= Len(files[q.file])
        /\ \A k \in 1 .. q.len : files[q.file][q.pos + k] = q.from + k - 1
    BY <1>1, <1>11, StoredBytes
  <2>2. q.file \in Files /\ q.pos \in Nat /\ q.len \in Nat /\ q.from = Offset(q.file) + q.pos
    BY DEF FileParts
  <2>3. CASE q.file # p.file
    BY <1>4, <1>9, <2>1, <2>2, <2>3
  <2>4. CASE q.file = p.file
    <3>1. q.pos + q.len <= Len(new)
      BY <1>5, <2>1, <2>2, <2>4
    <3>2. ASSUME NEW k \in 1 .. q.len PROVE new[q.pos + k] = q.from + k - 1
      <4> DEFINE j == q.pos + k
      <4>1. j \in 1 .. Len(new) /\ j <= Len(old)
        <5>1. q.pos + q.len <= Len(old)
          BY <2>1, <2>4
        <5> HIDE DEF new, old
        <5> QED BY <1>5, <2>2, <3>1, <5>1
      <4>2. old[j] = q.from + k - 1
        BY <2>1, <2>4
      <4>3. p.from + j - p.pos - 1 = q.from + k - 1
        BY <1>2, <1>7, <2>2, <2>4
      <4> HIDE DEF j, old, new
      <4>4. new[j] = IF j > p.pos /\ j <= p.pos + p.len THEN p.from + j - p.pos - 1 ELSE old[j]
        BY <1>5, <4>1
      <4> QED BY <4>2, <4>3, <4>4 DEF j
    <3> QED BY <1>9, <2>4, <3>1, <3>2
  <2> QED BY <2>3, <2>4
<1> QED BY <1>6, <1>8, <1>10, <1>11

\* While files and layout stay, so does all that is said of them.
LEMMA FilesStay ==
    ASSUME UNCHANGED <<lengths, files>>
    PROVE  (\A f \in Files : InPlace(f)' <=> InPlace(f)) /\ \A p : Stored(p)' <=> Stored(p)
BY LayoutStays DEF InPlace, Stored, Readable, BytesOf

-----------------------------------------------------------------------------
(* The files keep the invariant.                                           *)

LEMMA StoreInitInv == StoreInit => StoreInv
<1> SUFFICES ASSUME StoreInit PROVE StoreInv
  OBVIOUS
<1>1. lengths \in Layouts /\ \A f \in Files : lengths[f] \in Nat
  BY Layout DEF StoreInit
<1>2. ASSUME files = [f \in Files |-> <<>>]
      PROVE  files \in [Files -> Seq(Int)] /\ \A f \in Files : InPlace(f)
  BY <1>2 DEF InPlace
<1>3. ASSUME files = [f \in Files |-> [k \in 1 .. lengths[f] |-> Wrong]]
      PROVE  files \in [Files -> Seq(Int)] /\ \A f \in Files : InPlace(f)
  <2>1. \A f \in Files : files[f] = [k \in 1 .. lengths[f] |-> Wrong]
    BY <1>3
  <2>2. \A f \in Files : files[f] \in Seq(Int) /\ Len(files[f]) = lengths[f]
    <3> TAKE f \in Files
    <3> DEFINE n == lengths[f]
    <3>1. files[f] = [k \in 1 .. n |-> -1] /\ n \in Nat
      BY <1>1, <2>1 DEF Wrong
    <3> HIDE DEF n
    <3>2. [k \in 1 .. n |-> -1] \in Seq(Int) /\ Len([k \in 1 .. n |-> -1]) = n
      BY <3>1
    <3> QED BY <3>1, <3>2 DEF n
  <2>3. \A f \in Files : InPlace(f)
    BY <2>1, <2>2 DEF InPlace
  <2> QED BY <1>3, <2>2, <2>3
<1>4. StoreTypeOK
  BY <1>1, <1>2, <1>3 DEF StoreTypeOK, StoreInit
<1>5. \A i \in Pieces : Written(i)
  BY DEF Written, StoreInit
<1> QED BY <1>2, <1>3, <1>4, <1>5 DEF StoreInv, StoreInit

LEMMA StoreStutters == ASSUME StoreInv, UNCHANGED storeVars PROVE StoreInv'
<1>1. UNCHANGED <<lengths, files, write, todo, pending>>
  BY DEF storeVars
<1>2. StoreTypeOK'
  BY <1>1, LayoutStays DEF StoreInv, StoreTypeOK, FileParts
<1>3. \A f \in Files' : InPlace(f)'
  BY <1>1, LayoutStays, FilesStay DEF StoreInv
<1>4. \A i \in Pieces' : Written(i)'
  BY <1>1, LayoutStays, FilesStay DEF StoreInv, Written
<1> QED BY <1>2, <1>3, <1>4 DEF StoreInv

\* A step of write_piece that leaves the files alone: only piece i is affected.
LEMMA WriteStepInv ==
    ASSUME StoreInv, NEW i \in Pieces, UNCHANGED <<lengths, files>>,
           pending \subseteq pending', pending' \subseteq FileParts,
           write' \in [Pieces -> {"none", "busy", "done"}],
           todo' \in [Pieces -> SUBSET Files],
           \A j \in Pieces : j # i => write'[j] = write[j] /\ todo'[j] = todo[j],
           Written(i)'
    PROVE  StoreInv'
<1>1. StoreTypeOK'
  BY LayoutStays DEF StoreInv, StoreTypeOK, FileParts
<1>2. \A f \in Files' : InPlace(f)'
  BY LayoutStays, FilesStay DEF StoreInv
<1>3. ASSUME NEW j \in Pieces, j # i PROVE Written(j)'
  <2>1. Written(j) /\ write'[j] = write[j] /\ todo'[j] = todo[j]
    BY <1>3 DEF StoreInv
  <2> QED BY <2>1, LayoutStays, FilesStay DEF Written
<1> QED BY <1>1, <1>2, <1>3, LayoutStays DEF StoreInv

LEMMA PieceFilesAreFiles == \A i : PieceFiles(i) \subseteq Files
BY DEF PieceFiles, Overlaps

LEMMA BeginWriteInv == ASSUME StoreInv, NEW i \in Pieces, BeginWrite(i) PROVE StoreInv'
<1>1. /\ UNCHANGED <<lengths, files, pending>> /\ pending \subseteq FileParts
      /\ write' = [write EXCEPT ![i] = "busy"] /\ todo' = [todo EXCEPT ![i] = PieceFiles(i)]
      /\ write \in [Pieces -> {"none", "busy", "done"}] /\ todo \in [Pieces -> SUBSET Files]
  BY DEF BeginWrite, StoreInv, StoreTypeOK, PieceFiles
<1>2. PieceFiles(i) \in SUBSET Files /\ PieceFiles(i) # {}
  BY PieceFilesAreFiles, PieceWithin, SomeFile DEF PieceFiles, StoreInv, StoreTypeOK
<1>3. /\ write' \in [Pieces -> {"none", "busy", "done"}] /\ todo' \in [Pieces -> SUBSET Files]
      /\ write'[i] = "busy" /\ todo'[i] = PieceFiles(i)
      /\ \A j \in Pieces : j # i => write'[j] = write[j] /\ todo'[j] = todo[j]
  BY <1>1, <1>2
<1>4. Written(i)'
  BY <1>1, <1>2, <1>3, LayoutStays DEF Written
<1> QED BY <1>1, <1>3, <1>4, WriteStepInv

LEMMA WritePartInv == ASSUME StoreInv, NEW i \in Pieces, WritePart(i) PROVE StoreInv'
<1> DEFINE f == Min(todo[i])
           p == PiecePart(i, f)
<1>1. /\ UNCHANGED <<lengths, files>> /\ todo[i] # {}
      /\ pending' = pending \cup {p} /\ todo' = [todo EXCEPT ![i] = @ \ {f}]
      /\ write' = [write EXCEPT ![i] = IF todo[i] = {f} THEN "done" ELSE "busy"]
  BY DEF WritePart
<1>2. /\ lengths \in Layouts /\ pending \subseteq FileParts
      /\ write \in [Pieces -> {"none", "busy", "done"}] /\ todo \in [Pieces -> SUBSET Files]
      /\ Written(i)
  BY DEF StoreInv, StoreTypeOK
<1>3. f \in todo[i] /\ f \in PieceFiles(i) /\ f \in Files
  BY <1>1, <1>2, FirstFile DEF Written
<1>4. p \in FileParts
  BY <1>2, <1>3, PieceWithin, ClipSteps DEF PieceFiles, PiecePart
<1> HIDE DEF f, p
<1>5. /\ write' \in [Pieces -> {"none", "busy", "done"}] /\ todo' \in [Pieces -> SUBSET Files]
      /\ write'[i] = (IF todo[i] = {f} THEN "done" ELSE "busy") /\ todo'[i] = todo[i] \ {f}
      /\ \A j \in Pieces : j # i => write'[j] = write[j] /\ todo'[j] = todo[j]
  BY <1>1, <1>2
<1>6. Written(i)'
  <2>1. todo'[i] \subseteq PieceFiles(i)' /\ (write'[i] = "busy" <=> todo'[i] # {})
    BY <1>1, <1>2, <1>3, <1>5, LayoutStays DEF Written
  <2>2. ASSUME NEW g \in PieceFiles(i) \ todo'[i]
        PROVE  PiecePart(i, g) \in pending' \/ Stored(PiecePart(i, g))
    <3>1. CASE g = f
      BY <1>1, <3>1 DEF p
    <3>2. CASE g # f
      <4>1. g \notin todo[i] /\ write[i] # "none"
        BY <1>1, <1>2, <1>3, <1>5, <3>2 DEF Written
      <4> QED BY <1>1, <1>2, <4>1 DEF Written
    <3> QED BY <3>1, <3>2
  <2> QED BY <1>1, <2>1, <2>2, LayoutStays, FilesStay DEF Written
<1> QED BY <1>1, <1>2, <1>4, <1>5, <1>6, WriteStepInv

LEMMA WriteErrorInv == ASSUME StoreInv, NEW i \in Pieces, WriteError(i) PROVE StoreInv'
<1>1. /\ UNCHANGED <<lengths, files, pending>> /\ pending \subseteq FileParts
      /\ write' = [write EXCEPT ![i] = "none"] /\ todo' = [todo EXCEPT ![i] = {}]
      /\ write \in [Pieces -> {"none", "busy", "done"}] /\ todo \in [Pieces -> SUBSET Files]
  BY DEF WriteError, StoreInv, StoreTypeOK
<1>2. /\ write' \in [Pieces -> {"none", "busy", "done"}] /\ todo' \in [Pieces -> SUBSET Files]
      /\ write'[i] = "none" /\ todo'[i] = {}
      /\ \A j \in Pieces : j # i => write'[j] = write[j] /\ todo'[j] = todo[j]
  BY <1>1
<1>3. Written(i)'
  BY <1>2 DEF Written
<1> QED BY <1>1, <1>2, <1>3, WriteStepInv

LEMMA LandInv == ASSUME StoreInv, Land PROVE StoreInv'
<1>1. PICK p \in pending :
         /\ files' = [files EXCEPT ![p.file] = Put(@, p)] /\ pending' = pending \ {p}
         /\ UNCHANGED <<lengths, write, todo>>
  BY DEF Land
<1>2. /\ files' \in [Files -> Seq(Int)] /\ \A f \in Files : InPlace(f)'
      /\ Stored(p)' /\ \A q \in FileParts : Stored(q) => Stored(q)'
  BY <1>1, LandKeepsBytes DEF StoreInv
<1>3. StoreTypeOK'
  BY <1>1, <1>2, LayoutStays DEF StoreInv, StoreTypeOK, FileParts
<1>4. ASSUME NEW i \in Pieces PROVE Written(i)'
  <2>1. Written(i) /\ lengths \in Layouts
    BY DEF StoreInv, StoreTypeOK
  <2>2. ASSUME NEW f \in PieceFiles(i), PiecePart(i, f) \in pending \/ Stored(PiecePart(i, f))
        PROVE  PiecePart(i, f) \in pending' \/ Stored(PiecePart(i, f))'
    <3>1. PiecePart(i, f) \in FileParts
      BY <2>1, PieceFilesAreFiles, PieceWithin, ClipSteps DEF PieceFiles, PiecePart
    <3>2. PiecePart(i, f)' = PiecePart(i, f)
      BY <1>1, LayoutStays
    <3> DEFINE q == PiecePart(i, f)
    <3>3. CASE q = p
      BY <1>2, <3>2, <3>3 DEF Stored, Readable, BytesOf
    <3>4. CASE q # p
      <4>1. q \in pending' \/ Stored(q)
        BY <1>1, <2>2, <3>4
      <4>2. Stored(q) => Stored(q)'
        <5> HIDE DEF q
        <5> SUFFICES q \in FileParts /\ q' = q
          BY <1>2 DEF Stored, Readable, BytesOf
        <5> QED BY <3>1, <3>2 DEF q
      <4> QED BY <4>1, <4>2
    <3> QED BY <3>3, <3>4
  <2> QED BY <1>1, <2>1, <2>2, LayoutStays DEF Written
<1> QED BY <1>1, <1>2, <1>3, <1>4, LayoutStays DEF StoreInv

LEMMA StoreStepInv == ASSUME StoreInv, StoreStep PROVE StoreInv'
BY BeginWriteInv, WritePartInv, WriteErrorInv, LandInv DEF StoreStep

\* What has landed is resumable wherever the invariant holds.
LEMMA LandedStored == StoreInv => LandedIsResumable
<1> SUFFICES ASSUME StoreInv, NEW i \in Pieces, Landed(i) PROVE Resumable(i)
  BY DEF LandedIsResumable
<1>1. lengths \in Layouts /\ Written(i) /\ write[i] = "done"
  BY DEF StoreInv, StoreTypeOK, Landed
<1>2. ASSUME NEW f \in PieceFiles(i) PROVE Stored(PiecePart(i, f))
  <2> DEFINE flat == PieceStart(i)
             len == PieceLen(i)
             p == PiecePart(i, f)
  <2>1. flat \in Nat /\ len \in Nat \ {0} /\ f \in Files
    BY <1>1, PieceWithin, PieceFilesAreFiles
  <2>2. /\ p.len > 0 /\ p.from = Clip(flat, len, f - 1) /\ p.from + p.len = Clip(flat, len, f)
        /\ Clip(flat, len, f - 1) \in flat .. flat + len
        /\ Clip(flat, len, f) \in flat .. flat + len
        /\ p.from \in Nat /\ p.len \in Nat
    <3>1. f \in Overlaps(flat, len)
      BY DEF PieceFiles
    <3> HIDE DEF flat, len
    <3>2. Part(flat, len, f) \in FileParts
      BY <1>1, <2>1, <3>1, ClipSteps
    <3>3. Part(flat, len, f).len \in Nat \ {0} /\ Part(flat, len, f).from \in Nat
      BY <3>2 DEF FileParts
    <3>4. /\ Part(flat, len, f).from = Clip(flat, len, f - 1)
          /\ Part(flat, len, f).from + Part(flat, len, f).len = Clip(flat, len, f)
          /\ Clip(flat, len, f - 1) \in flat .. flat + len
          /\ Clip(flat, len, f) \in Clip(flat, len, f - 1) .. flat + len
      BY <1>1, <2>1, <3>1, ClipSteps
    <3>5. p = Part(flat, len, f)
      BY DEF PiecePart, flat, len
    <3> HIDE DEF p
    <3> QED BY <2>1, <3>3, <3>4, <3>5
  <2>3. p \notin pending
    <3>1. ~ (p.from + p.len <= flat \/ p.from >= flat + len)
      <4> HIDE DEF flat, len, p
      <4> QED BY <2>1, <2>2
    <3> QED BY <3>1 DEF Landed
  <2>4. todo[i] = {}
    BY <1>1 DEF Written
  <2> QED BY <1>1, <2>3, <2>4 DEF Written
<1> QED BY <1>1, <1>2, ReadBack DEF PieceFiles

\* No step of the writers or of the blocking pool takes away what is stored.
LEMMA StoredKept ==
    ASSUME StoreInv, StoreStep
    PROVE  UNCHANGED lengths /\ \A p \in FileParts : Stored(p) => Stored(p)'
<1>1. CASE Land
  <2>1. PICK p \in pending :
           files' = [files EXCEPT ![p.file] = Put(@, p)] /\ UNCHANGED lengths
    BY <1>1 DEF Land
  <2> QED BY <2>1, LandKeepsBytes DEF StoreInv
<1>2. ASSUME UNCHANGED <<lengths, files>>
      PROVE  UNCHANGED lengths /\ \A p \in FileParts : Stored(p) => Stored(p)'
  BY <1>2, FilesStay
<1> QED BY <1>1, <1>2 DEF StoreStep, BeginWrite, WritePart, WriteError

-----------------------------------------------------------------------------
(* The clients.                                                            *)

\* A request stands for the same bytes while the lengths stay.
LEMMA RequestStays ==
    ASSUME UNCHANGED lengths
    PROVE  /\ \A r : Valid(r)' <=> Valid(r)
           /\ \A r : AskedFiles(r)' = AskedFiles(r)
           /\ \A r, f : Asked(r, f)' = Asked(r, f)
BY DEF Valid, AskedFiles, Asked, RequestStart, PieceStart, PieceCount, TotalLength, PieceLen,
       Overlaps, Part, Files, FileEnd, Offset

\* A request that passes the checks lies within its piece and within the stream.
LEMMA RequestWithin ==
    ASSUME lengths \in Layouts, NEW r \in [index : Nat, begin : Nat, length : Nat], Valid(r)
    PROVE  /\ r.length \in Nat \ {0} /\ RequestStart(r) \in Nat
           /\ RequestStart(r) + r.length <= TotalLength
<1>1. r.index \in Nat /\ r.begin \in Nat /\ r.length \in Nat /\ r.length # 0
      /\ r.index < PieceCount /\ r.begin + r.length <= PieceLen(r.index)
  BY DEF Valid
<1>2. TotalLength \in Nat /\ PieceCount \in Int
  BY Layout, LayoutConstants DEF PieceCount
<1>3. r.index \in Pieces
  BY <1>1, <1>2 DEF Pieces
<1>4. /\ PieceStart(r.index) \in Nat /\ PieceLen(r.index) \in Nat
      /\ PieceStart(r.index) + PieceLen(r.index) <= TotalLength
  BY <1>3, PieceWithin
<1> QED BY <1>1, <1>2, <1>4 DEF RequestStart

\* The parts of a request are parts of files.
LEMMA AskedParts ==
    ASSUME lengths \in Layouts, NEW r \in [index : Nat, begin : Nat, length : Nat], Valid(r),
           NEW f \in AskedFiles(r)
    PROVE  f \in Files /\ Asked(r, f) \in FileParts
<1> DEFINE flat == RequestStart(r)
           len == r.length
<1>1. flat \in Nat /\ len \in Nat \ {0} /\ f \in Files /\ f \in Overlaps(flat, len)
  BY RequestWithin DEF AskedFiles, Overlaps
<1> HIDE DEF flat, len
<1>2. Part(flat, len, f) \in FileParts
  BY <1>1, ClipSteps
<1> QED BY <1>1, <1>2 DEF Asked, flat, len

\* What a client is being sent does not depend on what the others and the files do.
LEMMA AnsweringKept ==
    ASSUME StoreTypeOK, ClientTypeOK, NEW c \in Clients, Answering(c),
           UNCHANGED lengths, \A p \in FileParts : Stored(p) => Stored(p)',
           conn'[c] = conn[c], request'[c] = request[c], unread'[c] = unread[c],
           data'[c] = data[c], intact'[c] = intact[c]
    PROVE  Answering(c)'
<1>1. lengths \in Layouts /\ request[c] \in [index : Nat, begin : Nat, length : Nat] /\ Valid(request[c])
  BY DEF StoreTypeOK, ClientTypeOK, Answering
<1>2. Valid(request[c])'
  BY <1>1, RequestStays
<1>3. Progress(c)'
  BY RequestStays, LayoutStays DEF Answering, Progress, RequestStart, PieceStart
<1>4. RightSoFar(c)'
  BY DEF Answering, RightSoFar, RequestStart, PieceStart
<1>5. Intact(c) => Intact(c)'
  <2> SUFFICES ASSUME Intact(c), NEW f \in AskedFiles(request[c])' PROVE Stored(Asked(request[c], f))'
    BY DEF Intact
  <2>1. f \in AskedFiles(request[c])
    BY RequestStays
  <2>2. Asked(request[c], f) \in FileParts /\ Stored(Asked(request[c], f))
    BY <1>1, <2>1, AskedParts DEF Intact
  <2>3. Asked(request[c], f)' = Asked(request[c], f)
    BY RequestStays
  <2> DEFINE p == Asked(request[c], f)
  <2>4. p \in FileParts /\ Stored(p) /\ p' = p
    BY <2>2, <2>3
  <2> HIDE DEF p
  <2>5. Stored(p)'
    BY <2>4 DEF Stored, Readable, BytesOf
  <2> QED BY <2>5 DEF p
<1> QED BY <1>2, <1>3, <1>4, <1>5 DEF Answering

States == {"outside", "handshake", "serve", "read", "send", "ended"}

\* Of the clients only c moves, and the files stay.
LEMMA OneClientInv ==
    ASSUME StoreTypeOK, ClientInv, UNCHANGED <<lengths, files>>, ClientTypeOK', NEW c \in Clients,
           \A d \in Clients : d # c =>
              /\ conn'[d] = conn[d] /\ request'[d] = request[d] /\ unread'[d] = unread[d]
              /\ data'[d] = data[d] /\ intact'[d] = intact[d],
           conn'[c] \in {"read", "send"} => Answering(c)'
    PROVE  ClientInv'
<1>1. ASSUME NEW d \in Clients, d # c, conn'[d] \in {"read", "send"} PROVE Answering(d)'
  <2>1. Answering(d) /\ ClientTypeOK
    BY <1>1 DEF ClientInv
  <2>2. \A p \in FileParts : Stored(p) => Stored(p)'
    BY FilesStay
  <2> QED BY <1>1, <2>1, <2>2, AnsweringKept
<1> QED BY <1>1 DEF ClientInv

\* All clients stay where they are.
LEMMA ClientsStutter ==
    ASSUME StoreTypeOK, ClientInv, UNCHANGED <<lengths, clientVars>>,
           \A p \in FileParts : Stored(p) => Stored(p)'
    PROVE  ClientInv'
<1>1. UNCHANGED <<conn, request, unread, data, intact>> /\ ClientTypeOK
  BY DEF clientVars, ClientInv
<1>2. ClientTypeOK'
  BY <1>1, LayoutStays DEF ClientTypeOK
<1>3. ASSUME NEW c \in Clients, conn'[c] \in {"read", "send"} PROVE Answering(c)'
  <2>1. Answering(c)
    BY <1>1, <1>3 DEF ClientInv
  <2> QED BY <1>1, <2>1, AnsweringKept
<1> QED BY <1>2, <1>3 DEF ClientInv

\* The locals of tasks that are over, or of one that waits for a request again.
LEMMA ForgetInv ==
    ASSUME StoreTypeOK, ClientInv, UNCHANGED <<lengths, files>>, NEW S \in SUBSET Clients,
           Forget(S), conn' \in [Clients -> States],
           \A c \in Clients : IF c \in S THEN conn'[c] \notin {"read", "send"} ELSE conn'[c] = conn[c]
    PROVE  ClientInv'
<1>1. ClientTypeOK
  BY DEF ClientInv
<1>2. ClientTypeOK'
  <2>1. request' \in [Clients -> [index : Nat, begin : Nat, length : Nat]]
    BY <1>1 DEF Forget, NoRequest, ClientTypeOK
  <2>2. unread' \in [Clients -> SUBSET Files] /\ data' \in [Clients -> Seq(Int)]
    BY <1>1 DEF Forget, ClientTypeOK
  <2>3. intact' \in [Clients -> BOOLEAN]
    BY <1>1 DEF Forget, ClientTypeOK
  <2> QED BY <2>1, <2>2, <2>3, LayoutStays DEF ClientTypeOK, States
<1>3. ASSUME NEW c \in Clients, conn'[c] \in {"read", "send"} PROVE Answering(c)'
  <2>1. /\ c \notin S /\ conn'[c] = conn[c] /\ request'[c] = request[c] /\ unread'[c] = unread[c]
        /\ data'[c] = data[c]
    BY <1>3 DEF Forget
  <2>2. intact'[c] = intact[c]
    BY <1>1, <2>1 DEF Forget, ClientTypeOK
  <2>3. Answering(c)
    BY <1>3, <2>1 DEF ClientInv
  <2>4. \A p \in FileParts : Stored(p) => Stored(p)'
    BY FilesStay
  <2> QED BY <1>1, <2>1, <2>2, <2>3, <2>4, AnsweringKept
<1> QED BY <1>2, <1>3 DEF ClientInv

\* A request begins at the first of its files.
LEMMA RequestInv == ASSUME StoreTypeOK, ClientInv, NEW c \in Clients, Request(c) PROVE ClientInv'
<1>1. PICK r \in Requests :
         /\ Valid(r)
         /\ request' = [request EXCEPT ![c] = r]
         /\ unread' = [unread EXCEPT ![c] = AskedFiles(r)]
         /\ intact' = [intact EXCEPT ![c] = \A f \in AskedFiles(r) : Stored(Asked(r, f))]
  BY DEF Request
<1>2. /\ conn' = [conn EXCEPT ![c] = "read"] /\ data' = [data EXCEPT ![c] = <<>>]
      /\ UNCHANGED <<lengths, files>>
  BY DEF Request, Step, storeVars
<1>3. ClientTypeOK /\ lengths \in Layouts
  BY DEF ClientInv, StoreTypeOK
<1>4. r \in [index : Nat, begin : Nat, length : Nat]
  BY <1>3, Layout, LayoutConstants, SeedConstants DEF Requests, PieceCount
<1>5. AskedFiles(r) \in SUBSET Files
  BY DEF AskedFiles, Overlaps
<1>6. ClientTypeOK'
  <2>1. conn' \in [Clients -> States] /\ request' \in [Clients -> [index : Nat, begin : Nat, length : Nat]]
    BY <1>1, <1>2, <1>3, <1>4 DEF ClientTypeOK, States
  <2>2. unread' \in [Clients -> SUBSET Files] /\ data' \in [Clients -> Seq(Int)]
    BY <1>1, <1>2, <1>3, <1>5 DEF ClientTypeOK
  <2>3. intact' \in [Clients -> BOOLEAN]
    BY <1>1, <1>3 DEF ClientTypeOK
  <2> QED BY <1>2, <2>1, <2>2, <2>3, LayoutStays DEF ClientTypeOK, States
<1>7. /\ conn'[c] = "read" /\ request'[c] = r /\ unread'[c] = AskedFiles(r) /\ data'[c] = <<>>
      /\ intact'[c] <=> \A f \in AskedFiles(r) : Stored(Asked(r, f))
  BY <1>1, <1>2, <1>3 DEF ClientTypeOK
<1> DEFINE flat == RequestStart(r)
           len == r.length
<1>8. flat \in Nat /\ len \in Nat \ {0} /\ flat + len <= TotalLength
  BY <1>1, <1>3, <1>4, RequestWithin
<1>9. AskedFiles(r) # {} /\ Clip(flat, len, Min(AskedFiles(r)) - 1) = flat
  <2> HIDE DEF flat, len
  <2>1. AskedFiles(r) = Overlaps(flat, len)
    BY DEF AskedFiles, flat, len
  <2>2. Overlaps(flat, len) # {} /\ Overlaps(flat, len) \subseteq Files
    BY <1>3, <1>8, SomeFile DEF Overlaps
  <2> DEFINE m == Min(Overlaps(flat, len))
  <2>3. m \in Files /\ \A f \in Overlaps(flat, len) : m <= f
    BY <1>3, <2>2, FirstFile
  <2> HIDE DEF m
  <2>4. m - 1 \in 0 .. Len(lengths) /\ 0 \in 0 .. Len(lengths) /\ 0 <= m - 1 /\ m \in Int
    BY <1>3, <2>3, Layout
  <2>5. \A f \in Files : 0 < f /\ f <= m - 1 => f \notin Overlaps(flat, len)
    BY <1>3, <2>3, <2>4, Layout
  <2>6. Clip(flat, len, 0) = Clip(flat, len, m - 1)
    BY <1>3, <1>8, <2>4, <2>5, ClipSkips
  <2>7. Clip(flat, len, 0) = flat
    BY <1>3, <1>8, ClipEnds
  <2> QED BY <2>1, <2>2, <2>6, <2>7 DEF m
<1>10. Answering(c)'
  <2>1. Valid(request[c])'
    BY <1>1, <1>2, <1>7, RequestStays
  <2>2. Progress(c)'
    <3>1. AskedFiles(request[c])' = AskedFiles(r) /\ RequestStart(request[c])' = flat
      BY <1>2, <1>7, RequestStays DEF RequestStart, PieceStart
    <3>2. Clip(RequestStart(request[c]), request[c].length, Min(unread[c]) - 1)' = flat
      BY <1>2, <1>7, <1>9, <3>1, LayoutStays
    <3> HIDE DEF flat
    <3> QED BY <1>7, <1>8, <1>9, <3>1, <3>2 DEF Progress
  <2>3. RightSoFar(c)'
    BY <1>7 DEF RightSoFar
  <2>4. intact'[c] => Intact(c)'
    <3> SUFFICES ASSUME intact'[c], NEW f \in AskedFiles(request[c])'
                 PROVE  Stored(Asked(request[c], f))'
      BY DEF Intact
    <3> DEFINE p == Asked(r, f)
    <3>1. Asked(request[c], f)' = p
      BY <1>2, <1>7, RequestStays
    <3>2. Stored(p)
      BY <1>2, <1>7, RequestStays
    <3> HIDE DEF p
    <3> QED BY <1>2, <3>1, <3>2 DEF Stored, Readable, BytesOf
  <2> QED BY <2>1, <2>2, <2>3, <2>4 DEF Answering
<1>11. \A d \in Clients : d # c =>
         /\ conn'[d] = conn[d] /\ request'[d] = request[d] /\ unread'[d] = unread[d]
         /\ data'[d] = data[d] /\ intact'[d] = intact[d]
  BY <1>1, <1>2, <1>3 DEF ClientTypeOK
<1> QED BY <1>2, <1>6, <1>10, <1>11, OneClientInv

\* The bytes of the next part are in their place, and of a stored part they are right.
LEMMA NextBytes ==
    ASSUME StoreInv, NEW p \in FileParts, Readable(p)
    PROVE  /\ BytesOf(p) \in Seq(Int) /\ Len(BytesOf(p)) = p.len
           /\ \A k \in 1 .. p.len :
                 /\ BytesOf(p)[k] \in {p.from + k - 1, Wrong}
                 /\ Stored(p) => BytesOf(p)[k] = p.from + k - 1
<1> DEFINE s == files[p.file]
           m == p.pos
           n == p.len
<1>1. p.file \in Files /\ m \in Nat /\ n \in Nat /\ p.from = Offset(p.file) + m /\ s \in Seq(Int)
  BY DEF FileParts, StoreInv, StoreTypeOK
<1>2. Offset(p.file) \in Nat
  BY <1>1, Layout DEF StoreInv, StoreTypeOK
<1>3. m + n <= Len(s) /\ BytesOf(p) = SubSeq(s, m + 1, m + n)
  BY DEF Readable, BytesOf
<1>4. InPlace(p.file)
  BY <1>1 DEF StoreInv
<1>5. Stored(p) => \A k \in 1 .. n : s[m + k] = p.from + k - 1
  BY StoredBytes DEF StoreInv, StoreTypeOK
<1>6. ASSUME NEW k \in 1 .. n PROVE s[m + k] \in {p.from + k - 1, Wrong}
  <2> DEFINE j == m + k
  <2>1. j \in 1 .. Len(s) /\ Offset(p.file) + j - 1 = p.from + k - 1
    <3>1. j >= 1 /\ j <= m + n /\ j \in Int /\ Offset(p.file) + j - 1 = p.from + k - 1
      BY <1>1, <1>2
    <3>2. Len(s) \in Nat
      BY <1>1
    <3> HIDE DEF j, s
    <3> QED BY <1>1, <1>3, <3>1, <3>2
  <2> HIDE DEF j
  <2>2. s[j] \in {Wrong, Offset(p.file) + j - 1}
    BY <1>4, <2>1 DEF InPlace
  <2> QED BY <2>1, <2>2 DEF j
<1> DEFINE b == SubSeq(s, m + 1, m + n)
<1>7. b \in Seq(Int) /\ Len(b) = n /\ \A k \in 1 .. n : b[k] = s[m + k]
  <2> HIDE DEF s, m, n
  <2> QED BY <1>1, <1>3, Slice
<1> HIDE DEF b, s
<1> QED BY <1>3, <1>5, <1>6, <1>7 DEF b

\* A part is read: the data grows to where the next part begins, or to the end.
LEMMA ReadPartInv == ASSUME StoreInv, ClientInv, NEW c \in Clients, ReadPart(c) PROVE ClientInv'
<1> DEFINE r == request[c]
           u == unread[c]
           d == data[c]
           flat == RequestStart(r)
           len == r.length
           f == Min(u)
           p == NextPart(c)
           b == BytesOf(p)
<1>1. /\ conn[c] = "read" /\ u # {} /\ Readable(p)
      /\ data' = [data EXCEPT ![c] = @ \o b] /\ unread' = [unread EXCEPT ![c] = @ \ {f}]
      /\ conn' = [conn EXCEPT ![c] = IF unread'[c] = {} THEN "send" ELSE "read"]
      /\ UNCHANGED <<lengths, files, request, intact>>
  BY DEF ReadPart, storeVars
<1>2. ClientTypeOK /\ Answering(c) /\ StoreTypeOK /\ lengths \in Layouts
  BY <1>1 DEF ClientInv, StoreInv, StoreTypeOK
<1>3. /\ r \in [index : Nat, begin : Nat, length : Nat] /\ Valid(r)
      /\ u \subseteq AskedFiles(r) /\ d \in Seq(Int) /\ u \subseteq Files
  BY <1>2 DEF ClientTypeOK, Answering, Progress
<1>4. flat \in Nat /\ len \in Nat \ {0} /\ flat + len <= TotalLength
  BY <1>2, <1>3, RequestWithin
<1>5. f \in u /\ f \in Files /\ \A g \in u : f <= g
  BY <1>1, <1>2, <1>3, FirstFile
<1>6. f \in AskedFiles(r) /\ AskedFiles(r) = Overlaps(flat, len) /\ p = Part(flat, len, f)
      /\ p = Asked(r, f)
  BY <1>3, <1>5 DEF AskedFiles, Asked, NextPart
<1> HIDE DEF flat, len, f, p, b
<1>7. /\ p \in FileParts
      /\ p.from = Clip(flat, len, f - 1) /\ p.from + p.len = Clip(flat, len, f)
  <2>1. f \in Overlaps(flat, len)
    BY <1>6
  <2>2. /\ Part(flat, len, f) \in FileParts
        /\ Part(flat, len, f).from = Clip(flat, len, f - 1)
        /\ Part(flat, len, f).from + Part(flat, len, f).len = Clip(flat, len, f)
    BY <1>2, <1>4, <1>5, <2>1, ClipSteps
  <2> QED BY <1>6, <2>2
<1>8. p.from \in Nat /\ p.len \in Nat
  BY <1>7 DEF FileParts
<1>9. /\ b \in Seq(Int) /\ Len(b) = p.len
      /\ \A k \in 1 .. p.len : /\ b[k] \in {p.from + k - 1, Wrong}
                               /\ Stored(p) => b[k] = p.from + k - 1
  BY <1>1, <1>7, NextBytes DEF b
<1>10. flat + Len(d) = p.from
  BY <1>1, <1>2, <1>7 DEF Answering, Progress, flat, len, f
<1>11. /\ conn'[c] = (IF unread'[c] = {} THEN "send" ELSE "read") /\ request'[c] = r
       /\ unread'[c] = u \ {f} /\ data'[c] = d \o b /\ intact'[c] = intact[c]
       /\ \A e \in Clients : e # c =>
             /\ conn'[e] = conn[e] /\ request'[e] = request[e] /\ unread'[e] = unread[e]
             /\ data'[e] = data[e] /\ intact'[e] = intact[e]
  BY <1>1, <1>2 DEF ClientTypeOK
<1>12. d \o b \in Seq(Int) /\ Len(d) \in Nat /\ Len(d \o b) = Len(d) + p.len
  <2> HIDE DEF d
  <2>1. d \in Seq(Int) /\ b \in Seq(Int) /\ Len(b) = p.len
    BY <1>3, <1>9
  <2>2. d \o b \in Seq(Int)
    BY <2>1
  <2>3. Len(d) \in Nat /\ Len(d \o b) = Len(d) + Len(b)
    BY <2>1
  <2> QED BY <2>1, <2>2, <2>3
<1>13. ClientTypeOK'
  <2>1. data' \in [Clients -> Seq(Int)]
    BY <1>1, <1>2, <1>3, <1>12 DEF ClientTypeOK
  <2>2. unread' \in [Clients -> SUBSET Files]
    BY <1>1, <1>2 DEF ClientTypeOK
  <2>3. conn' \in [Clients -> States]
    BY <1>1, <1>2 DEF ClientTypeOK, States
  <2> QED BY <1>1, <1>2, <2>1, <2>2, <2>3, LayoutStays DEF ClientTypeOK, States
<1>14. \A g \in AskedFiles(r) \ u : \A h \in u : g < h
  BY <1>2 DEF Answering, Progress
<1>15. ASSUME NEW e \in f .. Len(lengths), \A h \in u \ {f} : e < h
       PROVE  Clip(flat, len, e) = p.from + p.len
  <2>1. f \in 0 .. Len(lengths) /\ e \in 0 .. Len(lengths) /\ f <= e
    BY <1>2, <1>5, Layout
  <2>2. ASSUME NEW g \in Files, f < g, g <= e PROVE g \notin Overlaps(flat, len)
    <3>1. g \in Int /\ e \in Int /\ f \in Int
      BY <1>2, <1>5, Layout
    <3>2. g \notin u
      BY <1>15, <2>2, <3>1
    <3>3. g \notin AskedFiles(r) \ u
      BY <1>5, <1>14, <2>2, <3>1
    <3> QED BY <1>6, <3>2, <3>3
  <2> QED BY <1>2, <1>4, <1>7, <2>1, <2>2, ClipSkips
<1>16. Progress(c)'
  <2>1. /\ AskedFiles(request[c])' = AskedFiles(r) /\ RequestStart(request[c])' = flat
        /\ (request[c].length)' = len
    BY <1>1, <1>11, RequestStays DEF RequestStart, PieceStart, flat, len
  <2>2. unread'[c] \subseteq AskedFiles(r)
    BY <1>3, <1>11
  <2>3. ASSUME NEW g \in AskedFiles(r) \ unread'[c], NEW h \in unread'[c] PROVE g < h
    <3>1. h \in u /\ h # f /\ f <= h /\ h \in Files /\ h \in Int /\ f \in Int
      BY <1>2, <1>3, <1>5, <1>11, Layout
    <3>2. CASE g = f
      BY <3>1, <3>2
    <3>3. CASE g # f
      BY <1>11, <1>14, <3>1, <3>3
    <3> QED BY <3>2, <3>3
  <2>4. conn'[c] = "send" <=> unread'[c] = {}
    BY <1>11
  <2>5. flat + Len(d \o b) = p.from + p.len
    BY <1>4, <1>8, <1>10, <1>12
  <2>6. CASE unread'[c] = {}
    <3>1. Len(lengths) \in f .. Len(lengths)
      BY <1>2, <1>5, Layout
    <3>2. Clip(flat, len, Len(lengths)) = p.from + p.len
      BY <1>11, <1>15, <2>6, <3>1
    <3>3. Clip(flat, len, Len(lengths)) = flat + len
      BY <1>2, <1>4, ClipEnds
    <3> QED BY <1>11, <2>1, <2>2, <2>3, <2>4, <2>5, <2>6, <3>2, <3>3 DEF Progress
  <2>7. CASE unread'[c] # {}
    <3> DEFINE g == Min(u \ {f})
    <3>1. g \in u \ {f} /\ g \in Files /\ \A h \in u \ {f} : g <= h
      BY <1>2, <1>3, <1>11, <2>7, FirstFile
    <3> HIDE DEF g
    <3>2. f <= g /\ g # f /\ f \in Int /\ g \in Int /\ g <= Len(lengths) /\ Len(lengths) \in Int
      BY <1>2, <1>5, <3>1, Layout
    <3>3. g - 1 \in f .. Len(lengths)
      BY <3>2
    <3>4. \A h \in u \ {f} : g - 1 < h
      <4> TAKE h \in u \ {f}
      <4>1. h \in Int /\ g <= h
        BY <1>2, <1>3, <3>1, Layout
      <4> QED BY <3>2, <4>1
    <3>5. Clip(flat, len, g - 1) = p.from + p.len
      BY <1>15, <3>3, <3>4
    <3>6. Clip(RequestStart(request[c]), request[c].length, Min(unread[c]) - 1)'
            = Clip(flat, len, g - 1)
      <4>1. Min(unread[c])' = g
        BY <1>11 DEF g
      <4> QED BY <1>1, <2>1, <4>1, LayoutStays
    <3> QED BY <1>11, <2>1, <2>2, <2>3, <2>4, <2>5, <2>7, <3>5, <3>6 DEF Progress
  <2> QED BY <2>6, <2>7
<1>17. RightSoFar(c)'
  <2> SUFFICES ASSUME NEW k \in 1 .. Len(d \o b)
               PROVE  /\ (d \o b)[k] \in {flat + k - 1, Wrong}
                      /\ intact[c] => (d \o b)[k] = flat + k - 1
    BY <1>11 DEF RightSoFar, RequestStart, PieceStart, flat
  <2>1. CASE k <= Len(d)
    <3>1. (d \o b)[k] = d[k] /\ k \in 1 .. Len(d)
      BY <1>3, <1>9, <1>12, <2>1
    <3>2. d[k] \in {flat + k - 1, Wrong} /\ (intact[c] => d[k] = flat + k - 1)
      BY <1>2, <3>1 DEF Answering, RightSoFar, flat
    <3> QED BY <3>1, <3>2
  <2>2. CASE k > Len(d)
    <3> DEFINE j == k - Len(d)
    <3>1. (d \o b)[k] = b[j] /\ j \in 1 .. p.len
      BY <1>3, <1>8, <1>9, <1>12, <2>2
    <3>2. p.from + j - 1 = flat + k - 1
      BY <1>4, <1>8, <1>10, <1>12
    <3>3. intact[c] => Stored(p)
      BY <1>2, <1>6 DEF Answering, Intact
    <3> HIDE DEF j
    <3>4. b[j] \in {p.from + j - 1, Wrong} /\ (Stored(p) => b[j] = p.from + j - 1)
      BY <1>9, <3>1
    <3> QED BY <3>1, <3>2, <3>3, <3>4
  <2> QED BY <1>12, <2>1, <2>2
<1>18. Answering(c)'
  <2>1. Valid(request[c])'
    BY <1>1, <1>3, <1>11, RequestStays
  <2>2. intact'[c] => Intact(c)'
    BY <1>1, <1>2, <1>11, RequestStays, FilesStay
       DEF Answering, Intact, Stored, Readable, BytesOf
  <2> QED BY <1>16, <1>17, <2>1, <2>2 DEF Answering
<1> QED BY <1>1, <1>2, <1>11, <1>13, <1>18, OneClientInv

\* Who is served after client c alone has moved.
LEMMA ServingMoves ==
    ASSUME ClientTypeOK, NEW c \in Clients, NEW s \in States, conn' = [conn EXCEPT ![c] = s]
    PROVE  Serving' = IF s \in {"handshake", "serve", "read", "send"}
                      THEN Serving \cup {c} ELSE Serving \ {c}
<1>1. conn'[c] = s /\ \A d \in Clients : d # c => conn'[d] = conn[d]
  BY DEF ClientTypeOK
<1> QED BY <1>1 DEF Serving

-----------------------------------------------------------------------------
(* The permits.                                                            *)

LEMMA PermitsStutter ==
    ASSUME PermitsInv, permits' = permits, Serving' = Serving,
           seeding' = seeding \/ seeding' \notin {"downloading", "over"} \/ seeding = "downloading"
    PROVE  PermitsInv'
BY DEF PermitsInv

\* One client more or less, for one permit less or more.
LEMMA PermitMoves ==
    ASSUME PermitsInv, NEW c,
           \/ /\ permits' = permits - 1 /\ c \notin Serving /\ Serving' = Serving \cup {c}
              /\ seeding' \notin {"downloading", "over"}
           \/ /\ permits' = permits + 1 /\ c \in Serving /\ Serving' = Serving \ {c}
              /\ seeding' = seeding
    PROVE  PermitsInv'
<1>1. permits \in Int /\ IsFiniteSet(Serving) /\ Cardinality(Serving) \in Nat
      /\ permits + Cardinality(Serving) = MaxPeers
  BY FS_CardinalityType DEF PermitsInv
<1>2. CASE /\ permits' = permits - 1 /\ c \notin Serving /\ Serving' = Serving \cup {c}
           /\ seeding' \notin {"downloading", "over"}
  <2>1. IsFiniteSet(Serving') /\ Cardinality(Serving') = Cardinality(Serving) + 1
    BY <1>1, <1>2, FS_AddElement
  <2> QED BY <1>1, <1>2, <2>1 DEF PermitsInv
<1>3. CASE /\ permits' = permits + 1 /\ c \in Serving /\ Serving' = Serving \ {c}
           /\ seeding' = seeding
  <2>1. IsFiniteSet(Serving') /\ Cardinality(Serving') = Cardinality(Serving) - 1
    BY <1>1, <1>3, FS_RemoveElement
  <2> QED BY <1>1, <1>3, <2>1 DEF PermitsInv
<1> QED BY <1>2, <1>3

-----------------------------------------------------------------------------
(* Every step keeps the invariant.                                         *)

LEMMA InitInv == Init => IInv
<1> SUFFICES ASSUME Init PROVE IInv
  OBVIOUS
<1>1. StoreInv
  BY StoreInitInv DEF Init
<1>2. ClientInv
  BY DEF Init, ClientInv, ClientTypeOK, NoRequest
<1>3. Serving = {} /\ permits = MaxPeers
  BY DEF Init, Serving
<1>4. PermitsInv
  BY <1>3, SeedConstants, FS_EmptySet DEF PermitsInv
<1> QED BY <1>1, <1>2, <1>4 DEF IInv

\* A task of a client returns.
LEMMA LeaveInv ==
    ASSUME IInv, NEW c \in Clients, conn[c] \in {"handshake", "serve", "read", "send"}, Leave(c)
    PROVE  IInv'
<1>1. ClientTypeOK /\ StoreTypeOK
  BY DEF IInv, ClientInv, StoreInv
<1>2. /\ conn' = [conn EXCEPT ![c] = "ended"] /\ Forget({c}) /\ permits' = permits + 1
      /\ UNCHANGED storeVars /\ UNCHANGED <<lengths, files>> /\ seeding' = seeding
  BY DEF Leave, storeVars, loopVars
<1>3. StoreInv'
  BY <1>2, StoreStutters DEF IInv
<1>4. /\ conn' \in [Clients -> States]
      /\ \A d \in Clients : IF d \in {c} THEN conn'[d] \notin {"read", "send"} ELSE conn'[d] = conn[d]
  BY <1>1, <1>2 DEF ClientTypeOK, States
<1>5. ClientInv'
  BY <1>1, <1>2, <1>4, ForgetInv DEF IInv
<1>6. Serving' = Serving \ {c} /\ c \in Serving
  <2>1. Serving' = Serving \ {c}
    BY <1>1, <1>2, ServingMoves DEF States
  <2> QED BY <2>1 DEF Serving
<1>7. PermitsInv'
  BY <1>2, <1>6, PermitMoves DEF IInv
<1> QED BY <1>3, <1>5, <1>7 DEF IInv

\* Nothing happens to the clients.
LEMMA QuietInv ==
    ASSUME IInv, UNCHANGED <<storeVars, permits, clientVars>>,
           seeding' = seeding \/ seeding' \notin {"downloading", "over"} \/ seeding = "downloading"
    PROVE  IInv'
<1>1. UNCHANGED <<lengths, files, conn>>
  BY DEF storeVars, clientVars
<1>2. StoreInv'
  BY StoreStutters DEF IInv
<1>3. ClientInv'
  BY <1>1, FilesStay, ClientsStutter DEF IInv, StoreInv
<1>4. PermitsInv'
  BY <1>1, PermitsStutter DEF IInv, Serving
<1> QED BY <1>2, <1>3, <1>4 DEF IInv

\* A client moves and neither takes nor gives a permit.
LEMMA ServedInv ==
    ASSUME IInv, UNCHANGED <<storeVars, permits, seeding>>, NEW c \in Clients, c \in Serving,
           conn'[c] \in {"serve", "read", "send"}, conn' = [conn EXCEPT ![c] = conn'[c]], ClientInv'
    PROVE  IInv'
<1>1. StoreInv'
  BY StoreStutters DEF IInv
<1>2. Serving' = Serving
  <2> DEFINE s == conn'[c]
  <2>1. s \in States /\ s \in {"handshake", "serve", "read", "send"} /\ conn' = [conn EXCEPT ![c] = s]
    BY DEF States
  <2> HIDE DEF s
  <2>2. Serving' = Serving \cup {c}
    BY <2>1, ServingMoves DEF IInv, ClientInv
  <2> QED BY <2>2
<1>3. PermitsInv'
  BY <1>2, PermitsStutter DEF IInv
<1> QED BY <1>1, <1>3 DEF IInv

LEMMA ClientStepInv == ASSUME IInv, NEW c \in Clients, ClientStep(c) PROVE IInv'
<1>1. ClientTypeOK /\ StoreTypeOK /\ StoreInv /\ ClientInv /\ conn \in [Clients -> States]
  BY DEF IInv, ClientInv, StoreInv, ClientTypeOK, States
<1>2. CASE Handshaken(c)
  <2>1. /\ conn[c] = "handshake" /\ conn' = [conn EXCEPT ![c] = "serve"]
        /\ UNCHANGED <<storeVars, seeding, permits, request, unread, data, intact>>
        /\ UNCHANGED <<lengths, files>>
    BY <1>2 DEF Handshaken, Step, loopVars, storeVars
  <2>2. conn'[c] = "serve" /\ \A d \in Clients : d # c => conn'[d] = conn[d]
    BY <1>1, <2>1
  <2>3. ClientTypeOK'
    BY <1>1, <2>1, LayoutStays DEF ClientTypeOK
  <2>4. ClientInv'
    BY <1>1, <2>1, <2>2, <2>3, OneClientInv
  <2> QED BY <2>1, <2>2, <2>4, ServedInv DEF Serving
<1>3. CASE Request(c)
  <2>1. /\ conn[c] = "serve" /\ conn' = [conn EXCEPT ![c] = "read"]
        /\ UNCHANGED <<storeVars, seeding, permits>>
    BY <1>3 DEF Request, Step, loopVars
  <2>2. conn'[c] = "read"
    BY <1>1, <2>1
  <2>3. ClientInv'
    BY <1>1, <1>3, RequestInv
  <2> QED BY <2>1, <2>2, <2>3, ServedInv DEF Serving
<1>4. CASE ReadPart(c)
  <2>1. /\ conn[c] = "read"
        /\ conn' = [conn EXCEPT ![c] = IF unread'[c] = {} THEN "send" ELSE "read"]
        /\ UNCHANGED <<storeVars, seeding, permits>>
    BY <1>4 DEF ReadPart, loopVars
  <2>2. conn'[c] = IF unread'[c] = {} THEN "send" ELSE "read"
    BY <1>1, <2>1
  <2>3. ClientInv'
    BY <1>1, <1>4, ReadPartInv
  <2> QED BY <2>1, <2>2, <2>3, ServedInv DEF Serving
<1>5. CASE Sent(c)
  <2>1. /\ conn[c] = "send" /\ conn' = [conn EXCEPT ![c] = "serve"] /\ Forget({c})
        /\ UNCHANGED <<storeVars, seeding, permits>> /\ UNCHANGED <<lengths, files>>
    BY <1>5 DEF Sent, Step, loopVars, storeVars
  <2>2. /\ conn'[c] = "serve" /\ conn' \in [Clients -> States]
        /\ \A d \in Clients : IF d \in {c} THEN conn'[d] \notin {"read", "send"}
                              ELSE conn'[d] = conn[d]
    BY <1>1, <2>1 DEF States
  <2>3. ClientInv'
    BY <1>1, <2>1, <2>2, ForgetInv
  <2> QED BY <2>1, <2>2, <2>3, ServedInv DEF Serving
<1>6. CASE Hangup(c)
  BY <1>6, LeaveInv DEF Hangup
<1>7. CASE ReadFailed(c)
  BY <1>7, LeaveInv DEF ReadFailed
<1> QED BY <1>2, <1>3, <1>4, <1>5, <1>6, <1>7 DEF ClientStep

\* A limit ends the loop and every task with it.
LEMMA StopInv == ASSUME IInv, Stop PROVE IInv'
<1>1. /\ conn' = [c \in Clients |-> IF c \in Serving THEN "ended" ELSE conn[c]]
      /\ permits' = permits + Cardinality(Serving) /\ Forget(Serving)
      /\ UNCHANGED storeVars /\ UNCHANGED <<lengths, files>>
  BY DEF Stop, storeVars
<1>2. ClientTypeOK /\ StoreTypeOK /\ Serving \in SUBSET Clients
  BY DEF IInv, ClientInv, StoreInv, Serving
<1>3. StoreInv'
  BY <1>1, StoreStutters DEF IInv
<1>4. /\ conn' \in [Clients -> States]
      /\ \A c \in Clients : IF c \in Serving THEN conn'[c] \notin {"read", "send"}
                            ELSE conn'[c] = conn[c]
  BY <1>1, <1>2 DEF ClientTypeOK, States
<1>5. ClientInv'
  BY <1>1, <1>2, <1>4, ForgetInv DEF IInv
<1>6. Serving' = {}
  BY <1>1 DEF Serving
<1>7. permits \in Int /\ Cardinality(Serving) \in Nat /\ permits + Cardinality(Serving) = MaxPeers
  BY FS_CardinalityType DEF IInv, PermitsInv
<1>8. PermitsInv'
  BY <1>1, <1>6, <1>7, FS_EmptySet DEF PermitsInv
<1> QED BY <1>3, <1>5, <1>8 DEF IInv

\* A connection takes a permit, or is dropped.
LEMMA AcceptInv == ASSUME IInv, NEW c \in Clients, Accept(c) PROVE IInv'
<1>1. /\ seeding' = "check" /\ conn[c] = "outside" /\ UNCHANGED storeVars
      /\ UNCHANGED <<lengths, files, request, unread, data, intact>>
      /\ IF permits > 0
         THEN permits' = permits - 1 /\ conn' = [conn EXCEPT ![c] = "handshake"]
         ELSE permits' = permits /\ conn' = [conn EXCEPT ![c] = "ended"]
  BY DEF Accept, Goto, storeVars
<1>2. ClientTypeOK /\ StoreTypeOK
  BY DEF IInv, ClientInv, StoreInv
<1>3. StoreInv'
  BY <1>1, StoreStutters DEF IInv
<1>4. /\ conn'[c] \in {"handshake", "ended"} /\ conn' \in [Clients -> States]
      /\ \A d \in Clients : d # c => conn'[d] = conn[d]
  BY <1>1, <1>2 DEF ClientTypeOK, States
<1>5. ClientTypeOK'
  BY <1>1, <1>2, <1>4, LayoutStays DEF ClientTypeOK, States
<1>6. ClientInv'
  BY <1>1, <1>2, <1>4, <1>5, OneClientInv DEF IInv
<1>7. c \notin Serving
  BY <1>1 DEF Serving
<1>8. CASE permits > 0
  <2>1. Serving' = Serving \cup {c}
    BY <1>1, <1>2, <1>8, ServingMoves DEF States
  <2>2. PermitsInv'
    BY <1>1, <1>7, <1>8, <2>1, PermitMoves DEF IInv
  <2> QED BY <1>3, <1>6, <2>2 DEF IInv
<1>9. CASE ~ (permits > 0)
  <2>1. Serving' = Serving
    BY <1>1, <1>2, <1>7, <1>9, ServingMoves DEF States
  <2>2. PermitsInv'
    BY <1>1, <1>9, <2>1, PermitsStutter DEF IInv
  <2> QED BY <1>3, <1>6, <2>2 DEF IInv
<1> QED BY <1>8, <1>9

LEMMA NextKeepsInv == IInv /\ [Next]_vars => IInv'
<1> SUFFICES ASSUME IInv, [Next]_vars PROVE IInv'
  OBVIOUS
<1>1. CASE StoreStep /\ StoreStutter
  <2>1. UNCHANGED <<permits, seeding, clientVars>> /\ Serving' = Serving
    BY <1>1 DEF StoreStutter, loopVars, clientVars, Serving
  <2>2. StoreInv'
    BY <1>1, StoreStepInv DEF IInv
  <2>3. ClientInv'
    BY <1>1, <2>1, StoredKept, ClientsStutter DEF IInv, StoreInv
  <2>4. PermitsInv'
    BY <2>1, PermitsStutter DEF IInv
  <2> QED BY <2>2, <2>3, <2>4 DEF IInv
<1>2. CASE StartSeeding \/ Listen \/ NoConnection \/ SeedTimePasses
  <2>1. /\ UNCHANGED <<storeVars, permits, clientVars>>
        /\ seeding' = seeding \/ seeding' \notin {"downloading", "over"} \/ seeding = "downloading"
    BY <1>2 DEF StartSeeding, Listen, NoConnection, SeedTimePasses, Goto
  <2> QED BY <2>1, QuietInv
<1>3. CASE UNCHANGED vars
  BY <1>3, QuietInv DEF vars, loopVars
<1>4. CASE Stop
  BY <1>4, StopInv
<1>5. CASE \E c \in Clients : Accept(c)
  BY <1>5, AcceptInv
<1>6. CASE \E c \in Clients : ClientStep(c)
  BY <1>6, ClientStepInv
<1> QED BY <1>1, <1>2, <1>3, <1>4, <1>5, <1>6 DEF Next, LoopStep, Over

LEMMA InvHolds == Spec => []IInv
BY InitInv, NextKeepsInv, PTL DEF Spec

-----------------------------------------------------------------------------

\* Once write_piece has returned and the blocking pool is done with a piece, the resume
\* code reads it back whole and right, for every list of file lengths, every piece
\* length, and whatever else is written, late, twice or not at all.
THEOREM LandedIsReadBack == Spec => []LandedIsResumable
<1>1. IInv => LandedIsResumable
  BY LandedStored DEF IInv
<1> QED BY <1>1, InvHolds, PTL

\* What serve_peer sends has the length asked for and only right or unwritten bytes, and
\* is right as a whole if it was in the files when it was asked for.
THEOREM ServedIsRight == Spec => []ServedRight
<1>1. IInv => ServedRight
  <2> SUFFICES ASSUME IInv, NEW c \in Clients, conn[c] = "send"
               PROVE  LET right == Stream(RequestStart(request[c]), request[c].length)
                      IN  /\ Len(data[c]) = request[c].length
                          /\ intact[c] => data[c] = right
                          /\ \A k \in DOMAIN data[c] : data[c][k] \in {right[k], Wrong}
    BY DEF ServedRight
  <2> DEFINE flat == RequestStart(request[c])
             len == request[c].length
             d == data[c]
             right == Stream(flat, len)
  <2>1. /\ Answering(c) /\ d \in Seq(Int) /\ lengths \in Layouts
        /\ request[c] \in [index : Nat, begin : Nat, length : Nat]
    BY DEF IInv, ClientInv, ClientTypeOK, StoreInv, StoreTypeOK
  <2>2. flat \in Nat /\ len \in Nat
    BY <2>1, RequestWithin DEF Answering
  <2>3. flat + Len(d) = flat + len
    BY <2>1 DEF Answering, Progress
  <2>4. \A k \in 1 .. Len(d) : d[k] \in {flat + k - 1, Wrong} /\ (intact[c] => d[k] = flat + k - 1)
    BY <2>1 DEF Answering, RightSoFar
  <2>5. right = [k \in 1 .. len |-> flat + k - 1]
    BY DEF Stream
  <2> HIDE DEF flat, len, d, right
  <2>6. Len(d) = len /\ d = [k \in 1 .. len |-> d[k]] /\ DOMAIN d = 1 .. len
    BY <2>1, <2>2, <2>3
  <2>7. intact[c] => d = right
    BY <2>4, <2>5, <2>6
  <2>8. \A k \in 1 .. len : d[k] \in {right[k], Wrong}
    BY <2>4, <2>5, <2>6
  <2> QED BY <2>6, <2>7, <2>8 DEF flat, len, d, right
<1> QED BY <1>1, InvHolds, PTL

\* The permits of seed_sem are free or with the clients being served, whatever those do;
\* when seed_loop returns nobody is served any more and none is missing.
THEOREM SeedPermitsKept == Spec => []SeedPermits
<1>1. IInv => SeedPermits
  BY DEF IInv, PermitsInv, SeedPermits
<1> QED BY <1>1, InvHolds, PTL
=============================================================================
