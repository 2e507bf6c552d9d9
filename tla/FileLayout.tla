----------------------------- MODULE FileLayout -----------------------------
(***************************************************************************)
(* How a torrent's byte stream is laid out over its files: the offsets     *)
(* Metainfo::from_bytes computes, the pieces, and the parts of files that  *)
(* a range of the stream overlaps, as FileWriter and as the resume code    *)
(* compute them.  A part is the `len` bytes of file `file` at position     *)
(* `pos`; they are the bytes of the stream from offset `from` on.          *)
(***************************************************************************)
EXTENDS Integers, Sequences, FiniteSetsExt

CONSTANTS
    Layouts,        \* the sequences of file lengths considered
    PieceLength     \* piece_length

ASSUME LayoutConstants ==
    /\ Layouts \subseteq Seq(Nat)
    /\ PieceLength \in Nat \ {0}

VARIABLE lengths    \* the file lengths of this torrent; never changes

Files == 1 .. Len(lengths)

\* from_bytes: the offset that follows the first n files, for files of lengths `ls`.
Offsets(ls) ==
    LET after[n \in 0 .. Len(ls)] == IF n = 0 THEN 0 ELSE after[n - 1] + ls[n]
    IN  after

Offset(f) == Offsets(lengths)[f - 1]

FileEnd(f) == Offset(f) + lengths[f]

TotalLength == Offsets(lengths)[Len(lengths)]

\* piece_hashes.len() of a well-formed torrent.
PieceCount == (TotalLength + PieceLength - 1) \div PieceLength

Pieces == 0 .. PieceCount - 1

PieceStart(i) == i * PieceLength

\* Metainfo::piece_len: the last piece carries the remainder, 0 is a full piece.
PieceLen(i) ==
    LET rem == TotalLength % PieceLength
    IN  IF i = Max({PieceCount - 1, 0}) /\ rem # 0 THEN rem ELSE PieceLength

\* write_piece and read_data: what the range has in common with file f.
Part(flat, len, f) ==
    LET from == Max({flat, Offset(f)})
    IN  [file |-> f, pos |-> from - Offset(f), from |-> from,
         len |-> Min({flat + len, FileEnd(f)}) - from]

\* The files that write_piece and read_data do not pass over.
Overlaps(flat, len) == {f \in Files : Part(flat, len, f).len > 0}

\* read_piece_from_disk, at offset `at` of a range that ends at `end`: it goes on to
\* the next file, or is through with the range.
ResumeSkips(at, end, f) == at >= end \/ at >= FileEnd(f) \/ Offset(f) >= end

\* What it reads of file f otherwise.
ResumePart(at, end, f) ==
    LET pos == Max({at - Offset(f), 0})
    IN  [file |-> f, pos |-> pos, from |-> at,
         len |-> Min({end - Offset(f), lengths[f]}) - pos]

\* How far it has come after the first n files.
ResumeOffsets(flat, len) ==
    LET at[n \in 0 .. Len(lengths)] ==
            IF n = 0 THEN flat
            ELSE IF ResumeSkips(at[n - 1], flat + len, n) THEN at[n - 1]
            ELSE at[n - 1] + ResumePart(at[n - 1], flat + len, n).len
    IN  at
=============================================================================
