------------------------------ MODULE FileStore ------------------------------
(***************************************************************************)
(* The files of a download, and the calls of write_piece that fill them    *)
(* (src/src/file_writer.rs).  write_at opens a file of its own for every   *)
(* part and returns once the bytes are with the blocking pool of tokio,    *)
(* which puts them into the file later and in any order.                   *)
(*                                                                         *)
(* The right byte at offset o of the stream is o itself, so a byte in a    *)
(* wrong place is a wrong byte; Wrong stands for what a hole or an older   *)
(* file holds.                                                             *)
(***************************************************************************)
EXTENDS FileLayout

CONSTANTS
    MaxWriteErrors  \* bound: write_at calls that fail

Wrong == -1

VARIABLES
    files,          \* per file: its bytes; <<>> also if it does not exist
    write,          \* per piece: whether write_piece is called: "none", "busy", "done"
    todo,           \* per piece: the files write_piece has still to write to
    pending,        \* parts with the blocking pool
    errors

storeVars == <<lengths, files, write, todo, pending, errors>>

StoreInit ==
    /\ lengths \in Layouts
    \* new files, or files an earlier program left
    /\ \/ files = [f \in Files |-> <<>>]
       \/ files = [f \in Files |-> [k \in 1 .. lengths[f] |-> Wrong]]
    /\ write = [i \in Pieces |-> "none"]
    /\ todo = [i \in Pieces |-> {}]
    /\ pending = {} /\ errors = 0

\* The bytes of piece i that are in file f.
PiecePart(i, f) == Part(PieceStart(i), PieceLen(i), f)

\* A verified piece is handed to write_piece.
BeginWrite(i) ==
    /\ write[i] = "none"
    /\ write' = [write EXCEPT ![i] = "busy"]
    /\ todo' = [todo EXCEPT ![i] = Overlaps(PieceStart(i), PieceLen(i))]
    /\ UNCHANGED <<lengths, files, pending, errors>>

\* One write_at, file by file; write_piece returns after the last.
WritePart(i) ==
    /\ todo[i] # {}
    /\ LET f == Min(todo[i])
       IN  /\ pending' = pending \cup {PiecePart(i, f)}
           /\ todo' = [todo EXCEPT ![i] = @ \ {f}]
           /\ write' = [write EXCEPT ![i] = IF todo[i] = {f} THEN "done" ELSE "busy"]
    /\ UNCHANGED <<lengths, files, errors>>

\* open, seek or write fails: the rest of the piece is not written.  The piece is
\* downloaded again, by the next run.
WriteError(i) ==
    /\ todo[i] # {} /\ errors < MaxWriteErrors
    /\ errors' = errors + 1
    /\ write' = [write EXCEPT ![i] = "none"]
    /\ todo' = [todo EXCEPT ![i] = {}]
    /\ UNCHANGED <<lengths, files, pending>>

\* Mutant of Put: the file is opened with truncate(true).
PutTruncating(bytes, part) ==
    [k \in 1 .. part.pos + part.len |->
        IF k > part.pos THEN part.from + k - part.pos - 1 ELSE Wrong]

\* What a file holds once the bytes of `part` are in it: writing past the end
\* leaves a hole, and bytes behind the part stay.
Put(bytes, part) ==
    [k \in 1 .. Max({Len(bytes), part.pos + part.len}) |->
        IF k > part.pos /\ k <= part.pos + part.len THEN part.from + k - part.pos - 1
        ELSE IF k <= Len(bytes) THEN bytes[k] ELSE Wrong]

Land ==
    \E part \in pending :
        /\ files' = [files EXCEPT ![part.file] = Put(@, part)]
        /\ pending' = pending \ {part}
        /\ UNCHANGED <<lengths, write, todo, errors>>

StoreStep ==
    \/ \E i \in Pieces : BeginWrite(i) \/ WritePart(i) \/ WriteError(i)
    \/ Land

-----------------------------------------------------------------------------
(* Reading                                                                 *)

\* open, seek and read_exact find the part in the file.
Readable(part) == part.pos + part.len <= Len(files[part.file])

BytesOf(part) == SubSeq(files[part.file], part.pos + 1, part.pos + part.len)

\* The range of the stream, as it should be.
Stream(flat, len) == [k \in 1 .. len |-> flat + k - 1]

\* Read now, the part comes back as it should be.
Stored(part) == Readable(part) /\ BytesOf(part) = Stream(part.from, part.len)

\* write_piece of the piece returned Ok and the blocking pool is done with it.
Landed(i) ==
    /\ write[i] = "done"
    /\ \A part \in pending :
          part.from + part.len <= PieceStart(i) \/ part.from >= PieceStart(i) + PieceLen(i)

\* verify_and_resume would read the piece back, whole and with the right hash.
Resumable(i) ==
    LET end == PieceStart(i) + PieceLen(i)
        at  == ResumeOffsets(PieceStart(i), PieceLen(i))
    IN  /\ \A f \in Files :
              ~ResumeSkips(at[f - 1], end, f) => Stored(ResumePart(at[f - 1], end, f))
        /\ at[Len(lengths)] = end

\* Once a piece has landed it can be read back by the other reader, the resume code,
\* and stays so: no later or slower write of a neighbour in the same file, no earlier
\* failed attempt and no hole hurts it, whatever the sizes of the files.
LandedIsResumable == \A i \in Pieces : Landed(i) => Resumable(i)
=============================================================================
