----------------------------- MODULE ResumeStore -----------------------------
(***************************************************************************)
(* The checkpoint files of the downloads that share one download_dir       *)
(* (src/src/resume.rs).  Each download saves a checkpoint every now and    *)
(* then (directory, temporary file, rename) and removes it when it is      *)
(* complete, and the directory with it if that is empty then.  An action   *)
(* is one file-system call; downloads interleave between the calls of a    *)
(* save or a removal, and a process may be killed there.                   *)
(*                                                                         *)
(* Downloads have different info hashes, so different file names.          *)
(***************************************************************************)
EXTENDS Integers, FiniteSets

CONSTANTS
    Downloads,
    MaxWriteAttempts,   \* MAX_WRITE_ATTEMPTS
    MaxSaves,           \* bound: checkpoints a download saves
    MaxKills            \* bound: processes killed or run again

ASSUME StoreConstants ==
    /\ IsFiniteSet(Downloads)
    /\ MaxWriteAttempts \in Nat \ {0}
    /\ MaxSaves \in Nat /\ MaxKills \in Nat

\* What a file holds: nothing (there is none), part of a checkpoint, or the n-th.
NoFile == 0
Torn == -1
Versions == 1 .. MaxSaves

VARIABLES
    dir,        \* whether .stormdrain exists
    tmp, json,  \* per download: its temporary file and its checkpoint file
    at,         \* per download: the next call it makes
    version,    \* per download: the checkpoint it saves or saved last
    attempts,   \* per download: writes of the temporary file tried in this save
    acked,      \* per download: the last checkpoint whose save returned Ok; 0 once removed
    rmdirs,     \* how often the directory was removed (a history variable)
    kills

vars == <<dir, tmp, json, at, version, attempts, acked, rmdirs, kills>>

Files(d) == {f \in {tmp[d], json[d]} : f # NoFile}

Init ==
    /\ dir = FALSE
    /\ tmp = [d \in Downloads |-> NoFile]
    /\ json = [d \in Downloads |-> NoFile]
    /\ at = [d \in Downloads |-> "idle"]
    /\ version = [d \in Downloads |-> 0]
    /\ attempts = [d \in Downloads |-> 0]
    /\ acked = [d \in Downloads |-> 0]
    /\ rmdirs = 0 /\ kills = 0

Goto(d, from, to) == at[d] = from /\ at' = [at EXCEPT ![d] = to]

-----------------------------------------------------------------------------
(* save()                                                                  *)

\* create_dir_all: succeeds whether or not the directory exists.
BeginSave(d) ==
    /\ Goto(d, "idle", "write")
    /\ version[d] < MaxSaves
    /\ version' = [version EXCEPT ![d] = @ + 1]
    /\ attempts' = [attempts EXCEPT ![d] = 0]
    /\ dir' = TRUE
    /\ UNCHANGED <<tmp, json, acked, rmdirs, kills>>

\* write_temp_file: fs::write creates or truncates the file, then fills it.
OpenTmp(d) ==
    /\ Goto(d, "write", "fill")
    /\ dir
    /\ attempts' = [attempts EXCEPT ![d] = @ + 1]
    /\ tmp' = [tmp EXCEPT ![d] = Torn]
    /\ UNCHANGED <<dir, json, version, acked, rmdirs, kills>>

\* Mutant of RetryTmp: one attempt too few.
RetryTmpTooFew(d) ==
    /\ at[d] = "write" /\ ~dir
    /\ attempts' = [attempts EXCEPT ![d] = @ + 1]
    /\ IF attempts[d] + 2 < MaxWriteAttempts
       THEN at' = [at EXCEPT ![d] = "mkdir"]
       ELSE at' = [at EXCEPT ![d] = "not_found"]
    /\ UNCHANGED <<dir, tmp, json, version, acked, rmdirs, kills>>

\* Mutant of RetryTmp: it tries again as it did before, uncounted, in no directory.
RetryTmpInVain(d) == at[d] = "write" /\ ~dir /\ UNCHANGED vars

\* NotFound: the directory is gone.  Create it and try again, or give up.
RetryTmp(d) ==
    /\ at[d] = "write" /\ ~dir
    /\ attempts' = [attempts EXCEPT ![d] = @ + 1]
    /\ IF attempts[d] + 1 < MaxWriteAttempts
       THEN at' = [at EXCEPT ![d] = "mkdir"]
       ELSE at' = [at EXCEPT ![d] = "not_found"]
    /\ UNCHANGED <<dir, tmp, json, version, acked, rmdirs, kills>>

RecreateDir(d) ==
    /\ Goto(d, "mkdir", "write")
    /\ dir' = TRUE
    /\ UNCHANGED <<tmp, json, version, attempts, acked, rmdirs, kills>>

\* Mutant of FillTmp: the write is believed to be complete before it is.
FillTmpEarly(d) ==
    /\ Goto(d, "fill", "rename")
    /\ UNCHANGED <<dir, tmp, json, version, attempts, acked, rmdirs, kills>>

FillTmp(d) ==
    /\ Goto(d, "fill", "rename")
    /\ tmp' = [tmp EXCEPT ![d] = version[d]]
    /\ UNCHANGED <<dir, json, version, attempts, acked, rmdirs, kills>>

\* rename replaces the checkpoint in one step, and the save returns Ok.
Rename(d) ==
    /\ Goto(d, "rename", "idle")
    /\ json' = [json EXCEPT ![d] = tmp[d]]
    /\ tmp' = [tmp EXCEPT ![d] = NoFile]
    /\ acked' = [acked EXCEPT ![d] = version[d]]
    /\ UNCHANGED <<dir, version, attempts, rmdirs, kills>>

\* The error goes to the log, and the download goes on.
SaveFailed(d) ==
    /\ Goto(d, "not_found", "idle")
    /\ UNCHANGED <<dir, tmp, json, version, attempts, acked, rmdirs, kills>>

-----------------------------------------------------------------------------
(* remove()                                                                *)

\* remove_file of the checkpoint; that there is none is no error.
RemoveFile(d) ==
    /\ Goto(d, "idle", "rmdir")
    /\ json' = [json EXCEPT ![d] = NoFile]
    /\ acked' = [acked EXCEPT ![d] = 0]
    /\ UNCHANGED <<dir, tmp, version, attempts, rmdirs, kills>>

\* Mutant of RemoveDir: the directory is left to whoever creates it.
RemoveDirNever(d) ==
    /\ Goto(d, "rmdir", "removed")
    /\ UNCHANGED <<dir, tmp, json, version, attempts, acked, rmdirs, kills>>

\* Mutant of RemoveDir: only the checkpoints of the others keep the directory.
RemoveDirUnderSave(d) ==
    /\ Goto(d, "rmdir", "removed")
    /\ IF dir /\ \A e \in Downloads : json[e] = NoFile
       THEN dir' = FALSE /\ rmdirs' = rmdirs + 1
       ELSE UNCHANGED <<dir, rmdirs>>
    /\ UNCHANGED <<tmp, json, version, attempts, acked, kills>>

\* remove_dir of an empty directory; a missing or non-empty one is no error.
RemoveDir(d) ==
    /\ Goto(d, "rmdir", "removed")
    /\ IF dir /\ \A e \in Downloads : Files(e) = {}
       THEN dir' = FALSE /\ rmdirs' = rmdirs + 1
       ELSE UNCHANGED <<dir, rmdirs>>
    /\ UNCHANGED <<tmp, json, version, attempts, acked, kills>>

-----------------------------------------------------------------------------
\* The process is killed between two calls, or has ended, and is run again: the files
\* stay.
Kill(d) ==
    /\ kills < MaxKills
    /\ kills' = kills + 1
    /\ at' = [at EXCEPT ![d] = "idle"]
    /\ UNCHANGED <<dir, tmp, json, version, attempts, acked, rmdirs>>

Call(d) ==
    \/ OpenTmp(d) \/ RetryTmp(d) \/ RecreateDir(d) \/ FillTmp(d) \/ Rename(d)
    \/ SaveFailed(d) \/ RemoveDir(d)

AllRemoved == (\A d \in Downloads : at[d] = "removed") /\ UNCHANGED vars

Next ==
    \/ \E d \in Downloads : Call(d) \/ BeginSave(d) \/ RemoveFile(d) \/ Kill(d)
    \/ AllRemoved

Spec == Init /\ [][Next]_vars

\* A save or a removal that has begun goes on to its next call.
FairSpec == Spec /\ \A d \in Downloads : WF_vars(Call(d))

-----------------------------------------------------------------------------
\* Every variable has its shape; files exist only in an existing directory.
TypeOK ==
    /\ dir \in BOOLEAN
    /\ tmp \in [Downloads -> {NoFile, Torn} \cup Versions]
    /\ json \in [Downloads -> {NoFile, Torn} \cup Versions]
    /\ at \in [Downloads -> {"idle", "write", "fill", "mkdir", "not_found", "rename",
                             "rmdir", "removed"}]
    /\ version \in [Downloads -> 0 .. MaxSaves]
    /\ attempts \in [Downloads -> 0 .. MaxWriteAttempts]
    /\ acked \in [Downloads -> 0 .. MaxSaves]
    /\ rmdirs \in Nat /\ kills \in 0 .. MaxKills
    /\ (\E d \in Downloads : Files(d) # {}) => dir

\* "Write to a temp file then rename for atomicity" (resume.rs:84): whenever a process
\* is killed, and whatever the other downloads remove, the checkpoint file holds the
\* last checkpoint whose save returned Ok, whole, and none after its removal.
CheckpointSurvives == \A d \in Downloads : json[d] = acked[d]

\* A save fails for want of the directory only after the directory was removed at least
\* as often as the save made attempts.
RetriesSuffice ==
    (\E d \in Downloads : at[d] = "not_found") => rmdirs >= MaxWriteAttempts

\* "Remove the resume file and its directory if empty (called when download
\* completes)" (resume.rs:90): when every download has removed its file and no killed
\* one left a temporary file, the directory is gone.
DirectoryCleaned ==
    (\A d \in Downloads : at[d] = "removed" /\ tmp[d] = NoFile) => ~dir

\* A save returns, whatever the other downloads remove in the meantime.
SaveReturns == \A d \in Downloads : at[d] = "write" ~> at[d] = "idle"
=============================================================================
