-------------------------- MODULE ResumeStoreProofs --------------------------
(***************************************************************************)
(* The checkpoint files are right for any number of downloads that share a *)
(* directory, any number of saves, attempts and kills, and any             *)
(* interleaving of their file-system calls.                                *)
(***************************************************************************)
EXTENDS ResumeStore, TLAPS

Positions ==
    {"idle", "write", "fill", "mkdir", "not_found", "rename", "rmdir", "removed"}

-----------------------------------------------------------------------------
(* The inductive invariant.                                                *)

\* What the position of a download says about its own files.
FilesFollow ==
    \A d \in Downloads :
        /\ at[d] = "fill" => tmp[d] = Torn
        /\ at[d] = "rename" => tmp[d] = version[d]
        /\ at[d] \in {"rmdir", "removed"} => json[d] = NoFile

\* Every attempt a save has used up was paid for by a removal of the directory; when
\* the directory is missing right now, one more was.
RetriesPaid ==
    \A d \in Downloads :
        /\ at[d] \in {"write", "mkdir"} => attempts[d] < MaxWriteAttempts /\ attempts[d] <= rmdirs
        /\ at[d] = "write" /\ ~dir => attempts[d] < rmdirs
        /\ at[d] = "not_found" => MaxWriteAttempts <= rmdirs

IInv == TypeOK /\ FilesFollow /\ RetriesPaid /\ CheckpointSurvives /\ DirectoryCleaned


LEMMA NoFiles == \A d : Files(d) = {} <=> tmp[d] = NoFile /\ json[d] = NoFile
BY DEF Files

LEMMA InitInv == Init => IInv
<1> SUFFICES ASSUME Init PROVE IInv
  OBVIOUS
<1>1. \A d \in Downloads : Files(d) = {}
  BY NoFiles DEF Init
<1>2. TypeOK
  <2>1. ~(\E d \in Downloads : Files(d) # {})
    BY <1>1
  <2>2. 0 \in 0 .. MaxSaves /\ 0 \in 0 .. MaxWriteAttempts /\ 0 \in 0 .. MaxKills /\ 0 \in Nat
    BY StoreConstants
  <2> QED BY <2>1, <2>2 DEF Init, TypeOK
<1>3. FilesFollow /\ RetriesPaid /\ CheckpointSurvives /\ DirectoryCleaned
  BY DEF Init, FilesFollow, RetriesPaid, CheckpointSurvives, DirectoryCleaned, NoFile
<1> QED BY <1>2, <1>3 DEF IInv

LEMMA BeginSaveKeepsInv ==
    ASSUME IInv, NEW d \in Downloads, BeginSave(d)
    PROVE  IInv'
<1> USE StoreConstants DEF IInv, TypeOK, BeginSave, Goto, NoFile, Torn
<1>1. TypeOK'
  OBVIOUS
<1>2. FilesFollow' /\ RetriesPaid'
  BY DEF FilesFollow, RetriesPaid
<1>3. CheckpointSurvives' /\ DirectoryCleaned'
  BY DEF CheckpointSurvives, DirectoryCleaned
<1> QED BY <1>1, <1>2, <1>3

LEMMA OpenTmpKeepsInv ==
    ASSUME IInv, NEW d \in Downloads, OpenTmp(d)
    PROVE  IInv'
<1> USE StoreConstants DEF IInv, TypeOK, OpenTmp, Goto, NoFile, Torn
<1>1. TypeOK'
  BY DEF RetriesPaid
<1>2. FilesFollow' /\ RetriesPaid'
  BY DEF FilesFollow, RetriesPaid
<1>3. CheckpointSurvives' /\ DirectoryCleaned'
  BY DEF CheckpointSurvives, DirectoryCleaned
<1> QED BY <1>1, <1>2, <1>3

LEMMA RetryTmpKeepsInv ==
    ASSUME IInv, NEW d \in Downloads, RetryTmp(d)
    PROVE  IInv'
<1> USE StoreConstants DEF IInv, TypeOK, RetryTmp, NoFile, Torn
<1>1. TypeOK'
  BY DEF RetriesPaid, Files
<1>2. FilesFollow' /\ RetriesPaid'
  BY DEF FilesFollow, RetriesPaid
<1>3. CheckpointSurvives' /\ DirectoryCleaned'
  BY DEF CheckpointSurvives, DirectoryCleaned
<1> QED BY <1>1, <1>2, <1>3

LEMMA RecreateDirKeepsInv ==
    ASSUME IInv, NEW d \in Downloads, RecreateDir(d)
    PROVE  IInv'
<1> USE StoreConstants DEF IInv, TypeOK, RecreateDir, Goto, NoFile, Torn
<1>1. TypeOK'
  OBVIOUS
<1>2. FilesFollow' /\ RetriesPaid'
  BY DEF FilesFollow, RetriesPaid
<1>3. CheckpointSurvives' /\ DirectoryCleaned'
  BY DEF CheckpointSurvives, DirectoryCleaned
<1> QED BY <1>1, <1>2, <1>3

LEMMA FillTmpKeepsInv ==
    ASSUME IInv, NEW d \in Downloads, FillTmp(d)
    PROVE  IInv'
<1> USE StoreConstants DEF IInv, TypeOK, FillTmp, Goto, NoFile, Torn
<1>1. dir
  BY NoFiles DEF FilesFollow
<1>2. TypeOK'
  BY <1>1 DEF Versions
<1>3. FilesFollow' /\ RetriesPaid'
  BY DEF FilesFollow, RetriesPaid
<1>4. CheckpointSurvives' /\ DirectoryCleaned'
  BY DEF CheckpointSurvives, DirectoryCleaned
<1> QED BY <1>2, <1>3, <1>4

\* The file that is renamed is the whole checkpoint the save was called for.
LEMMA RenameKeepsInv ==
    ASSUME IInv, NEW d \in Downloads, Rename(d)
    PROVE  IInv'
<1> USE StoreConstants DEF IInv, TypeOK, Rename, Goto, NoFile, Torn
<1>1. (\E e \in Downloads : Files(e)' # {}) => dir
  BY DEF Files
<1>2. TypeOK'
  BY <1>1
<1>3. FilesFollow' /\ RetriesPaid'
  BY DEF FilesFollow, RetriesPaid
<1>4. CheckpointSurvives' /\ DirectoryCleaned'
  BY DEF FilesFollow, CheckpointSurvives, DirectoryCleaned
<1> QED BY <1>2, <1>3, <1>4

LEMMA SaveFailedKeepsInv ==
    ASSUME IInv, NEW d \in Downloads, SaveFailed(d)
    PROVE  IInv'
<1> USE StoreConstants DEF IInv, TypeOK, SaveFailed, Goto, NoFile, Torn
<1>1. TypeOK'
  BY DEF Files
<1>2. FilesFollow' /\ RetriesPaid'
  BY DEF FilesFollow, RetriesPaid
<1>3. CheckpointSurvives' /\ DirectoryCleaned'
  BY DEF CheckpointSurvives, DirectoryCleaned
<1> QED BY <1>1, <1>2, <1>3

LEMMA RemoveFileKeepsInv ==
    ASSUME IInv, NEW d \in Downloads, RemoveFile(d)
    PROVE  IInv'
<1> USE StoreConstants DEF IInv, TypeOK, RemoveFile, Goto, NoFile, Torn
<1>1. (\E e \in Downloads : Files(e)' # {}) => dir
  BY DEF Files
<1>2. TypeOK'
  BY <1>1
<1>3. FilesFollow' /\ RetriesPaid'
  BY DEF FilesFollow, RetriesPaid
<1>4. CheckpointSurvives' /\ DirectoryCleaned'
  BY DEF CheckpointSurvives, DirectoryCleaned
<1> QED BY <1>2, <1>3, <1>4

\* The directory stays only because somebody's file is in it: not a file of one that
\* has removed its own.
LEMMA RemoveDirKeepsInv ==
    ASSUME IInv, NEW d \in Downloads, RemoveDir(d)
    PROVE  IInv'
<1> USE StoreConstants DEF IInv, TypeOK, RemoveDir, Goto, NoFile, Torn
<1>1. dir' => dir /\ \E e \in Downloads : tmp[e] # NoFile \/ json[e] # NoFile
  BY NoFiles
<1>2. (\E e \in Downloads : Files(e)' # {}) => dir'
  BY DEF Files
<1>3. TypeOK'
  <2>1. dir' \in BOOLEAN
    OBVIOUS
  <2>2. rmdirs' \in Nat
    OBVIOUS
  <2> QED BY <1>2, <2>1, <2>2
<1>4. FilesFollow' /\ RetriesPaid'
  BY DEF FilesFollow, RetriesPaid
<1>5. CheckpointSurvives'
  BY DEF CheckpointSurvives
<1>6. DirectoryCleaned'
  BY <1>1, <1>4 DEF FilesFollow, DirectoryCleaned
<1> QED BY <1>3, <1>4, <1>5, <1>6

LEMMA KillKeepsInv ==
    ASSUME IInv, NEW d \in Downloads, Kill(d)
    PROVE  IInv'
<1> USE StoreConstants DEF IInv, TypeOK, Kill, NoFile, Torn
<1>1. TypeOK'
  BY DEF Files
<1>2. FilesFollow' /\ RetriesPaid'
  BY DEF FilesFollow, RetriesPaid
<1>3. CheckpointSurvives' /\ DirectoryCleaned'
  BY DEF CheckpointSurvives, DirectoryCleaned
<1> QED BY <1>1, <1>2, <1>3

LEMMA NextKeepsInv == IInv /\ [Next]_vars => IInv'
<1> SUFFICES ASSUME IInv, [Next]_vars PROVE IInv'
  OBVIOUS
<1>1. CASE UNCHANGED vars
  BY <1>1 DEF vars, IInv, TypeOK, FilesFollow, RetriesPaid, CheckpointSurvives,
              DirectoryCleaned, Files
<1>2. ASSUME NEW d \in Downloads, Call(d) PROVE IInv'
  BY <1>2, OpenTmpKeepsInv, RetryTmpKeepsInv, RecreateDirKeepsInv, FillTmpKeepsInv,
     RenameKeepsInv, SaveFailedKeepsInv, RemoveDirKeepsInv DEF Call
<1>3. ASSUME NEW d \in Downloads, BeginSave(d) \/ RemoveFile(d) \/ Kill(d) PROVE IInv'
  BY <1>3, BeginSaveKeepsInv, RemoveFileKeepsInv, KillKeepsInv
<1> QED BY <1>1, <1>2, <1>3 DEF Next, AllRemoved

LEMMA InvHolds == Spec => []IInv
BY InitInv, NextKeepsInv, PTL DEF Spec

-----------------------------------------------------------------------------
\* The variables keep their shape; in particular no save makes more than
\* MAX_WRITE_ATTEMPTS attempts, and files exist only in an existing directory.
THEOREM StoreTypeCorrect == Spec => []TypeOK
<1>1. IInv => TypeOK
  BY DEF IInv
<1> QED BY <1>1, InvHolds, PTL

\* Whenever a process is killed and whatever the other downloads remove, the
\* checkpoint file holds the last checkpoint whose save returned Ok, whole.
THEOREM CheckpointsSurvive == Spec => []CheckpointSurvives
<1>1. IInv => CheckpointSurvives
  BY DEF IInv
<1> QED BY <1>1, InvHolds, PTL

\* A save that gives up for want of the directory had it removed under it once for
\* each of its attempts.
THEOREM RetriesAreEnough == Spec => []RetriesSuffice
<1>1. IInv => RetriesSuffice
  BY DEF IInv, RetriesPaid, RetriesSuffice
<1> QED BY <1>1, InvHolds, PTL

\* When every download has removed its files, the directory is gone too.
THEOREM DirectoriesCleaned == Spec => []DirectoryCleaned
<1>1. IInv => DirectoryCleaned
  BY DEF IInv
<1> QED BY <1>1, InvHolds, PTL
=============================================================================
