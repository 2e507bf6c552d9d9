-------------------------- MODULE VerifiedDownload --------------------------
(***************************************************************************)
(* What download() promises its caller, without peers, claims, permits or  *)
(* a checkpoint file: a piece counts as verified only if its bytes are     *)
(* stored, nothing verified is forgotten while the program runs, it ends   *)
(* "ok" only with every piece verified and "stalled" only without, and a   *)
(* restart forgets what was verified (to verify it again) but nothing that *)
(* is stored, unless somebody alters the files in between.                 *)
(***************************************************************************)
CONSTANT Piece

VARIABLES
    verified,   \* pieces this run of the program counts as done
    stored,     \* pieces whose correct bytes the file system holds
    outcome     \* "running", or how download() returned

vdVars == <<verified, stored, outcome>>

VDInit == verified = {} /\ stored \in SUBSET Piece /\ outcome = "running"

Store(i) ==
    /\ outcome = "running"
    /\ stored' = stored \cup {i}
    /\ UNCHANGED <<verified, outcome>>

Verify(i) ==
    /\ outcome = "running"
    /\ i \in stored
    /\ verified' = verified \cup {i}
    /\ UNCHANGED <<stored, outcome>>

Return(result) ==
    /\ outcome = "running"
    /\ result = "ok" => verified = Piece
    /\ result = "stalled" => verified # Piece
    /\ outcome' = result
    /\ UNCHANGED <<verified, stored>>

Rerun ==
    /\ verified' = {}
    /\ stored' \in SUBSET stored
    /\ outcome' = "running"

VDNext ==
    \/ \E i \in Piece : Store(i) \/ Verify(i)
    \/ \E result \in {"ok", "stalled", "no_peers", "io_error"} : Return(result)
    \/ Rerun

VDSpec == VDInit /\ [][VDNext]_vdVars
=============================================================================
