---------------------------- MODULE MCResumeStore ----------------------------
(***************************************************************************)
(* Three downloads in one directory, one of which may be run twice: three  *)
(* removals can hit one save, just enough to use up its attempts.          *)
(***************************************************************************)
EXTENDS ResumeStore
=============================================================================
