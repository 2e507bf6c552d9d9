---------------------------- MODULE MCConnection ----------------------------
(***************************************************************************)
(* Every kind of remote side, messages of up to one payload cell.          *)
(***************************************************************************)
EXTENDS Connection

AllKinds == RemoteKinds
=============================================================================
