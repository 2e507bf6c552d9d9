----------------------------- MODULE MCDownload -----------------------------
(***************************************************************************)
(* Instances of Download for TLC.  Peers that are not in Healthy are       *)
(* interchangeable.                                                        *)
(***************************************************************************)
EXTENDS Download, TLC

AllBitfields == SUBSET Pieces

PeerSymmetry == Permutations(Peers)
=============================================================================
