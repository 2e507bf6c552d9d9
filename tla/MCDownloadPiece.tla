-------------------------- MODULE MCDownloadPiece --------------------------
(***************************************************************************)
(* Instances of DownloadPiece: blocks of two bytes, pieces of every length *)
(* from none to four blocks, the last one full or not.                    *)
(***************************************************************************)
EXTENDS DownloadPiece

MCPieceLens == 0 .. 8
=============================================================================
