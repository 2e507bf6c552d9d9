--------------------------- MODULE MCPieceManager ---------------------------
(***************************************************************************)
(* Nine pieces, so that the wire bitfield has a second, partial byte, and  *)
(* a short last piece.  A peer with one piece can have it claimed, one     *)
(* with every piece gets the first needed: with these bitfields every      *)
(* claim another bitfield allows happens.                                  *)
(***************************************************************************)
EXTENDS PieceManager

MCBitfields == {Pieces} \cup {{i} : i \in Pieces}
=============================================================================
