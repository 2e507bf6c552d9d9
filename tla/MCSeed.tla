------------------------------- MODULE MCSeed -------------------------------
(***************************************************************************)
(* Two pieces of three bytes, or a full and a short one: in one file; with *)
(* a piece that spans three files and an empty file inside the other; with *)
(* pieces that meet the borders of files exactly and an empty file last.   *)
(***************************************************************************)
EXTENDS Seed, TLC

MCLayouts == {<<4>>, <<1, 1, 2, 0, 1>>, <<3, 3, 0>>}
=============================================================================
