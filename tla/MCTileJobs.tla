----------------------------- MODULE MCTileJobs -----------------------------
(***************************************************************************)
(* Values for the constants of the tile job models.                        *)
(***************************************************************************)
EXTENDS TileJobs, TLC

\* A tile in the second column, so that a slip in a coordinate shows.
OneTile == [X |-> 1, Y |-> 0, Zoom |-> 1]
OneEmptyTile == {[X |-> 3, Y |-> 1, Zoom |-> 2]}
=============================================================================
