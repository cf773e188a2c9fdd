----------------------------- MODULE MCGreedyPLR ----------------------------
(***************************************************************************)
(* GreedyPLR with y in 0..3 and gamma = 1.  MCGreedyPLR.cfg takes every    *)
(* stream of up to 6 points with x increasing in 0..5: segments of 1 to 6  *)
(* points, several segments per stream, and points exactly on a bounding   *)
(* line (integer data, integer gamma).  MCGreedyNonMonotone.cfg passes up  *)
(* to 5 points with x in 0..4 in any order, each x at most once.           *)
(***************************************************************************)
EXTENDS GreedyPLR

MCXs == 0..4
\* The six x coordinates of the runs with increasing x.
MCXsSix == 0..5
MCYs == 0..3
MCGamma == Int2Rat(1)
MCF64Max == Int2Rat(1000)

=============================================================================
