----------------------------- MODULE MCOptimalPLR ----------------------------
(***************************************************************************)
(* OptimalPLR with y in 0..3 and gamma = 1.  MCOptimalPLR.cfg and          *)
(* MCOptimalGamma.cfg take every stream of up to 6 points with x in 0..5:  *)
(* segments of 1 to 6 points, points exactly on a bounding line (integer   *)
(* data, integer gamma), and a late point far enough right to pivot a      *)
(* bounding line over an earlier point's bound.  MCOptimalMinimal.cfg      *)
(* needs only 5 points with x in 0..4.                                     *)
(***************************************************************************)
EXTENDS OptimalPLR

MCXs == 0..4
\* The six x coordinates of the runs with increasing x.
MCXsSix == 0..5
MCYs == 0..3
MCGamma == Int2Rat(1)
MCF64Max == Int2Rat(1000)

=============================================================================
