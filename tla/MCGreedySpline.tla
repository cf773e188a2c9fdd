---------------------------- MODULE MCGreedySpline --------------------------
(***************************************************************************)
(* greedy_spline with y in 0..3 and err = 1.  MCGreedySpline.cfg takes    *)
(* every data set of 2 to 6 points with x in 0..5; the violation runs take *)
(* up to 5 points with x in 0..4.  Corridors that stage several points,    *)
(* knots in the middle and at the last point all occur.                    *)
(***************************************************************************)
EXTENDS GreedySpline

MCXs == 0..4
\* The six x coordinates of the runs with increasing x.
MCXsSix == 0..5
MCYs == 0..3
MCError == Int2Rat(1)

=============================================================================
