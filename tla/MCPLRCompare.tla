---------------------------- MODULE MCPLRCompare ----------------------------
(***************************************************************************)
(* Both regressions over every stream of up to 6 points with x in 0..5,   *)
(* y in 0..4 and gamma = 1 (checked also with 7 points and x in 0..6).     *)
(***************************************************************************)
EXTENDS PLRCompare

MCXs == 0..5
MCYs == 0..4
MCGamma == Int2Rat(1)
MCF64Max == Int2Rat(1000)

=============================================================================
