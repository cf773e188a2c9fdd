----------------------------- MODULE PLRCompare -----------------------------
(***************************************************************************)
(* GreedyPLR and OptimalPLR fed the same stream by one caller, with the    *)
(* same gamma, as the plr benchmark (benches/plr_bench.rs) and the paired  *)
(* test_sin tests of greedy.rs and optimal.rs do.  Each call passes the    *)
(* point to both regressions; finish finishes both.                        *)
(***************************************************************************)
EXTENDS Integers, Sequences, Geometry

CONSTANTS Xs, Ys, Gamma, MaxPoints, F64Max, None, IncreasingX

VARIABLES
  gstate, gs0, gs1, gsint, gs_last, grho_lower, grho_upper, gsegments,
  ostate, os0, os1, os_last, orho_lower, orho_upper, oupper_hull, olower_hull,
  osegments,
  input, done

G == INSTANCE GreedyPLR WITH
       state <- gstate, s0 <- gs0, s1 <- gs1, sint <- gsint, s_last <- gs_last,
       rho_lower <- grho_lower, rho_upper <- grho_upper, segments <- gsegments

O == INSTANCE OptimalPLR WITH
       state <- ostate, s0 <- os0, s1 <- os1, s_last <- os_last,
       rho_lower <- orho_lower, rho_upper <- orho_upper,
       upper_hull <- oupper_hull, lower_hull <- olower_hull, segments <- osegments

vars == <<G!vars, O!vars>>

Init == G!Init /\ O!Init

Next ==
  \/ \E pt \in G!Points : G!Process(pt) /\ O!Process(pt)
  \/ G!Finish /\ O!Finish

Spec == Init /\ [][Next]_vars

\* spec.md property 3: on the same stream and gamma, OptimalPLR returns no
\* more segments than GreedyPLR.  The two regressions close segments at
\* different points, after which their segments start at different points,
\* so the comparison spans every segment of the stream.
OptimalNotWorse == done => Len(osegments) <= Len(gsegments)

=============================================================================
