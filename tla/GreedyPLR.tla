------------------------------ MODULE GreedyPLR -----------------------------
(***************************************************************************)
(* GreedyPLR (src/RMI/plr/src/regression/greedy.rs) driven by a caller     *)
(* that passes points with strictly increasing x, collects the segments    *)
(* process returns, and finally calls finish, as the tests and the doc     *)
(* example of greedy.rs do.                                                *)
(*                                                                         *)
(* The regression keeps two bounding lines rho_lower and rho_upper through *)
(* the point sint.  A point strictly between them narrows them; any other  *)
(* point ends the segment, which is emitted with the average slope of the  *)
(* two lines through sint.                                                 *)
(***************************************************************************)
EXTENDS Integers, Sequences, Geometry

CONSTANTS
  Xs,         \* x coordinates the caller may pass (integers)
  Ys,         \* y coordinates the caller may pass (integers)
  Gamma,      \* the maximum error, a rational > 0
  MaxPoints,  \* bound on the number of points processed
  F64Max,     \* std::f64::MAX, the stop of the segment finish returns
  None,       \* an empty Option
  IncreasingX \* TRUE: the caller passes strictly increasing x

ASSUME MaxPoints \in Nat
ASSUME \A x \in Xs : RLt(Int2Rat(x), F64Max)

VARIABLES
  state, s0, s1, sint, s_last, rho_lower, rho_upper,   \* struct GreedyPLR
  input,     \* caller: the points passed to process, in order
  segments,  \* caller: the segments returned by process and finish
  done       \* caller: finish was called (it consumes the regression)

plrVars == <<state, s0, s1, sint, s_last, rho_lower, rho_upper>>
vars == <<plrVars, input, segments, done>>

Points == {Point(Int2Rat(x), Int2Rat(y)) : x \in Xs, y \in Ys}

(***************************************************************************)
(* The caller passes one more point: with IncreasingX its x is greater    *)
(* than every earlier x, as in the tests; otherwise it is any x not yet    *)
(* passed, which spec.md section 6 allows ("not required by the math").    *)
(* A repeated x is left out: the slopes of util.rs then divide by zero.    *)
(***************************************************************************)
Call(pt) ==
  /\ ~done
  /\ Len(input) < MaxPoints
  /\ \A i \in DOMAIN input :
       IF IncreasingX THEN RLt(input[i].x, pt.x) ELSE input[i].x # pt.x
  /\ input' = Append(input, pt)

\* GreedyPLR::new
Init ==
  /\ state = "Need2"
  /\ s0 = None /\ s1 = None /\ sint = None /\ s_last = None
  /\ rho_lower = None /\ rho_upper = None
  /\ input = <<>> /\ segments = <<>> /\ done = FALSE

\* GreedyPLR::setup: the two bounding lines through the gamma-shifted s0
\* and s1, and their intersection.
Setup(p0, p1) ==
  LET lower == LineTo(UpperBound(p0, Gamma), LowerBound(p1, Gamma))
      upper == LineTo(LowerBound(p0, Gamma), UpperBound(p1, Gamma))
  IN  /\ rho_lower' = lower
      /\ rho_upper' = upper
      /\ sint' = Intersection(lower, upper)

\* GreedyPLR::current_segment
CurrentSegment(end) ==
  LET avg == AverageSlope(rho_lower, rho_upper)
  IN  [start |-> s0.x, stop |-> end, slope |-> avg,
       intercept |-> RAdd(RMul(RNeg(avg), sint.x), sint.y)]

\* Seeded fault: the first point moves the state straight to Ready.
ProcessNeed2SkipsNeed1(pt) ==
  /\ state = "Need2"
  /\ Call(pt)
  /\ s_last' = pt
  /\ s0' = pt
  /\ state' = "Ready"
  /\ UNCHANGED <<s1, sint, rho_lower, rho_upper, segments, done>>

\* process in state Need2: the point becomes s0.
ProcessNeed2(pt) ==
  /\ state = "Need2"
  /\ Call(pt)
  /\ s_last' = pt
  /\ s0' = pt
  /\ state' = "Need1"
  /\ UNCHANGED <<s1, sint, rho_lower, rho_upper, segments, done>>

\* process in state Need1: the point becomes s1 and setup runs.
ProcessNeed1(pt) ==
  /\ state = "Need1"
  /\ Call(pt)
  /\ s_last' = pt
  /\ s1' = pt
  /\ Setup(s0, pt)
  /\ state' = "Ready"
  /\ UNCHANGED <<s0, segments, done>>

\* Seeded fault: the segment closed by a break stops at the previous
\* point's x instead of the breaking point's.
ProcessBreakStopsAtLast(pt) ==
  /\ state = "Ready"
  /\ Call(pt)
  /\ ~(Above(pt, rho_lower) /\ Below(pt, rho_upper))
  /\ segments' = Append(segments, CurrentSegment(s_last.x))
  /\ s_last' = pt
  /\ s0' = pt
  /\ state' = "Need1"
  /\ UNCHANGED <<s1, sint, rho_lower, rho_upper, done>>

\* process in state Ready, process_pt's first branch: the point is not
\* strictly between the bounding lines; the current segment, stopping at the
\* point's x, is returned and the point becomes s0.
ProcessBreak(pt) ==
  /\ state = "Ready"
  /\ Call(pt)
  /\ ~(Above(pt, rho_lower) /\ Below(pt, rho_upper))
  /\ segments' = Append(segments, CurrentSegment(pt.x))
  /\ s_last' = pt
  /\ s0' = pt
  /\ state' = "Need1"
  /\ UNCHANGED <<s1, sint, rho_lower, rho_upper, done>>

\* Seeded fault: both bounding lines are re-anchored at the point's gamma
\* bounds even when that widens them.
ProcessFitUnguarded(pt) ==
  LET up == UpperBound(pt, Gamma)
      lo == LowerBound(pt, Gamma)
  IN  /\ state = "Ready"
      /\ Call(pt)
      /\ Above(pt, rho_lower) /\ Below(pt, rho_upper)
      /\ rho_upper' = LineTo(sint, up)
      /\ rho_lower' = LineTo(sint, lo)
      /\ s_last' = pt
      /\ UNCHANGED <<state, s0, s1, sint, segments, done>>

\* process in state Ready, process_pt's second branch: the bounding lines
\* are narrowed to pass through the point's gamma bounds.
ProcessFit(pt) ==
  LET up == UpperBound(pt, Gamma)
      lo == LowerBound(pt, Gamma)
  IN  /\ state = "Ready"
      /\ Call(pt)
      /\ Above(pt, rho_lower) /\ Below(pt, rho_upper)
      /\ rho_upper' = IF Below(up, rho_upper) THEN LineTo(sint, up) ELSE rho_upper
      /\ rho_lower' = IF Above(lo, rho_lower) THEN LineTo(sint, lo) ELSE rho_lower
      /\ s_last' = pt
      /\ UNCHANGED <<state, s0, s1, sint, segments, done>>

\* GreedyPLR::finish
Finish ==
  /\ ~done
  /\ done' = TRUE
  /\ segments' = CASE state = "Need2" -> segments
                   [] state = "Need1" ->
                        Append(segments, [start |-> s0.x, stop |-> F64Max,
                                          slope |-> Zero, intercept |-> s0.y])
                   [] state = "Ready" -> Append(segments, CurrentSegment(F64Max))
  /\ UNCHANGED <<plrVars, input>>

\* process: dispatch on the state.
Process(pt) ==
  \/ ProcessNeed2(pt)
  \/ ProcessNeed1(pt)
  \/ ProcessBreak(pt)
  \/ ProcessFit(pt)

Next ==
  \/ \E pt \in Points : Process(pt)
  \/ Finish

Spec == Init /\ [][Next]_vars

(***************************************************************************)
(* Properties                                                              *)
(***************************************************************************)

IsRat(r) == r[1] \in Int /\ r[2] \in Nat \ {0}
IsPoint(p) == IsRat(p.x) /\ IsRat(p.y)
IsLine(l) == IsRat(l.a) /\ IsRat(l.b)

\* The type of every field, and which Options process and finish unwrap:
\* s0 from Need1 on, the bounding lines and sint in Ready.
TypeOK ==
  /\ state \in {"Need2", "Need1", "Ready"}
  /\ state # "Need2" => s0 # None
  /\ state = "Ready" => None \notin {rho_lower, rho_upper, sint}
  /\ s0 = None \/ s0 \in Points
  /\ s1 = None \/ s1 \in Points
  /\ s_last = None \/ s_last \in Points
  /\ sint = None \/ IsPoint(sint)
  /\ rho_lower = None \/ IsLine(rho_lower)
  /\ rho_upper = None \/ IsLine(rho_upper)
  /\ input \in Seq(Points)
  /\ \A i \in DOMAIN segments :
       /\ IsRat(segments[i].start) /\ IsRat(segments[i].stop)
       /\ IsRat(segments[i].slope) /\ IsRat(segments[i].intercept)
  /\ done \in BOOLEAN

SegErr(seg, p) == Err([a |-> seg.slope, b |-> seg.intercept], p)
Covers(seg, p) == RLeq(seg.start, p.x) /\ RLt(p.x, seg.stop)

\* verify_gamma (test_util.rs), spec.md properties 1 and 2: every point the
\* caller passed lies within Gamma of each returned segment whose
\* [start, stop) contains its x, and once finish returned, every point is
\* covered by some segment.  Violating it takes a setup, several narrowing
\* steps and an emission whose slope and intercept are computed from lines
\* narrowed by other points.
VerifyGamma ==
  /\ \A i \in DOMAIN input, j \in DOMAIN segments :
       Covers(segments[j], input[i]) => RLeq(SegErr(segments[j], input[i]), Gamma)
  /\ done => \A i \in DOMAIN input : \E j \in DOMAIN segments :
               Covers(segments[j], input[i])

\* The block of points the current segment has consumed: none before the
\* first point, else every point passed since s0 (x values are distinct).
OpenBlock ==
  IF state = "Need2" THEN <<>>
  ELSE SubSeq(input, CHOOSE i \in DOMAIN input : input[i] = s0, Len(input))

PLR == INSTANCE PLRSpec WITH open <- OpenBlock, Eager <- FALSE

\* GreedyPLR implements the abstract regression: each process call either
\* extends the open block with a point some line still fits, or emits a
\* segment starting at the block's first x and stopping at the new point's
\* x that is within Gamma of every point of the block; finish emits the
\* open block's segment with stop f64::MAX.
ImplementsPLR == PLR!Spec

=============================================================================
