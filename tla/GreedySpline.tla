---------------------------- MODULE GreedySpline ----------------------------
(***************************************************************************)
(* GreedySpline (src/RMI/plr/src/spline/greedy.rs) driven by greedy_spline *)
(* of the same file: the first data point is the first knot and is passed  *)
(* to new, every later point to process (x strictly increasing, which      *)
(* process asserts), each returned knot is collected, and finish supplies  *)
(* the last knot.                                                          *)
(*                                                                         *)
(* The regression keeps the last knot pt1, a staged point pt2 and a        *)
(* corridor (slope_lb, slope_ub) of slopes from pt1.  A point whose slope  *)
(* from pt1 leaves the corridor makes pt2 a knot.                          *)
(***************************************************************************)
EXTENDS Integers, Sequences, Geometry

CONSTANTS
  Xs,         \* x coordinates the caller may pass (integers)
  Ys,         \* y coordinates the caller may pass (integers)
  Error,      \* the maximum error err, a rational > 0
  MaxPoints,  \* bound on the number of data points
  None,       \* an empty Option
  NegInf,     \* std::f64::NEG_INFINITY, only ever assigned, never compared
  PosInf,     \* std::f64::INFINITY, likewise
  IncreasingX \* TRUE: the caller passes strictly increasing x (sorted data)

ASSUME MaxPoints \in Nat \ {0, 1}

VARIABLES
  pt1, pt2, slope_lb, slope_ub,   \* struct GreedySpline
  input,     \* greedy_spline: the data points consumed, data[0] first
  knots,     \* greedy_spline: the vector pts of knots returned
  done       \* greedy_spline: finish was called

splineVars == <<pt1, pt2, slope_lb, slope_ub>>
vars == <<splineVars, input, knots, done>>

Points == {Point(Int2Rat(x), Int2Rat(y)) : x \in Xs, y \in Ys}

\* The slope of the line from pt1 to p, Line::slope of Point::line_to.
SlopeFrom(p) == LineTo(pt1, p).a

\* greedy_spline: pts = [data[0]] and GreedySpline::new(data[0], err).
Init ==
  \E p \in Points :
    /\ pt1 = p /\ pt2 = None
    /\ slope_lb = NegInf /\ slope_ub = PosInf
    /\ input = <<p>> /\ knots = <<p>> /\ done = FALSE

\* greedy_spline passes the next data point to process.  Unsorted data may
\* hold any x except that of pt1, whose zero-width slope is an f64
\* infinity the rationals do not represent.
Call(pt) ==
  /\ ~done
  /\ Len(input) < MaxPoints
  /\ IF IncreasingX THEN RLt(input[Len(input)].x, pt.x) ELSE pt.x # pt1.x
  /\ input' = Append(input, pt)

\* process with no staged point: stage it, the corridor is the slopes to
\* its upper and lower error bounds.
ProcessFirst(pt) ==
  /\ pt2 = None
  /\ Call(pt)
  /\ pt2' = pt
  /\ slope_ub' = SlopeFrom(UpperBound(pt, Error))
  /\ slope_lb' = SlopeFrom(LowerBound(pt, Error))
  /\ UNCHANGED <<pt1, knots, done>>

\* Seeded fault: a knot leaves the corridor of the old pt1 in place.
ProcessKnotNoReset(pt) ==
  /\ pt2 # None
  /\ RLt(pt2.x, pt.x)
  /\ Call(pt)
  /\ RLeq(slope_ub, SlopeFrom(pt)) \/ RLeq(SlopeFrom(pt), slope_lb)
  /\ pt1' = pt2
  /\ pt2' = None
  /\ knots' = Append(knots, pt2)
  /\ UNCHANGED <<slope_lb, slope_ub, done>>

\* process with a staged point first asserts x > pt2.x (line 47): a call
\* that fails it panics and takes no step.
\* process, the point's slope leaves the corridor: pt2 is returned as a
\* knot and becomes pt1, the corridor is reset and nothing is staged.
ProcessKnot(pt) ==
  /\ pt2 # None
  /\ RLt(pt2.x, pt.x)
  /\ Call(pt)
  /\ RLeq(slope_ub, SlopeFrom(pt)) \/ RLeq(SlopeFrom(pt), slope_lb)
  /\ pt1' = pt2
  /\ slope_lb' = NegInf
  /\ slope_ub' = PosInf
  /\ pt2' = None
  /\ knots' = Append(knots, pt2)
  /\ done' = done

\* Seeded fault: staging takes the union of the corridor and the new
\* point's bounds (max and min swapped) instead of their intersection.
ProcessStageWidens(pt) ==
  /\ pt2 # None
  /\ RLt(pt2.x, pt.x)
  /\ Call(pt)
  /\ RLt(SlopeFrom(pt), slope_ub) /\ RLt(slope_lb, SlopeFrom(pt))
  /\ pt2' = pt
  /\ slope_lb' = RMin(slope_lb, SlopeFrom(LowerBound(pt, Error)))
  /\ slope_ub' = RMax(slope_ub, SlopeFrom(UpperBound(pt, Error)))
  /\ UNCHANGED <<pt1, knots, done>>

\* process, the point's slope is inside the corridor: it is staged and the
\* corridor narrowed to the slopes to its error bounds.
ProcessStage(pt) ==
  /\ pt2 # None
  /\ RLt(pt2.x, pt.x)
  /\ Call(pt)
  /\ RLt(SlopeFrom(pt), slope_ub) /\ RLt(slope_lb, SlopeFrom(pt))
  /\ pt2' = pt
  /\ slope_lb' = RMax(slope_lb, SlopeFrom(LowerBound(pt, Error)))
  /\ slope_ub' = RMin(slope_ub, SlopeFrom(UpperBound(pt, Error)))
  /\ UNCHANGED <<pt1, knots, done>>

\* GreedySpline::process
Process(pt) == ProcessFirst(pt) \/ ProcessKnot(pt) \/ ProcessStage(pt)

\* GreedySpline::finish returns pt2 if staged, else pt1; greedy_spline
\* asserts at least two data points and pushes it as the last knot (for
\* exactly two points it returns both points, the same knots).
Finish ==
  /\ ~done
  /\ Len(input) >= 2
  /\ knots' = Append(knots, IF pt2 # None THEN pt2 ELSE pt1)
  /\ done' = TRUE
  /\ UNCHANGED <<splineVars, input>>

Next ==
  \/ \E pt \in Points : Process(pt)
  \/ Finish

Spec == Init /\ [][Next]_vars

(***************************************************************************)
(* Properties                                                              *)
(***************************************************************************)

IsRat(r) == r[1] \in Int /\ r[2] \in Nat \ {0}

\* The type of every field; the corridor is unbounded exactly when no
\* point is staged, as process relies on when it stages the first one.
TypeOK ==
  /\ pt1 \in Points
  /\ (pt2 = None) = (slope_lb = NegInf)
  /\ (pt2 = None) = (slope_ub = PosInf)
  /\ pt2 = None \/ pt2 \in Points
  /\ slope_lb = NegInf \/ IsRat(slope_lb)
  /\ slope_ub = PosInf \/ IsRat(slope_ub)
  /\ input \in Seq(Points)
  /\ knots \in Seq(Points)
  /\ done \in BOOLEAN

\* The debug_assert! of process (greedy.rs line 63): when a point is
\* staged, the line from pt1 through it passes within err of the point it
\* replaces.  It holds only if the corridor, narrowed by every staged point
\* since pt1, still contains the replaced point's error bounds.
StageKeepsPt2InBound ==
  [][\A pt \in Points :
       ProcessStage(pt) =>
         RLeq(RAbs(RSub(At(LineTo(pt1, pt), pt2.x), pt2.y)), Error)]_vars

\* spline_interpolate (test_util.rs): the knots around x are those at
\* upper_idx - 1 and upper_idx, upper_idx being the first knot with a
\* larger x, capped at the last knot.
UpperIdx(ks, x) ==
  LET greater == {i \in DOMAIN ks : RLt(x, ks[i].x)}
      first   == IF greater = {} THEN Len(ks) + 1
                 ELSE CHOOSE i \in greater : \A j \in greater : i <= j
  IN  IF first < Len(ks) THEN first ELSE Len(ks)

\* The interpolated value at p.x is within err of p.y.  Two knots with the
\* same x give line_to a 0/0 slope, a NaN prediction, and the test's
\* comparison with err is then false.
WithinError(ks, p) ==
  LET hi == ks[UpperIdx(ks, p.x)]
      lo == ks[UpperIdx(ks, p.x) - 1]
  IN  /\ lo.x # hi.x
      /\ RLeq(Err(LineTo(lo, hi), p), Error)

\* The knots returned by process, without the one finish added.
ProcessKnots == IF done THEN SubSeq(knots, 1, Len(knots) - 1) ELSE knots

\* verify_gamma_splines (test_util.rs), spec.md property 4, for the part of
\* the spline process has already fixed: the piecewise linear function
\* through the knots process returned is within err of every data point up
\* to the last of those knots.  Later points may still change the rest.
SplineWithinError ==
  LET ks == ProcessKnots
  IN  Len(ks) >= 2 =>
        \A i \in DOMAIN input :
          RLeq(input[i].x, ks[Len(ks)].x) => WithinError(ks, input[i])

\* spec.md sections 6 and 7: process requires x greater than the last x,
\* and a spline receiving a non-increasing x is a DomainViolation.  Only a
\* call with a staged point checks it (against pt2); the first call and
\* the call after a knot accept any x.
InputIncreasing ==
  \A i \in 1..(Len(input) - 1) : RLt(input[i].x, input[i + 1].x)

\* spec.md section 5: the knots are returned in strictly increasing x.
KnotsIncreasing ==
  \A i \in 1..(Len(knots) - 1) : RLt(knots[i].x, knots[i + 1].x)

=============================================================================
