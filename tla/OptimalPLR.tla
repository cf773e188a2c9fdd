----------------------------- MODULE OptimalPLR -----------------------------
(***************************************************************************)
(* OptimalPLR (src/RMI/plr/src/regression/optimal.rs) driven by a caller   *)
(* that passes points with strictly increasing x, collects the segments    *)
(* process returns, and finally calls finish.                              *)
(*                                                                         *)
(* Besides the two bounding lines it keeps an upper hull of the points     *)
(* shifted up by gamma and a lower hull of the points shifted down.  A     *)
(* point strictly between the bounding lines re-anchors each line that its *)
(* gamma bound cuts at the hull point giving the extreme slope, drops the  *)
(* hull points before it and pushes the gamma bound onto the other hull.   *)
(***************************************************************************)
EXTENDS Integers, Sequences, Geometry

CONSTANTS
  Xs,         \* x coordinates the caller may pass (integers)
  Ys,         \* y coordinates the caller may pass (integers)
  Gamma,      \* the maximum error, a rational > 0
  MaxPoints,  \* bound on the number of points processed
  F64Max,     \* std::f64::MAX, the stop of the segment finish returns
  None,       \* an empty Option
  IncreasingX \* TRUE: the caller passes strictly increasing x

ASSUME MaxPoints \in Nat
ASSUME \A x \in Xs : RLt(Int2Rat(x), F64Max)

VARIABLES
  state, s0, s1, s_last, rho_lower, rho_upper,         \* struct OptimalPLR
  upper_hull, lower_hull,                              \* Hull::data
  input,     \* caller: the points passed to process, in order
  segments,  \* caller: the segments returned by process and finish
  done       \* caller: finish was called (it consumes the regression)

plrVars == <<state, s0, s1, s_last, rho_lower, rho_upper, upper_hull, lower_hull>>
vars == <<plrVars, input, segments, done>>

Points == {Point(Int2Rat(x), Int2Rat(y)) : x \in Xs, y \in Ys}

(******************************** Hull ************************************)

\* The while loop of Hull::push: while the last three points make a turn
\* the wrong way for the hull (middle point above the chord for an upper
\* hull, below it for a lower hull), remove the middle point.
RECURSIVE Convexify(_, _)
Convexify(data, upper) ==
  IF Len(data) <= 2 THEN data
  ELSE LET n    == Len(data)
           line == LineTo(data[n], data[n - 2])
       IN  IF (upper /\ Above(data[n - 1], line)) \/ (~upper /\ Below(data[n - 1], line))
           THEN Convexify(SubSeq(data, 1, n - 2) \o <<data[n]>>, upper)
           ELSE data

\* Seeded fault: the convexity test of Hull::push uses the other hull's
\* orientation.
PushWrongTurn(data, upper, pt) == Convexify(Append(data, pt), ~upper)

\* Hull::push
Push(data, upper, pt) == Convexify(Append(data, pt), upper)

\* Hull::remove_front
RemoveFront(data, count) == SubSeq(data, count + 1, Len(data))

\* The loops of process_pt that scan a hull for the point whose line to pt
\* has the least (least = TRUE) or the greatest slope: the first such
\* index, as the scan only replaces its best on a strictly better slope.
BestIndex(data, pt, least) ==
  LET slope(i)     == SlopeTo(data[i], pt)
      better(a, b) == IF least THEN RLt(a, b) ELSE RLt(b, a)
  IN  CHOOSE i \in DOMAIN data :
        /\ \A j \in DOMAIN data : ~better(slope(j), slope(i))
        /\ \A j \in 1..(i - 1) : better(slope(i), slope(j))

(****************************** OptimalPLR ********************************)

\* The caller passes one more point, with increasing or only distinct x, as
\* in GreedyPLR.
Call(pt) ==
  /\ ~done
  /\ Len(input) < MaxPoints
  /\ \A i \in DOMAIN input :
       IF IncreasingX THEN RLt(input[i].x, pt.x) ELSE input[i].x # pt.x
  /\ input' = Append(input, pt)

\* OptimalPLR::new
Init ==
  /\ state = "Need2"
  /\ s0 = None /\ s1 = None /\ s_last = None
  /\ rho_lower = None /\ rho_upper = None
  /\ upper_hull = None /\ lower_hull = None
  /\ input = <<>> /\ segments = <<>> /\ done = FALSE

\* Seeded fault: setup pushes the new bounds onto the hulls of the segment
\* before instead of onto fresh ones.
SetupKeepsHulls(p0, p1) ==
  LET kept(h) == IF h = None THEN <<>> ELSE h
  IN  /\ rho_lower' = LineTo(UpperBound(p0, Gamma), LowerBound(p1, Gamma))
      /\ rho_upper' = LineTo(LowerBound(p0, Gamma), UpperBound(p1, Gamma))
      /\ upper_hull' = Push(Push(kept(upper_hull), TRUE, UpperBound(p0, Gamma)), TRUE, UpperBound(p1, Gamma))
      /\ lower_hull' = Push(Push(kept(lower_hull), FALSE, LowerBound(p0, Gamma)), FALSE, LowerBound(p1, Gamma))

\* OptimalPLR::setup: the bounding lines as in GreedyPLR, and hulls seeded
\* with the gamma bounds of s0 and s1.
Setup(p0, p1) ==
  /\ rho_lower' = LineTo(UpperBound(p0, Gamma), LowerBound(p1, Gamma))
  /\ rho_upper' = LineTo(LowerBound(p0, Gamma), UpperBound(p1, Gamma))
  /\ upper_hull' = Push(Push(<<>>, TRUE, UpperBound(p0, Gamma)), TRUE, UpperBound(p1, Gamma))
  /\ lower_hull' = Push(Push(<<>>, FALSE, LowerBound(p0, Gamma)), FALSE, LowerBound(p1, Gamma))

\* OptimalPLR::current_segment: the average slope through the intersection
\* of the bounding lines.
CurrentSegment(end) ==
  LET sint == Intersection(rho_lower, rho_upper)
      avg  == AverageSlope(rho_lower, rho_upper)
  IN  [start |-> s0.x, stop |-> end, slope |-> avg,
       intercept |-> RAdd(RMul(RNeg(avg), sint.x), sint.y)]

\* Seeded fault: the first point moves the state straight to Ready.
ProcessNeed2SkipsNeed1(pt) ==
  /\ state = "Need2"
  /\ Call(pt)
  /\ s_last' = pt
  /\ s0' = pt
  /\ state' = "Ready"
  /\ UNCHANGED <<s1, rho_lower, rho_upper, upper_hull, lower_hull, segments, done>>

ProcessNeed2(pt) ==
  /\ state = "Need2"
  /\ Call(pt)
  /\ s_last' = pt
  /\ s0' = pt
  /\ state' = "Need1"
  /\ UNCHANGED <<s1, rho_lower, rho_upper, upper_hull, lower_hull, segments, done>>

ProcessNeed1(pt) ==
  /\ state = "Need1"
  /\ Call(pt)
  /\ s_last' = pt
  /\ s1' = pt
  /\ Setup(s0, pt)
  /\ state' = "Ready"
  /\ UNCHANGED <<s0, segments, done>>

\* Seeded fault: the segment closed by a break stops at the previous
\* point's x instead of the breaking point's.
ProcessBreakStopsAtLast(pt) ==
  /\ state = "Ready"
  /\ Call(pt)
  /\ ~(Above(pt, rho_lower) /\ Below(pt, rho_upper))
  /\ segments' = Append(segments, CurrentSegment(s_last.x))
  /\ s_last' = pt
  /\ s0' = pt
  /\ state' = "Need1"
  /\ UNCHANGED <<s1, rho_lower, rho_upper, upper_hull, lower_hull, done>>

\* process_pt, first branch: the point is not strictly between the bounding
\* lines; the current segment is returned and the point becomes s0.
ProcessBreak(pt) ==
  /\ state = "Ready"
  /\ Call(pt)
  /\ ~(Above(pt, rho_lower) /\ Below(pt, rho_upper))
  /\ segments' = Append(segments, CurrentSegment(pt.x))
  /\ s_last' = pt
  /\ s0' = pt
  /\ state' = "Need1"
  /\ UNCHANGED <<s1, rho_lower, rho_upper, upper_hull, lower_hull, done>>

\* process_pt, second branch.  If the upper bound of the point is below
\* rho_upper, rho_upper is re-anchored from it to the lower hull point of
\* least slope, the lower hull loses the points before that one and gains
\* the point's lower bound; symmetrically for rho_lower and the upper hull.
ProcessFit(pt) ==
  LET up   == UpperBound(pt, Gamma)
      lo   == LowerBound(pt, Gamma)
      iLow == BestIndex(lower_hull, up, TRUE)
      iUp  == BestIndex(upper_hull, lo, FALSE)
  IN  /\ state = "Ready"
      /\ Call(pt)
      /\ Above(pt, rho_lower) /\ Below(pt, rho_upper)
      /\ IF Below(up, rho_upper)
         THEN /\ rho_upper' = LineTo(up, lower_hull[iLow])
              /\ lower_hull' = Push(RemoveFront(lower_hull, iLow - 1), FALSE, lo)
         ELSE UNCHANGED <<rho_upper, lower_hull>>
      /\ IF Above(lo, rho_lower)
         THEN /\ rho_lower' = LineTo(lo, upper_hull[iUp])
              /\ upper_hull' = Push(RemoveFront(upper_hull, iUp - 1), TRUE, up)
         ELSE UNCHANGED <<rho_lower, upper_hull>>
      /\ s_last' = pt
      /\ UNCHANGED <<state, s0, s1, segments, done>>

\* OptimalPLR::finish
Finish ==
  /\ ~done
  /\ done' = TRUE
  /\ segments' = CASE state = "Need2" -> segments
                   [] state = "Need1" ->
                        Append(segments, [start |-> s0.x, stop |-> F64Max,
                                          slope |-> Zero, intercept |-> s0.y])
                   [] state = "Ready" -> Append(segments, CurrentSegment(F64Max))
  /\ UNCHANGED <<plrVars, input>>

\* process: dispatch on the state.
Process(pt) ==
  \/ ProcessNeed2(pt)
  \/ ProcessNeed1(pt)
  \/ ProcessBreak(pt)
  \/ ProcessFit(pt)

Next ==
  \/ \E pt \in Points : Process(pt)
  \/ Finish

Spec == Init /\ [][Next]_vars

(***************************************************************************)
(* Properties                                                              *)
(***************************************************************************)

IsRat(r) == r[1] \in Int /\ r[2] \in Nat \ {0}
IsPoint(p) == IsRat(p.x) /\ IsRat(p.y)
IsLine(l) == IsRat(l.a) /\ IsRat(l.b)

\* The type of every field, and which Options process and finish unwrap:
\* s0 from Need1 on, the bounding lines and hulls in Ready.
TypeOK ==
  /\ state \in {"Need2", "Need1", "Ready"}
  /\ state # "Need2" => s0 # None
  /\ state = "Ready" => None \notin {rho_lower, rho_upper, upper_hull, lower_hull}
  /\ s0 = None \/ s0 \in Points
  /\ s1 = None \/ s1 \in Points
  /\ s_last = None \/ s_last \in Points
  /\ rho_lower = None \/ IsLine(rho_lower)
  /\ rho_upper = None \/ IsLine(rho_upper)
  /\ upper_hull = None \/ \A i \in DOMAIN upper_hull : IsPoint(upper_hull[i])
  /\ lower_hull = None \/ \A i \in DOMAIN lower_hull : IsPoint(lower_hull[i])
  /\ input \in Seq(Points)
  /\ done \in BOOLEAN

\* A hull as Hull::push leaves it: x strictly increasing, and no point on
\* the side of the chord of its two neighbours that push removes (above it
\* for the upper hull, below it for the lower hull).
IsHull(data, upper) ==
  /\ \A i \in 1..(Len(data) - 1) : RLt(data[i].x, data[i + 1].x)
  /\ \A i \in 1..(Len(data) - 2) :
       LET line == LineTo(data[i + 2], data[i])
       IN  IF upper THEN ~Above(data[i + 1], line) ELSE ~Below(data[i + 1], line)

\* The shape the hull scans of process_pt and test_upper_hull and
\* test_lower_hull rely on: after any sequence of setups, pushes that prune
\* and remove_front calls, both hulls are x-ordered convex chains.  Dropping
\* the points before the extreme one (remove_front) only discards points
\* that can never again give an extreme slope if this holds.
HullsConvex ==
  state = "Ready" => IsHull(upper_hull, TRUE) /\ IsHull(lower_hull, FALSE)

SegErr(seg, p) == Err([a |-> seg.slope, b |-> seg.intercept], p)
Covers(seg, p) == RLeq(seg.start, p.x) /\ RLt(p.x, seg.stop)

\* verify_gamma (test_util.rs), spec.md properties 1 and 2, as for GreedyPLR:
\* here the emitted line goes through the intersection of two lines each
\* anchored at hull points chosen by earlier points, after hull pruning and
\* front removal.
VerifyGamma ==
  /\ \A i \in DOMAIN input, j \in DOMAIN segments :
       Covers(segments[j], input[i]) => RLeq(SegErr(segments[j], input[i]), Gamma)
  /\ done => \A i \in DOMAIN input : \E j \in DOMAIN segments :
               Covers(segments[j], input[i])

\* The points passed since s0, as in GreedyPLR.
OpenBlock ==
  IF state = "Need2" THEN <<>>
  ELSE SubSeq(input, CHOOSE i \in DOMAIN input : input[i] = s0, Len(input))

\* spec.md sections 5 and 9: the hulls hold only the current segment's
\* points.  A break leaves the closed segment's hulls in the struct until
\* the next setup replaces them.  Whenever process_pt scans the hulls, each
\* is non-empty (items()[curr_best_idx] is indexed) and every hull point is
\* the gamma bound of a point of the open block, not of a closed segment.
HullsWithinBlock ==
  state = "Ready" =>
    /\ upper_hull # <<>> /\ lower_hull # <<>>
    /\ \A i \in DOMAIN upper_hull :
         \E j \in DOMAIN OpenBlock : upper_hull[i] = UpperBound(OpenBlock[j], Gamma)
    /\ \A i \in DOMAIN lower_hull :
         \E j \in DOMAIN OpenBlock : lower_hull[i] = LowerBound(OpenBlock[j], Gamma)

PLR == INSTANCE PLRSpec WITH open <- OpenBlock, Eager <- FALSE
MinimalPLR == INSTANCE PLRSpec WITH open <- OpenBlock, Eager <- TRUE

\* OptimalPLR implements the abstract regression (see GreedyPLR).
ImplementsPLR == PLR!Spec

\* spec.md section 1 and 4.3: OptimalPLR emits the minimum number of
\* segments.  A segment is closed only when no line is within (strictly
\* less than) gamma of its points and the new point together.
ImplementsMinimalPLR == MinimalPLR!Spec

=============================================================================
