------------------------------ MODULE PLRSpec -------------------------------
(***************************************************************************)
(* Abstract specification of an online piecewise linear regression, the   *)
(* promise both GreedyPLR and OptimalPLR make to their caller              *)
(* (spec.md sections 1, 5, 6 and 8).                                       *)
(*                                                                         *)
(* The consumed points are split into consecutive blocks.  The block being *)
(* built is `open`; a point either joins it, or closes it, in which case   *)
(* a segment [start, stop) is emitted whose line is within Gamma of every  *)
(* point of the closed block, and the point opens the next block.  finish  *)
(* emits the segment of the open block with stop = f64::MAX.              *)
(*                                                                         *)
(* With Eager = TRUE a block may only be closed when no line fits it       *)
(* together with the new point, even with strict error < Gamma: closing   *)
(* blocks as late as possible is what yields the minimum number of         *)
(* segments, the claim spec.md makes of OptimalPLR.                        *)
(*                                                                         *)
(* The new segment's slope and intercept are constrained, not chosen, so   *)
(* this specification is only used as a PROPERTY of an implementation.    *)
(***************************************************************************)
EXTENDS Integers, Sequences, Geometry

CONSTANTS
  Points,    \* the points a caller may pass to process
  Gamma,     \* the maximum error, a rational > 0
  Eager,     \* TRUE: a block is closed only when it cannot be extended
  F64Max     \* the stop of the final segment, greater than every x

VARIABLES
  input,     \* the points consumed so far, in order
  open,      \* the points of the block not yet emitted
  segments,  \* the segments emitted so far, in order
  done       \* finish was called

vars == <<input, open, segments, done>>

\* Every point of the sequence pts is within Gamma of the line of seg.
FitsAll(pts, seg) ==
  \A i \in DOMAIN pts :
    RLeq(Err([a |-> seg.slope, b |-> seg.intercept], pts[i]), Gamma)

\* For p.x < q.x < r.x, (q.y - p.y)(r.x - p.x) - (r.y - p.y)(q.x - p.x):
\* (r.x - p.x) times the distance of q from the chord p--r.
Slack(p, q, r) ==
  RSub(RMul(RSub(q.y, p.y), RSub(r.x, p.x)), RMul(RSub(r.y, p.y), RSub(q.x, p.x)))

\* Some line has error < Gamma at every point of pts (distinct x).  The lines
\* with error < Gamma at a point form an open convex set of (slope,
\* intercept), so by Helly's theorem all points fit if every three do, and
\* three points fit iff the middle one is within 2 * Gamma of the chord.
StrictlyFittable(pts) ==
  \A i, j, k \in DOMAIN pts :
    LET p == pts[i]  q == pts[j]  r == pts[k] IN
    (RLt(p.x, q.x) /\ RLt(q.x, r.x)) =>
      RLt(RAbs(Slack(p, q, r)), RMul(RMul(Int2Rat(2), Gamma), RSub(r.x, p.x)))

\* As StrictlyFittable, with error <= Gamma.
Fittable(pts) ==
  \A i, j, k \in DOMAIN pts :
    LET p == pts[i]  q == pts[j]  r == pts[k] IN
    (RLt(p.x, q.x) /\ RLt(q.x, r.x)) =>
      RLeq(RAbs(Slack(p, q, r)), RMul(RMul(Int2Rat(2), Gamma), RSub(r.x, p.x)))

\* The step appends one segment, covering [blk[1].x, stop) and within Gamma
\* of every point of blk.
Emits(blk, stop) ==
  /\ Len(segments') = Len(segments) + 1
  /\ SubSeq(segments', 1, Len(segments)) = segments
  /\ LET seg == segments'[Len(segments')]
     IN  /\ seg.start = blk[1].x
         /\ seg.stop = stop
         /\ FitsAll(blk, seg)

Init ==
  /\ input = <<>>
  /\ open = <<>>
  /\ segments = <<>>
  /\ done = FALSE

\* The point p joins the open block.
Extend(p) ==
  /\ ~done
  /\ Fittable(Append(open, p))
  /\ input' = Append(input, p)
  /\ open' = Append(open, p)
  /\ UNCHANGED <<segments, done>>

\* The point p closes the open block, which is emitted, and opens the next.
Break(p) ==
  /\ ~done
  /\ open # <<>>
  /\ Eager => ~StrictlyFittable(Append(open, p))
  /\ Emits(open, p.x)
  /\ input' = Append(input, p)
  /\ open' = <<p>>
  /\ done' = done

\* finish: the open block, if any, is emitted with stop = f64::MAX.
Finish ==
  /\ ~done
  /\ done' = TRUE
  /\ IF open = <<>> THEN segments' = segments ELSE Emits(open, F64Max)
  /\ UNCHANGED <<input, open>>

Next ==
  \/ \E p \in Points : Extend(p) \/ Break(p)
  \/ Finish

Spec == Init /\ [][Next]_vars

=============================================================================
