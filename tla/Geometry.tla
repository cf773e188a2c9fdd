------------------------------ MODULE Geometry ------------------------------
(***************************************************************************)
(* The geometry primitives of plr (src/RMI/plr/src/util.rs): Point, Line   *)
(* and the operations the regressions call on them.                        *)
(*                                                                         *)
(* The code computes in binary64 and falls back to 128-bit software floats *)
(* when two operands are relatively equal (relative_eq!).  Both branches   *)
(* compute the same real quotient, so both are modelled by one operator    *)
(* over exact rationals.  A rational is a pair <<n, d>> with d > 0 in      *)
(* lowest terms; a division by zero is an evaluation error of TLC, so a    *)
(* model that reaches one does not pass silently.                          *)
(***************************************************************************)
LOCAL INSTANCE Integers

(*************************** exact rationals ******************************)

RECURSIVE GCD(_, _)
GCD(a, b) == IF b = 0 THEN a ELSE GCD(b, a % b)

IAbs(n) == IF n < 0 THEN -n ELSE n

\* The rational n/d in lowest terms with a positive denominator; for d = 0
\* a CHOOSE from the empty set, which TLC reports as an error.
Rat(n, d) ==
  LET g == GCD(IAbs(n), IAbs(d))
      s == IF d < 0 THEN -1 ELSE 1
  IN  IF d = 0 THEN CHOOSE q \in {} : TRUE
      ELSE <<(s * n) \div g, (s * d) \div g>>

Int2Rat(n) == <<n, 1>>
Zero == <<0, 1>>

RAdd(p, q) == Rat(p[1] * q[2] + q[1] * p[2], p[2] * q[2])
RNeg(p)    == <<-p[1], p[2]>>
RSub(p, q) == RAdd(p, RNeg(q))
RMul(p, q) == Rat(p[1] * q[1], p[2] * q[2])
RDiv(p, q) == Rat(p[1] * q[2], p[2] * q[1])
RLt(p, q)  == p[1] * q[2] < q[1] * p[2]
RLeq(p, q) == p[1] * q[2] <= q[1] * p[2]
RMin(p, q) == IF RLeq(p, q) THEN p ELSE q
RMax(p, q) == IF RLeq(p, q) THEN q ELSE p
RAbs(p)    == <<IAbs(p[1]), p[2]>>

(*************************** points and lines *****************************)

\* Point::new
Point(x, y) == [x |-> x, y |-> y]

\* Point::slope_to; both the binary64 branch and the 128-bit branch taken
\* when the x coordinates are relatively equal compute this quotient.
SlopeTo(p, q) == RDiv(RSub(p.y, q.y), RSub(p.x, q.x))

\* Point::line_to: slope from p to q, intercept through p.
LineTo(p, q) ==
  LET a == SlopeTo(p, q)
  IN  [a |-> a, b |-> RAdd(RMul(RNeg(a), p.x), p.y)]

\* Line::intersection: x = (d - c)/(a - b), y = (a*d - b*c)/(a - b).
Intersection(l1, l2) ==
  LET denom == RSub(l1.a, l2.a)
  IN  Point(RDiv(RSub(l2.b, l1.b), denom),
            RDiv(RSub(RMul(l1.a, l2.b), RMul(l2.a, l1.b)), denom))

\* Line::average_slope: (min + max) / 2.
AverageSlope(l1, l2) ==
  RDiv(RAdd(RMin(l1.a, l2.a), RMax(l1.a, l2.a)), Int2Rat(2))

\* Line::at, the y coordinate of the returned point.
At(l, x) == RAdd(RMul(l.a, x), l.b)

\* Point::above and Point::below are strict.
Above(p, l) == RLt(At(l, p.x), p.y)
Below(p, l) == RLt(p.y, At(l, p.x))

\* Point::upper_bound and Point::lower_bound.  Their debug assertion that
\* y + gamma differs from y never fails over exact rationals with gamma > 0.
UpperBound(p, gamma) == Point(p.x, RAdd(p.y, gamma))
LowerBound(p, gamma) == Point(p.x, RSub(p.y, gamma))

\* The absolute error of line l at point p.
Err(l, p) == RAbs(RSub(At(l, p.x), p.y))

=============================================================================
