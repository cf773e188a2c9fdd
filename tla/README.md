# TLA+ models of TLI's PLR, spline and FAST cores

This directory models the two algorithmic cores of the repository in TLA+ and
checks them with TLC:

- the online piecewise linear regressions of `src/RMI/plr` (GreedyPLR,
  OptimalPLR) and the greedy spline;
- the FAST search tree of `src/fast64`.

Every definition that models code is listed in `PROJECT.json` ("map"), with
the source lines it translates.

## The system and its parts

| Part | Source | Module |
|---|---|---|
| Geometry: Point, Line, slopes, intersections, gamma bounds | `src/RMI/plr/src/util.rs` | `Geometry` |
| Abstract regression: what every PLR promises | spec.md §1, §4 | `PLRSpec` |
| GreedyPLR | `src/RMI/plr/src/regression/greedy.rs` | `GreedyPLR` |
| OptimalPLR and its Hull | `src/RMI/plr/src/regression/optimal.rs` | `OptimalPLR` |
| Greedy and optimal on one stream | both of the above | `PLRCompare` |
| GreedySpline and `greedy_spline` | `src/RMI/plr/src/spline/greedy.rs` | `GreedySpline` |
| FAST builder and scalar lookup | `src/fast64/src/lib.rs` | `FAST` |
| Test oracles `verify_gamma`, `spline_interpolate` | `src/RMI/plr/src/test_util.rs` | properties of the modules above |

How the parts interact:

- The PLR structs are single-threaded state machines driven by one caller.
  The caller passes points with `process` and collects what it returns, then
  calls `finish`, which consumes the struct.
- All three regressions use the geometry of `util.rs`.
- FAST is built once (`FAST::new`), is immutable after that, and is then
  queried.
- The two cores do not call each other.

Nothing runs concurrently and nothing is persisted. The hard behaviour is
therefore in the long sequences of legal calls: corridors and hulls narrowed
point by point, and page boundaries at every layer. It is not in
interleavings or crashes.

## Modelling choices

**Numbers.** Coordinates, slopes and gamma are exact rationals, pairs
`<<n, d>>` normalised by a recursive GCD (`Geometry`).

- `util.rs` computes in f64 and switches to 128-bit rug floats when two
  values are nearly equal. Both branches approximate the same real
  quantity, so each function is one operator over exact rationals.
- f64 rounding is not modelled; see the hazards in `PROJECT.json`.
- A division by zero is an evaluation error of TLC (`Rat` with denominator
  0), so no run can pass through an infinite slope unnoticed.
- Data are small integers, and gamma and err are 1. Points then fall exactly
  on bounding lines and corridor edges, which is where the strict
  comparisons of the code matter.

**Callers.** The code has no `main`: its callers are the tests, benches and
`greedy_spline`. Each module models one such caller with history variables:

- `input`: the points passed so far. With the constant `IncreasingX`, x is
  strictly increasing, as in every test. Without it, the PLR callers pass
  any x not passed before. spec.md §6 allows this for PLR ("not required by
  the math"). The spline caller then passes any x other than pt1's, which
  shows which calls check the order. A repeated x is never passed: its
  slope is infinite.
- `segments` / `knots`: what process and finish returned.
- `done`: `finish` was called.

`Call(pt)` is the caller's part of a process step. It is a conjunct of each
process action, so an action is the whole call:

- the caller's push;
- the state dispatch of `process`;
- the branch of `process_pt`;
- the assignments of `self.state` and `self.s_last`.

**Actions.**

- GreedyPLR and OptimalPLR: `ProcessNeed2`, `ProcessNeed1`, `ProcessBreak`
  and `ProcessFit` (the two branches of `process_pt`), and `Finish`. `Setup`,
  `CurrentSegment`, `Push`, `RemoveFront` and `BestIndex` are the helper
  functions.
- GreedySpline: `ProcessFirst`, `ProcessKnot` and `ProcessStage` are the
  three arms of `process`, and `Finish` is `finish` plus the final push of
  `greedy_spline`.
- FAST: `Build` runs `FAST::new` on a sorted array, and `Lookup` runs
  `slow_lookup`.
  - Arrays are functions on `0..n-1`, so indices are the code's own.
  - A slice or index out of bounds, a `usize` underflow and the
    `debug_assert` at line 204 are the outcome `Panic`.
  - In a release build, a failed assertion at 204 reads a key as an offset
    instead. Either outcome breaks the properties checked, so one value
    stands for both.
  - `copy_to_aligned` keeps its contents; the alignment is not modelled.
  - The offsets stored by `build_internal_layer` go through
    `index as u32`, modelled as the offset modulo `2^OffsetBits`.
    `OffsetBits` is 32 in the passing run. TLC's integers stay below 2^31,
    so there the cast keeps every offset. In `MCFASTCast.cfg` it is 3, so
    that offsets wrap with few keys.

**Scaling of FAST.** `K = CACHE_LINE_SIZE / size_of::<T>() / 2` keys per
page.

- TLC uses `CacheLineSize = 16` and `SizeOfT = 4`, so K = 2, against 8 or 16
  in the code.
- Every branch of the builder and the lookup depends only on K, page
  boundaries and padding, so small pages reach the same cases with few keys:
  - full and partial leaf pages;
  - padded internal pages;
  - 1 to 3 internal layers;
  - queries at every page boundary and outside the key range.

## Abstract specification and refinement

`PLRSpec` is what any PLR promises (spec.md §1, §4.1–4.3). It keeps the
*open block* of points the current segment has consumed.

- `Extend(p)` adds a point when some line is within gamma of the block and
  p.
- `Break(p)` emits a segment that:
  - starts at the block's first x;
  - stops at p.x;
  - is within gamma of the whole block.

  After a break, p alone is the block.
- `Finish` emits the open block's segment with stop `f64::MAX`.

Fittability is decided by Helly's theorem in the plane: a set of points is
fittable within gamma iff every triple is. A triple fits iff the middle
point's deviation from the chord of the outer two is at most
2·gamma·(width).

The constant `Eager` adds to `Break` the requirement that no line fits
the block and p *strictly* within gamma. That is the minimality promised for
OptimalPLR.

`GreedyPLR` is shown to implement `PLRSpec` with `Eager = FALSE`.
`OptimalPLR` instantiates the same mapping, but it does not implement
`PLRSpec` (see the run optimal_gamma). The refinement mapping is
`open <- OpenBlock`: no points before the first, else the points passed
since `s0`. `ImplementsPLR` is checked as a temporal property. It is checked
for GreedyPLR with increasing x and, for spec.md §6's per-point bound, with
unordered x.
Helly's condition takes the block's points in x order, whatever order they
came in.

## Runs

| Run | Module / cfg | Result | What it shows |
|---|---|---|---|
| greedy_plr | MCGreedyPLR / MCGreedyPLR.cfg | pass, 31250 states | Segments are within gamma of every point they cover (`VerifyGamma`, the `verify_gamma` oracle), cover every point after finish, and refine `PLRSpec`. |
| optimal_plr | MCOptimalPLR / MCOptimalPLR.cfg | pass, 31250 states | OptimalPLR's lines are anchored at hull points after pruning and front removal. Both hulls stay x-ordered convex chains (`HullsConvex`), the shape `remove_front` and the Hull tests rely on. Whenever the hulls are scanned, they are non-empty and hold only gamma bounds of the open block's points, never stale points of a closed segment (`HullsWithinBlock`). |
| greedy_nonmonotone | MCGreedyPLR / MCGreedyNonMonotone.cfg | pass, 315562 states | With x in any order, GreedyPLR still refines `PLRSpec`: every segment is within gamma of every point it consumed (spec.md §6). |
| optimal_gamma | MCOptimalPLR / MCOptimalGamma.cfg | **violation** | OptimalPLR breaks `verify_gamma` with increasing x. Take (0,0),(1,0),(2,2),(5,2) with gamma 1. At (2,2) the upper bound lies exactly on rho_upper, so line 245 skips pushing (2,1) onto the lower hull. At (5,2) rho_upper then pivots below (2,1), and `finish` returns y = 0.4x, off by 1.2 at (2,2). With both pushes made unconditional, the run passes. |
| optimal_minimal | MCOptimalPLR / MCOptimalMinimal.cfg | **violation** | OptimalPLR is not minimal: with points (0,1),(1,0),(2,2) and gamma 1 it breaks at (2,2), which lies exactly on rho_upper, although y = 0.5x + 0.2 is strictly within gamma of all three. |
| plr_compare | MCPLRCompare / MCPLRCompare.cfg | pass, 93312 states | On the same stream, OptimalPLR never returns more segments than GreedyPLR (spec property 3). |
| greedy_spline | MCGreedySpline / MCGreedySpline.cfg | pass, 31224 states | The `debug_assert!` of `process` (line 63) never fails, and the corridor is unbounded exactly when nothing is staged. |
| spline_error | MCGreedySpline / MCSplineError.cfg | **violation** | A knot step drops the point that broke the corridor. Data (0,1),(1,0),(2,2),(3,0),(4,2) with err 1 gives knots (0,1),(1,0),(3,0), off by 2 at x = 2. |
| spline_knots | MCGreedySpline / MCSplineKnots.cfg | **violation** | If the last `process` returned a knot, `finish` returns that knot again, so the knots are not strictly increasing. |
| fast_lookup | MCFAST / MCFAST.cfg | pass, 114479 states | For every strictly increasing array of up to 11 keys, the largest possibly equal to T::MAX (scaled to 12, the key padding), `slow_lookup` never panics and returns the bracket (value of the last key <= k, value of the first key > k) of every query. |
| spline_domain | MCGreedySpline / MCSplineDomain.cfg | **violation** | `process` checks x > pt2.x only when a point is staged. The first call, and the call after a knot, accept x = 0 after x = 1 (spec.md §7: DomainViolation). |
| fast_offset_cast | MCFAST / MCFASTCast.cfg | **violation** | The unchecked `index as u32` cast, at 3 bits. With keys 0,1,2,3,5, the third leaf page's offset 8 wraps to 0, and lookup(4) returns the bracket from the first page. spec.md §4.5 requires OverflowError. |

The violations are recorded as findings in `PROJECT.json`.

Every property of a passing run is also checked against a seeded fault. Each
fault is an operator defined just before the definition it replaces, for
example:

- the hull push with the wrong turn;
- a narrowing without its guard;
- the leaf step reading both values at one index.

Under the run's own configuration, TLC must find the property violated.

## Bounds and why they suffice

**PLR.** The passing GreedyPLR, OptimalPLR and spline runs take up to 6
points with x in 0..5 and y in 0..3. The comparison takes 6 points. The unordered-x run and the minimality and spline
violations take 5 points with x in 0..4. These bounds give:

- several segments per stream;
- segments of 2 to 5 points;
- every state of `process`;
- fits that narrow one or both lines;
- hull pushes that prune.

Most violations found need only 3 to 5 points. The `verify_gamma`
failure of OptimalPLR needs an x gap of 3 after the skipped push, so it first
appears at x = 5. This is why the passing runs were raised to 6 points. In the
unordered run, every order of up to 5 distinct x from 0..4 occurs.

**Spline.** The same bounds. They reach a corridor narrowed by up to three
staged points, and knots both in the middle and at the last point.

**FAST.** Up to 11 keys from 0..12 with 2-key pages. This is 6 leaf pages
and 3 internal layers, so every descent passes through padded pages. T::MAX
is 12, so a stored key can equal the padding. Each query 0..12 covers keys
below, between, equal to and above the stored keys.

## Fairness and deadlock

No liveness property is claimed, so no fairness is assumed. Every operation
is a single synchronous call by a single caller, and nothing in the code waits
or retries.

The PLR and spline runs set `CHECK_DEADLOCK FALSE`, because `finish` takes
`self` by value and the caller can make no further call. The FAST runs check
deadlock: a built tree always accepts another lookup.

## Not modelled

- **The SIMD path.** `fast_lookup`'s C kernel (`c/lookup.c`) is not in the
  repository. Its early returns are the same as those of `slow_lookup`.
- **The C API.** The `*_fast64/32` functions are raw-pointer FFI wrappers.
- **Memory layout.** The alignment of `copy_to_aligned`: the buffer is freed
  with T's alignment, not the 128-byte one it was allocated with.
- **Build and benches.** `build.rs`, the benches, and the test data
  generators.
- **Floating point.** f64 rounding, the precision fallbacks, and inf/NaN
  from equal x.
- **Duplicate keys in FAST.** spec.md §9 leaves open which value a lookup
  returns for a duplicated key. The FAST runs build strictly increasing
  keys only.
- **Panics across the C API.** `create_fast64/32` take the key and value
  counts separately. A mismatch panics inside an `extern "C"` function.
  That is a matter of the Rust runtime, not of the tree's state.
- **Read-only accessors.** `depth` and `size` only read the struct.
