CONSTANTS
  Xs <- MCXs
  Ys <- MCYs
  Gamma <- MCGamma
  F64Max <- MCF64Max
  MaxPoints = 6
  None = None
  IncreasingX = TRUE

SPECIFICATION Spec

\* finish consumes both regressions: no call is possible after it.
CHECK_DEADLOCK FALSE

INVARIANT
  OptimalNotWorse
