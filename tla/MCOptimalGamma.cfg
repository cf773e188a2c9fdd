CONSTANTS
  Xs <- MCXsSix
  Ys <- MCYs
  Gamma <- MCGamma
  F64Max <- MCF64Max
  MaxPoints = 6
  None = None
  IncreasingX = TRUE

SPECIFICATION Spec

\* finish consumes the regression: no call is possible after it.
CHECK_DEADLOCK FALSE

INVARIANT
  VerifyGamma
