CONSTANTS
  Xs <- MCXs
  Ys <- MCYs
  Gamma <- MCGamma
  F64Max <- MCF64Max
  MaxPoints = 5
  None = None
  IncreasingX = TRUE

SPECIFICATION Spec

\* finish consumes the regression: no call is possible after it.
CHECK_DEADLOCK FALSE

PROPERTIES
  ImplementsMinimalPLR
