CONSTANTS
  Xs <- MCXsSix
  Ys <- MCYs
  Error <- MCError
  MaxPoints = 6
  None = None
  NegInf = NegInf
  PosInf = PosInf
  IncreasingX = TRUE

SPECIFICATION Spec

\* finish consumes the regression and greedy_spline returns.
CHECK_DEADLOCK FALSE

INVARIANTS
  TypeOK

PROPERTIES
  StageKeepsPt2InBound
