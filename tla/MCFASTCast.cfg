CONSTANTS
  CacheLineSize = 16
  SizeOfT = 4
  MaxT = 100
  OffsetBits = 3
  MaxN = 9
  MaxKey = 10
  None = None
  Panic = Panic

SPECIFICATION Spec

\* A built tree serves any number of lookups; the caller never stops.
INVARIANTS
  LookupBracket
