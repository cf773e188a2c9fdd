CONSTANTS
  CacheLineSize = 16
  SizeOfT = 4
  MaxT = 12
  OffsetBits = 32
  MaxN = 11
  MaxKey = 12
  None = None
  Panic = Panic

SPECIFICATION Spec

\* A built tree serves any number of lookups; the caller never stops.
INVARIANTS
  TypeOK
  LookupBracket
