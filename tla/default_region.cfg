\* Two initializes that may both be answered, a request that reads the region
\* and may be answered, another that panics after it has read it, and a line
\* that is skipped.
SPECIFICATION SSpec
CONSTANTS
  None = None
  Lines = {i, j, c, d, blank}
  Inits = {i, j}
  Blank = {blank}
  Garbled = {}
  Fatal = {d}
  Workers = {w1, w2}
  Capacity = 1
INVARIANTS NoSupersededRegion NoRegionInversion
CHECK_DEADLOCK FALSE
