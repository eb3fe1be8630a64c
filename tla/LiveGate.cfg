\* Three overlapping streams, one of them brief, and two prefetchers.
SPECIFICATION LiveSpec
CONSTANTS
  s1 = s1
  s2 = s2
  s3 = s3
  p1 = p1
  p2 = p2
  Streams = {s1, s2, s3}
  Brief = {s3}
  Prefetchers = {p1, p2}
  Nobody = Nobody
INVARIANTS LiveGateIsHeld NewestWins PrefetchGateIsHeld
PROPERTIES NewestGetsGate PrefetchReturns
