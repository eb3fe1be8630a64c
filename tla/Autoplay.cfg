\* Two enrichments on their way at a time, a pool of three, one long video.
SPECIFICATION LiveSpec
CONSTANTS
  v1 = v1
  v2 = v2
  v3 = v3
  Videos = {v1, v2, v3}
  Long = {v3}
  NoVideo = NoVideo
  MaxPool = 3
  Slots = {g1, g2}
  MaxRelated = 2
  MaxPlays = 4
INVARIANTS TypeOK StopIsKept NextIsHead
PROPERTY EnrichmentEnds
