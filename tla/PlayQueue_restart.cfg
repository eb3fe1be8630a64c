\* Commands one at a time, the prefetch worker, and a restart at any point.
SPECIFICATION Spec
CONSTANTS
  w1 = w1
  v1 = v1
  v2 = v2
  Workers = {w1}
  Videos = {v1, v2}
  NoVideo = NoVideo
  MaxFront = 1
  MaxId = 3
  MaxPool = 0
  MaxRestarts = 1
  Prefetch = TRUE
  Commands = {"play", "queue", "next", "playback_finished", "shuffle", "stop", "clear", "autoplay"}
\* Ids run out at the bounds.
CHECK_DEADLOCK FALSE
SYMMETRY Symmetry
INVARIANTS AtMostOnePlaying PlayingIsStreamed PrefetchOwnership
PROPERTIES ReplayedWhere StrandedWhere
