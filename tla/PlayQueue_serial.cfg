\* Every command, one at a time, no prefetch worker; ids enough for a shuffle
\* of two rows.
SPECIFICATION Spec
CONSTANTS
  w1 = w1
  v1 = v1
  v2 = v2
  Workers = {w1}
  Videos = {v1, v2}
  NoVideo = NoVideo
  MaxFront = 1
  MaxId = 3
  MaxPool = 1
  MaxRestarts = 0
  Prefetch = FALSE
  Commands = {"play", "queue", "play_next", "next", "playback_finished", "previous", "stop", "clear", "shuffle", "autoplay"}
\* Ids run out at the bounds.
CHECK_DEADLOCK FALSE
SYMMETRY Symmetry
INVARIANT TypeOK
PROPERTY ImplementsJukebox
