\* Two overlapping commands; the device reports the end of its tracks.
SPECIFICATION LiveSpec
CONSTANTS
  w1 = w1
  w2 = w2
  v1 = v1
  Workers = {w1, w2}
  Videos = {v1}
  NoVideo = NoVideo
  MaxFront = 1
  MaxId = 2
  MaxPool = 0
  MaxRestarts = 0
  Prefetch = FALSE
  Commands = {"queue", "play_next", "next", "playback_finished", "clear", "stop"}
\* Ids run out at the bounds.
CHECK_DEADLOCK FALSE
INVARIANT NoStall
 
