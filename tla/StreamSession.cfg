\* Two songs, two commands that overlap, and the expiry worker.
SPECIFICATION SessionLiveSpec
CONSTANTS
  v1 = v1
  v2 = v2
  w1 = w1
  w2 = w2
  NoVideo = NoVideo
  Videos = {v1, v2}
  Workers = {w1, w2}
  Chunks = {0, 1}
INVARIANTS SessionTypeOK NotedForAssistant
PROPERTY PauseExpires
