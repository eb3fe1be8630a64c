\* Two requests at a time for two videos; everything may happen beside them.
SPECIFICATION LiveSpec
CONSTANTS
  h1 = h1
  h2 = h2
  v1 = v1
  v2 = v2
  Handlers = {h1, h2}
  Videos = {v1, v2}
  NoVideo = NoVideo
  Events = {"other", "fail", "evict"}
INVARIANTS SequentialDownloads QueuedIsServed
PROPERTIES LostWhereDropped Served
