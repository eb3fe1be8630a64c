\* Everything that may happen to two videos of different lengths, beside the worker and a clear_cache command.
SPECIFICATION LiveSpec
CONSTANTS
  v1 = v1
  v2 = v2
  c1 = c1
  w1 = w1
  NoVideo = NoVideo
  Prefetcher = Prefetcher
  Syncer = Syncer
  Worker = Worker
  Videos = {v1, v2}
  SizeOf <- MCSizeOf
  ThumbSize = 1
  MaxBytes = 1
  Clearers = {c1}
  Writers = {w1}
  Commands = {"touch", "clear", "busy", "fail", "crash", "prefetch"}
  MaxEvents = 2
INVARIANT TypeOK
PROPERTIES UncountedWhereDeleted LimitRestored
CHECK_DEADLOCK FALSE
