\* Two songs, of one of which yt-dlp gets data, two overlapping calls of
\* StartStream, two downloads at a time, one request.
SPECIFICATION LiveSpec
CONSTANTS
  v1 = v1
  v2 = v2
  c1 = c1
  c2 = c2
  d1 = d1
  d2 = d2
  r1 = r1
  webm = webm
  m4a = m4a
  NoVideo = NoVideo
  None = None
  Other = Other
  Prefetcher = Prefetcher
  Videos = {v1, v2}
  Callers = {c1, c2}
  Requests = {r1}
  Fetchers = {d1, d2}
  Exts = {webm, m4a}
  Scanned = {webm, m4a}
  Tested = {webm}
  Webm = webm
  Fetchable = {v1}
  MaxFiles = 2
  MaxBusy = 3
  Threshold = 1
  Length = 1
INVARIANTS PumpStaysWhileGrowing
PROPERTIES UnservedWhere BrokenWhere StreamEnds
