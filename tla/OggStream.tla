------------------------------- MODULE OggStream -------------------------------
(***************************************************************************)
(* /stream: StartStream (src/internal/streamer/streamer.go) publishes the   *)
(* URL of a song once enough of a file of it is there, handleStream         *)
(* (src/internal/streamer/handler.go) copies a file, which may still be     *)
(* growing, into an ffmpeg, yt-dlp writes it, for downloadWorker            *)
(* (src/internal/resolver/resolver.go) or for the prefetch worker           *)
(* (src/internal/queue/manager.go), and evictions and clear_cache remove it.*)
(*                                                                         *)
(* A song has a file per extension, and who looks for "the file" looks for  *)
(* extensions of its own.  A file is numbered in the order of creation; a    *)
(* removed file loses its name, and stays for who has it open.  None of the  *)
(* looks is under a lock: GetActiveVideoID, each look at the disk and the    *)
(* publication are steps of their own.                                      *)
(***************************************************************************)
EXTENDS Integers, FiniteSets, LiveSession

CONSTANTS
  Callers,     \* calls of StartStream that may overlap, each with its waiting goroutine
  Requests,    \* requests of /stream that may be served at the same time
  Fetchers,    \* bound: calls of StartBackgroundDownload that may overlap
  Prefetcher,  \* the prefetch worker
  Exts,        \* the extensions that findOriginalFile looks for
  Scanned,     \* those that resolveCachedPath looks for when no row names a file
  Tested,      \* those that StartBackgroundDownload looks for: .webm and .mkv
  Webm,        \* the one it downloads to
  None,        \* no file found
  Other,       \* a file that findOriginalFile does not look for: .mp4, a thumbnail
  Fetchable,   \* bound: the songs that yt-dlp is started for
  MaxFiles,    \* bound: the files ever created
  MaxBusy,     \* bound: the callers, jobs and requests that are under way at a time
  Threshold,   \* 200 KB: how much data is enough to publish the URL, in buffers
  Length       \* the length of a song that has been downloaded

ASSUME OggStreamAssumption ==
  /\ Tested \subseteq Scanned /\ Scanned \subseteq Exts
  /\ Webm \in Tested
  /\ None \notin Exts /\ Other \notin Exts /\ None # Other
  /\ Prefetcher \notin Fetchers
  /\ MaxFiles \in Nat /\ Threshold \in Nat \ {0} /\ Length \in Nat

VARIABLES
  file,         \* [Videos -> [Exts -> the file of that name, 0 if there is none]]
  len,          \* [1 .. MaxFiles -> the length of the file, in buffers of 8192 bytes]
  made,         \* the files created so far
  downloading,  \* activeDownloads: the videos whose downloadWorker runs
  job,          \* [Fetchers and the Prefetcher -> where it is, with which song and file]
  at,           \* [Callers -> where the caller, or its goroutine, is]
  vid,          \* [Callers -> its videoID]
  found,        \* [Callers -> the extension of the file it found]
  url,          \* the song of the URL published last, which the device plays
  pump,         \* [Requests -> where handleStream is]
  song,         \* [Requests -> its song_id]
  hold,         \* [Requests -> the file it has open]
  pos           \* [Requests -> how much of the file has been read]

disk    == <<file, len, made>>
jobs    == <<downloading, job>>
calls   == <<active, at, vid, found, url>>
serving == <<pump, song, hold, pos>>
vars    == <<active, file, len, made, downloading, job, at, vid, found, url,
             pump, song, hold, pos>>

Jobs == [at : {"off", "check", "enter", "run", "write"}, vid : MaybeVideo, out : 0 .. MaxFiles]

Job(l, v, f) == [at |-> l, vid |-> v, out |-> f]

NoJob == Job("off", NoVideo, 0)

TypeOK ==
  /\ active \in MaybeVideo
  /\ file \in [Videos -> [Exts -> 0 .. MaxFiles]]
  /\ len \in [1 .. MaxFiles -> 0 .. Length]
  /\ made \in 0 .. MaxFiles
  /\ downloading \subseteq Videos
  /\ job \in [Fetchers \cup {Prefetcher} -> Jobs]
  /\ at \in [Callers -> {"off", "look", "poll", "recheck", "publish"}]
  /\ vid \in [Callers -> MaybeVideo]
  /\ found \in [Callers -> Exts \cup {None, Other}]
  /\ url \in MaybeVideo
  /\ pump \in [Requests -> {"off", "open", "read", "ask", "final"}]
  /\ song \in [Requests -> MaybeVideo]
  /\ hold \in [Requests -> 0 .. MaxFiles]
  /\ pos \in [Requests -> 0 .. Length]
  /\ \A c \in Callers : at[c] # "off" => vid[c] \in Videos
  /\ \A d \in Fetchers \cup {Prefetcher} : job[d].at # "off" => job[d].vid \in Videos
  /\ \A r \in Requests : pump[r] # "off" => song[r] \in Videos

Init ==
  /\ active = NoVideo
  /\ file = [v \in Videos |-> [e \in Exts |-> 0]]
  /\ len = [f \in 1 .. MaxFiles |-> 0]
  /\ made = 0
  /\ downloading = {}
  /\ job = [d \in Fetchers \cup {Prefetcher} |-> NoJob]
  /\ at = [c \in Callers |-> "off"]
  /\ vid = [c \in Callers |-> NoVideo]
  /\ found = [c \in Callers |-> None]
  /\ url = NoVideo
  /\ pump = [r \in Requests |-> "off"]
  /\ song = [r \in Requests |-> NoVideo]
  /\ hold = [r \in Requests |-> 0]
  /\ pos = [r \in Requests |-> 0]

\* What findOriginalFile may return: .mkv and .webm come first.
Original(v) ==
  {e \in Exts : file[v][e] # 0 /\ (e \in Tested \/ \A t \in Tested : file[v][t] = 0)}

-------------------------------------------------------------------------------
(* StartBackgroundDownload, downloadWorker and the prefetch worker *)

\* One more may start.
Room ==
  Cardinality({d \in Fetchers \cup {Prefetcher} : job[d].at # "off"})
    + Cardinality({c \in Callers : at[c] # "off"})
    + Cardinality({r \in Requests : pump[r] # "off"}) < MaxBusy

JobTo(d, j) == job' = [job EXCEPT ![d] = j]

\* Somebody calls StartBackgroundDownload; a call for a song that is not
\* Fetchable is over at once.
Call(d, v) ==
  /\ job[d].at = "off" /\ Room
  /\ IF v \in Fetchable THEN JobTo(d, Job("check", v, 0)) ELSE UNCHANGED job

\* The download queue and enrichNextAutoplay do, without a look at the disk.
DownloadAhead(d, v) == Call(d, v) /\ UNCHANGED <<disk, downloading, calls, serving>>

\* Nothing to do for a .webm or a .mkv, finished or not.
StartBackgroundDownload(d) ==
  /\ job[d].at = "check"
  /\ \/ /\ \E e \in Tested : file[job[d].vid][e] # 0
        /\ JobTo(d, NoJob)
     \/ /\ \A e \in Tested : file[job[d].vid][e] = 0
        /\ JobTo(d, Job("enter", job[d].vid, 0))
  /\ UNCHANGED <<disk, downloading, calls, serving>>

\* Mutant of LoadOrStore: a worker starts beside another.
StoreAlways(d) ==
  /\ job[d].at = "enter"
  /\ JobTo(d, Job("run", job[d].vid, 0))
  /\ downloading' = downloading \cup {job[d].vid}
  /\ UNCHANGED <<disk, calls, serving>>

\* One worker per video.
LoadOrStore(d) ==
  /\ job[d].at = "enter"
  /\ \/ /\ job[d].vid \in downloading
        /\ JobTo(d, NoJob)
        /\ UNCHANGED downloading
     \/ /\ job[d].vid \notin downloading
        /\ JobTo(d, Job("run", job[d].vid, 0))
        /\ downloading' = downloading \cup {job[d].vid}
  /\ UNCHANGED <<disk, calls, serving>>

\* The prefetch worker runs a yt-dlp of its own, and tells activeDownloads
\* nothing of it.
PrefetchTrack(v) ==
  /\ v \in Fetchable
  /\ job[Prefetcher].at = "off" /\ Room
  /\ JobTo(Prefetcher, Job("run", v, 0))
  /\ UNCHANGED <<disk, downloading, calls, serving>>

\* yt-dlp creates its output, which the prefetch worker lets it name; it has
\* nothing to do for a file of that name.
OpenOutput(d) ==
  /\ job[d].at = "run"
  /\ made < MaxFiles
  /\ \E e \in IF d = Prefetcher THEN Exts ELSE {Webm} :
        /\ file[job[d].vid][e] = 0
        /\ file' = [file EXCEPT ![job[d].vid][e] = made + 1]
  /\ made' = made + 1
  /\ JobTo(d, Job("write", job[d].vid, made + 1))
  /\ UNCHANGED <<len, downloading, calls, serving>>

\* yt-dlp writes some more, to the file it has open.
Grow(d) ==
  /\ job[d].at = "write"
  /\ len[job[d].out] < Length
  /\ len' = [len EXCEPT ![job[d].out] = @ + 1]
  /\ UNCHANGED <<file, made, jobs, calls, serving>>

\* Mutant of DownloadEnds: activeDownloads keeps the video.
DownloadStaysActive(d) ==
  /\ job[d].at \in {"run", "write"}
  /\ JobTo(d, NoJob)
  /\ UNCHANGED <<disk, downloading, calls, serving>>

\* yt-dlp has written everything, or has failed, and what it has written stays.
DownloadEnds(d) ==
  /\ job[d].at \in {"run", "write"}
  /\ JobTo(d, NoJob)
  /\ downloading' = downloading \ {job[d].vid}
  /\ UNCHANGED <<disk, calls, serving>>

PrefetchEnds ==
  /\ job[Prefetcher].at \in {"run", "write"}
  /\ JobTo(Prefetcher, NoJob)
  /\ UNCHANGED <<disk, downloading, calls, serving>>

\* An eviction pass or clear_cache: os.Remove for each file of a song, in turn.
DeleteCacheFile(v, e) ==
  /\ file[v][e] # 0
  /\ file' = [file EXCEPT ![v][e] = 0]
  /\ UNCHANGED <<len, made, jobs, calls, serving>>

-------------------------------------------------------------------------------
(* StartStream *)

Goto(c, l) == at' = [at EXCEPT ![c] = l]

Return(c) ==
  /\ Goto(c, "off")
  /\ vid' = [vid EXCEPT ![c] = NoVideo]
  /\ found' = [found EXCEPT ![c] = None]

StartStream(c, v) ==
  /\ at[c] = "off" /\ Room
  /\ SetActive(v)
  /\ vid' = [vid EXCEPT ![c] = v]
  /\ Goto(c, "look")
  /\ UNCHANGED <<found, url, disk, jobs, serving>>

\* resolveCachedPath finds a file: that of a row of media_cache or song_cache,
\* whatever its extension, or one that its scan finds.
Cached(c) ==
  /\ at[c] = "look"
  /\ \E e \in {x \in Exts : file[vid[c]][x] # 0} \cup {Other} :
        found' = [found EXCEPT ![c] = e]
  /\ Goto(c, "publish")
  /\ UNCHANGED <<active, vid, url, disk, jobs, serving>>

\* Mutant of NotCached: nobody waits for a download that is under way.
NotCachedOrReturn(c) ==
  /\ at[c] = "look"
  /\ \A e \in Scanned : file[vid[c]][e] = 0
  /\ \/ /\ vid[c] \in downloading
        /\ Return(c)
        /\ UNCHANGED job
     \/ /\ vid[c] \notin downloading
        /\ \E d \in Fetchers : Call(d, vid[c])
        /\ Goto(c, "poll")
        /\ UNCHANGED <<vid, found>>
  /\ UNCHANGED <<active, url, disk, downloading, serving>>

\* It finds none: one goroutine calls StartBackgroundDownload, one waits.
NotCached(c) ==
  /\ at[c] = "look"
  /\ \A e \in Scanned : file[vid[c]][e] = 0
  /\ \E d \in Fetchers : Call(d, vid[c])
  /\ Goto(c, "poll")
  /\ UNCHANGED <<active, vid, found, url, disk, downloading, serving>>

\* The wait ends after 15 seconds, whatever there is by then,
TimesOut(c) ==
  /\ at[c] = "poll"
  /\ Return(c)
  /\ UNCHANGED <<active, url, disk, jobs, serving>>

\* when another song is active,
Overtaken(c) ==
  /\ at[c] \in {"poll", "recheck"}
  /\ active # vid[c]
  /\ Return(c)
  /\ UNCHANGED <<active, url, disk, jobs, serving>>

\* and when there is enough data in the candidate, the first file that was found:
FindCandidate(c) ==
  /\ at[c] = "poll"
  /\ active = vid[c]
  /\ found[c] = None
  /\ \E e \in Original(vid[c]) : found' = [found EXCEPT ![c] = e]
  /\ UNCHANGED <<active, at, vid, url, disk, jobs, serving>>

\* Mutant of WaitForData: nobody looks for a file.
WaitForNothing(c) ==
  /\ at[c] = "poll"
  /\ active = vid[c]
  /\ Goto(c, "recheck")
  /\ UNCHANGED <<active, vid, found, url, disk, jobs, serving>>

WaitForData(c) ==
  /\ at[c] = "poll"
  /\ active = vid[c]
  /\ found[c] # None
  /\ file[vid[c]][found[c]] # 0
  /\ len[file[vid[c]][found[c]]] >= Threshold
  /\ Goto(c, "recheck")
  /\ UNCHANGED <<active, vid, found, url, disk, jobs, serving>>

Recheck(c) ==
  /\ at[c] = "recheck"
  /\ active = vid[c]
  /\ Goto(c, "publish")
  /\ UNCHANGED <<active, vid, found, url, disk, jobs, serving>>

PublishMediaUrl(c) ==
  /\ at[c] = "publish"
  /\ url' = vid[c]
  /\ Return(c)
  /\ UNCHANGED <<active, disk, jobs, serving>>

\* The expiry worker ends a session that was paused for too long.
ClearSession ==
  /\ ResetActive
  /\ UNCHANGED <<at, vid, found, url, disk, jobs, serving>>

-------------------------------------------------------------------------------
(* handleStream, and the goroutine that feeds ffmpeg *)

PumpTo(r, l) == pump' = [pump EXCEPT ![r] = l]

HandleStream(r, v) ==
  /\ pump[r] = "off" /\ Room
  /\ PumpTo(r, "open")
  /\ song' = [song EXCEPT ![r] = v]
  /\ UNCHANGED <<hold, pos, calls, disk, jobs>>

EndRequest(r) ==
  /\ PumpTo(r, "off")
  /\ song' = [song EXCEPT ![r] = NoVideo]
  /\ hold' = [hold EXCEPT ![r] = 0]
  /\ pos' = [pos EXCEPT ![r] = 0]

\* The wait for the file gives up after 10 seconds, and os.Open fails when the
\* file was removed meanwhile.
FindOriginalFile(r) ==
  /\ pump[r] = "open"
  /\ \/ /\ \E e \in Original(song[r]) : hold' = [hold EXCEPT ![r] = file[song[r]][e]]
        /\ PumpTo(r, "read")
        /\ UNCHANGED <<song, pos>>
     \/ EndRequest(r)
  /\ UNCHANGED <<calls, disk, jobs>>

\* file.Read: a buffer, or io.EOF.
Read(r) ==
  /\ pump[r] = "read"
  /\ \/ /\ pos[r] < len[hold[r]]
        /\ pos' = [pos EXCEPT ![r] = @ + 1]
        /\ UNCHANGED pump
     \/ /\ pos[r] = len[hold[r]]
        /\ PumpTo(r, "ask")
        /\ UNCHANGED pos
  /\ UNCHANGED <<song, hold, calls, disk, jobs>>

\* isDownloading.
AskDownloading(r) ==
  /\ pump[r] = "ask"
  /\ \/ song[r] \in downloading /\ PumpTo(r, "read")
     \/ song[r] \notin downloading /\ PumpTo(r, "final")
  /\ UNCHANGED <<song, hold, pos, calls, disk, jobs>>

\* The last file.Read: one more buffer, if there is one.
FinalRead(r) ==
  /\ pump[r] = "final"
  /\ EndRequest(r)
  /\ UNCHANGED <<calls, disk, jobs>>

\* The client disconnects, or ffmpeg ends: the write to its stdin fails.
Disconnect(r) ==
  /\ pump[r] \in {"read", "ask"}
  /\ EndRequest(r)
  /\ UNCHANGED <<calls, disk, jobs>>

-------------------------------------------------------------------------------
Download(d) == \/ StartBackgroundDownload(d) \/ LoadOrStore(d)
               \/ OpenOutput(d) \/ Grow(d) \/ DownloadEnds(d)
Prefetch    == \/ OpenOutput(Prefetcher) \/ Grow(Prefetcher) \/ PrefetchEnds
               \/ \E v \in Videos : PrefetchTrack(v)
Caller(c)   == \/ Cached(c) \/ NotCached(c) \/ TimesOut(c) \/ Overtaken(c) \/ FindCandidate(c)
               \/ WaitForData(c) \/ Recheck(c) \/ PublishMediaUrl(c)
Request(r)  == FindOriginalFile(r) \/ Read(r) \/ AskDownloading(r) \/ FinalRead(r)

Next ==
  \/ \E d \in Fetchers : Download(d) \/ \E v \in Videos : DownloadAhead(d, v)
  \/ Prefetch
  \/ \E v \in Videos, e \in Exts : DeleteCacheFile(v, e)
  \/ \E c \in Callers : Caller(c) \/ \E v \in Videos : StartStream(c, v)
  \/ ClearSession
  \/ \E r \in Requests : Request(r) \/ Disconnect(r) \/ \E v \in Videos : HandleStream(r, v)

Spec == Init /\ [][Next]_vars

\* Goroutines are scheduled, downloadWorker kills yt-dlp after 600 seconds, and
\* the client keeps reading: the server has no WriteTimeout, so a client that
\* stays connected and stops reading blocks ffmpeg and with it the feeder.
LiveSpec ==
  /\ Spec
  /\ \A r \in Requests : WF_vars(Request(r))
  /\ WF_vars(\E d \in Fetchers : DownloadEnds(d))

-------------------------------------------------------------------------------
(* Properties *)

\* When the feeder of ffmpeg leaves its loop, no downloadWorker writes the file it
\* reads: not even when the song is downloaded again, because its file was removed
\* or is one that StartBackgroundDownload does not look for.  The prefetch worker
\* may still write it.
PumpStaysWhileGrowing ==
  \A r \in Requests, d \in Fetchers :
    pump[r] = "final" /\ job[d].at = "write" /\ job[d].vid = song[r] => job[d].out # hold[r]

\* handleStream has nothing to serve at the URL that the device has.
Broken == url # NoVideo /\ \A e \in Exts : file[url][e] = 0

\* The device comes to have a URL without a file in three places only: where the
\* file is removed, where a call publishes whose file was removed since it found
\* it, and where the row of the song names a file that handleStream does not look
\* for.
BrokenWhere ==
  [][~Broken /\ Broken' =>
       \/ \E v \in Videos, e \in Exts : v = url /\ DeleteCacheFile(v, e)
       \/ \E c \in Callers :
            /\ PublishMediaUrl(c)
            /\ found[c] = Other \/ (found[c] \in Exts /\ file[vid[c]][found[c]] = 0)]_vars

\* The device has the URL of the active song, or some call is about to send it.
UrlIsDue ==
  active # NoVideo => url = active \/ \E c \in Callers : at[c] # "off" /\ vid[c] = active

\* The device is left with another URL than that of the active song, and nobody
\* is about to send it that one, in two places only, however calls overlap with
\* each other, with the downloads and with the end of the session: where a call
\* that was overtaken since it looked at the active song publishes, and where the
\* wait for the data of the active song times out.
UnservedWhere ==
  [][UrlIsDue /\ ~UrlIsDue' =>
       \E c \in Callers : \/ PublishMediaUrl(c) /\ vid[c] # active
                          \/ TimesOut(c) /\ vid[c] = active]_vars

\* A request whose client keeps reading ends, unless downloads are started for
\* ever: the one it follows ends, and is seen to have ended.
StreamEnds ==
  <>[][downloading' \subseteq downloading]_vars =>
    \A r \in Requests : pump[r] # "off" ~> pump[r] = "off"
===============================================================================
