--------------------------- MODULE StreamerProofs ---------------------------
(***************************************************************************)
(* Theorems about the streamer: OggStream, for every set of songs, callers, *)
(* downloads, requests and extensions and every bound, and StreamSession,   *)
(* for any videos, workers and chunks.  The two share ActiveVideoID         *)
(* (LiveSession).                                                           *)
(***************************************************************************)
EXTENDS OggStream, StreamSession, TLAPS

\* The steps that write files, or remove them.
DiskStep ==
  \/ \E d \in Fetchers : Download(d) \/ \E v \in Videos : DownloadAhead(d, v)
  \/ Prefetch
  \/ \E v \in Videos, e \in Exts : DeleteCacheFile(v, e)

LEMMA DiskSteps == DiskStep => UNCHANGED <<calls, serving>>
BY DEF DiskStep, Download, DownloadAhead, Prefetch, StartBackgroundDownload, LoadOrStore, OpenOutput,
       Grow, DownloadEnds, PrefetchTrack, PrefetchEnds, DeleteCacheFile

\* What the steps of the callers leave alone,
LEMMA CallerSteps ==
  ASSUME NEW c \in Callers, Caller(c) \/ \E v \in Videos : StartStream(c, v)
  PROVE  /\ UNCHANGED <<disk, downloading, serving>>
         /\ job' = job \/ \E d \in Fetchers : Call(d, vid[c])
BY DEF Caller, StartStream, Cached, NotCached, TimesOut, Overtaken, FindCandidate, WaitForData,
       Recheck, PublishMediaUrl, jobs

\* and those of the requests.
LEMMA RequestSteps ==
  ASSUME NEW r \in Requests, Request(r) \/ Disconnect(r) \/ \E v \in Videos : HandleStream(r, v)
  PROVE  UNCHANGED <<disk, jobs, calls>>
BY DEF Request, FindOriginalFile, Read, AskDownloading, FinalRead, Disconnect, HandleStream

-------------------------------------------------------------------------------
(* Types *)

\* The file that a job writes, and the one that a request reads, are files that
\* were made, and no request has read beyond the end of its own.
OpenFiles ==
  /\ \A d \in Fetchers \cup {Prefetcher} : job[d].at = "write" => job[d].out \in 1 .. made
  /\ \A v \in Videos, e \in Exts : file[v][e] <= made
  /\ \A r \in Requests : hold[r] <= made
  /\ \A r \in Requests : pump[r] \in {"read", "ask", "final"} => hold[r] # 0

TypeInv == TypeOK /\ OpenFiles

\* The records that the steps give a job.
LEMMA JobRecords ==
  /\ NoJob \in Jobs /\ NoJob.at = "off"
  /\ \A l \in {"check", "enter", "run", "write"}, v \in Videos, f \in 0 .. MaxFiles :
       /\ Job(l, v, f) \in Jobs
       /\ Job(l, v, f).at = l /\ Job(l, v, f).vid = v /\ Job(l, v, f).out = f
BY OggStreamAssumption DEF NoJob, Job, Jobs, MaybeVideo

LEMMA JobSet ==
  ASSUME TypeOK, NEW d \in Fetchers \cup {Prefetcher}, NEW j \in Jobs, JobTo(d, j)
  PROVE  /\ job' \in [Fetchers \cup {Prefetcher} -> Jobs] /\ job'[d] = j
         /\ \A x \in Fetchers \cup {Prefetcher} : x # d => job'[x] = job[x]
BY DEF TypeOK, JobTo

\* A step that sets one job, and touches no file.
LEMMA JobTypes ==
  ASSUME TypeInv, NEW d \in Fetchers \cup {Prefetcher}, NEW j \in Jobs, JobTo(d, j),
         j.at # "off" => j.vid \in Videos, j.at # "write",
         UNCHANGED <<disk, calls, serving>>, downloading' \subseteq Videos
  PROVE  TypeInv'
BY JobSet DEF TypeInv, TypeOK, OpenFiles, disk, calls, serving

\* A call of StartBackgroundDownload,
LEMMA CallTypes ==
  ASSUME TypeInv, NEW d \in Fetchers, NEW v \in Videos, Call(d, v)
  PROVE  /\ job' \in [Fetchers \cup {Prefetcher} -> Jobs]
         /\ \A x \in Fetchers \cup {Prefetcher} :
              /\ job'[x].at # "off" => job'[x].vid \in Videos
              /\ job'[x].at \in {"run", "write"} => job'[x] = job[x]
<1>1. CASE v \in Fetchable
  <2> DEFINE j == Job("check", v, 0)
  <2>1. j \in Jobs /\ j.at = "check" /\ j.vid = v
    BY JobRecords, OggStreamAssumption
  <2>2. JobTo(d, j) /\ d \in Fetchers \cup {Prefetcher}
    BY <1>1 DEF Call
  <2> HIDE DEF j
  <2>3. /\ job' \in [Fetchers \cup {Prefetcher} -> Jobs] /\ job'[d] = j
        /\ \A x \in Fetchers \cup {Prefetcher} : x # d => job'[x] = job[x]
    BY <2>1, <2>2, JobSet DEF TypeInv
  <2> QED BY <2>1, <2>3 DEF TypeInv, TypeOK
<1>2. CASE v \notin Fetchable
  BY <1>2 DEF Call, TypeInv, TypeOK
<1> QED BY <1>1, <1>2

\* and the callers keep the types,
LEMMA CallerTypes ==
  ASSUME TypeInv, NEW c \in Callers, Caller(c) \/ \E v \in Videos : StartStream(c, v)
  PROVE  TypeInv'
<1>1. UNCHANGED <<disk, downloading, serving>>
  BY CallerSteps
<1> DEFINE Kept == /\ job' \in [Fetchers \cup {Prefetcher} -> Jobs]
                   /\ \A x \in Fetchers \cup {Prefetcher} :
                        /\ job'[x].at # "off" => job'[x].vid \in Videos
                        /\ job'[x].at \in {"run", "write"} => job'[x] = job[x]
<1>2. Kept
  <2>1. CASE job' = job
    BY <2>1 DEF TypeInv, TypeOK
  <2>2. ASSUME NEW d \in Fetchers, Call(d, vid[c]), at[c] # "off" PROVE Kept
    BY <2>2, CallTypes DEF TypeInv, TypeOK
  <2>3. job' = job \/ at[c] # "off"
    BY DEF Caller, StartStream, Cached, NotCached, TimesOut, Overtaken, FindCandidate, WaitForData,
           Recheck, PublishMediaUrl, jobs
  <2>4. job' = job \/ \E d \in Fetchers : Call(d, vid[c])
    BY CallerSteps
  <2> HIDE DEF Kept
  <2> QED BY <2>1, <2>2, <2>3, <2>4
<1>3. OpenFiles'
  BY <1>1, <1>2 DEF TypeInv, OpenFiles, disk, serving
<1>4. TypeOK'
  <2> USE <1>1, <1>2 DEF TypeInv, TypeOK, Goto, Return, disk, serving, MaybeVideo
  <2>1. CASE Cached(c)
    BY <2>1 DEF Cached
  <2>2. CASE NotCached(c)
    BY <2>2 DEF NotCached
  <2>3. CASE TimesOut(c) \/ Overtaken(c)
    BY <2>3 DEF TimesOut, Overtaken
  <2>4. CASE FindCandidate(c)
    BY <2>4 DEF FindCandidate, Original
  <2>5. CASE WaitForData(c) \/ Recheck(c)
    BY <2>5 DEF WaitForData, Recheck
  <2>6. CASE PublishMediaUrl(c)
    BY <2>6 DEF PublishMediaUrl
  <2>7. ASSUME NEW v \in Videos, StartStream(c, v) PROVE TypeOK'
    BY <2>7 DEF StartStream, SetActive
  <2> QED BY <2>1, <2>2, <2>3, <2>4, <2>5, <2>6, <2>7 DEF Caller
<1> QED BY <1>3, <1>4 DEF TypeInv

\* the downloads and removals do,
LEMMA OutputTypes ==
  ASSUME TypeInv, NEW d \in Fetchers \cup {Prefetcher}, OpenOutput(d) \/ Grow(d)
  PROVE  TypeInv'
<1> USE OggStreamAssumption DEF TypeInv, TypeOK, OpenFiles, JobTo, Jobs, calls, serving
<1>1. CASE OpenOutput(d)
  <2> DEFINE j == Job("write", job[d].vid, made + 1)
  <2>1. /\ made + 1 \in 1 .. MaxFiles /\ job[d].vid \in Videos /\ JobTo(d, j)
        /\ made' = made + 1 /\ UNCHANGED <<len, downloading, active, at, vid, found, url>>
        /\ UNCHANGED <<pump, song, hold, pos>>
    <3>1. /\ made < MaxFiles /\ job[d].at = "run" /\ made \in 0 .. MaxFiles
      BY <1>1 DEF OpenOutput
    <3>2. job[d].vid \in Videos
      BY <3>1
    <3> QED BY <1>1, <3>1, <3>2 DEF OpenOutput
  <2>2. PICK e \in Exts : file' = [file EXCEPT ![job[d].vid][e] = made + 1]
    BY <1>1 DEF OpenOutput
  <2>3. file' \in [Videos -> [Exts -> 0 .. MaxFiles]]
    BY <2>1, <2>2
  <2>4. j \in Jobs /\ j.at = "write" /\ j.vid = job[d].vid /\ j.out = made + 1
    BY <2>1, JobRecords
  <2> HIDE DEF j
  <2>5. /\ job' \in [Fetchers \cup {Prefetcher} -> Jobs] /\ job'[d] = j
        /\ \A x \in Fetchers \cup {Prefetcher} : x # d => job'[x] = job[x]
    BY <2>1, <2>4, JobSet
  <2>6. TypeOK'
    BY <2>1, <2>3, <2>4, <2>5
  <2>7. \A v \in Videos, x \in Exts : file'[v][x] <= made'
    BY <2>1, <2>2
  <2>8. \A x \in Fetchers \cup {Prefetcher} : job'[x].at = "write" => job'[x].out \in 1 .. made'
    BY <2>1, <2>4, <2>5
  <2>9. \A r \in Requests : hold[r] <= made + 1
    OBVIOUS
  <2> QED BY <2>1, <2>6, <2>7, <2>8, <2>9
<1>2. CASE Grow(d)
  <2>1. UNCHANGED <<file, made, downloading, job, active, at, vid, found, url, pump, song, hold, pos>>
    BY <1>2 DEF Grow, jobs
  <2>2. len' \in [1 .. MaxFiles -> 0 .. Length]
    <3>1. job[d].out \in 1 .. MaxFiles
      BY <1>2 DEF Grow
    <3>2. len[job[d].out] + 1 \in 0 .. Length
      BY <1>2, <3>1 DEF Grow
    <3> QED BY <1>2, <3>1, <3>2 DEF Grow
  <2> QED BY <2>1, <2>2
<1> QED BY <1>1, <1>2

LEMMA DiskTypes ==
  ASSUME TypeInv, DiskStep
  PROVE  TypeInv'
<1> USE DEF TypeInv
<1>1. ASSUME NEW d \in Fetchers, NEW v \in Videos, DownloadAhead(d, v) PROVE TypeInv'
  <2>1. UNCHANGED <<disk, downloading, calls, serving>> /\ Call(d, v)
    BY <1>1 DEF DownloadAhead
  <2> QED BY <2>1, CallTypes DEF TypeOK, OpenFiles, disk, calls, serving
<1>2. ASSUME NEW d \in Fetchers, StartBackgroundDownload(d) PROVE TypeInv'
  <2>1. PICK j \in {NoJob, Job("enter", job[d].vid, 0)} :
          JobTo(d, j) /\ UNCHANGED <<disk, downloading, calls, serving>>
    BY <1>2 DEF StartBackgroundDownload
  <2>2. job[d] \in Jobs /\ job[d].vid \in Videos
    BY <1>2 DEF StartBackgroundDownload, TypeOK
  <2>3. j \in Jobs /\ j.at # "write" /\ (j.at # "off" => j.vid \in Videos)
    BY <2>1, <2>2, JobRecords, OggStreamAssumption
  <2> QED BY <2>1, <2>3, JobTypes DEF TypeOK
<1>3. ASSUME NEW d \in Fetchers, LoadOrStore(d) PROVE TypeInv'
  <2>1. job[d] \in Jobs /\ job[d].vid \in Videos
    BY <1>3 DEF LoadOrStore, TypeOK
  <2>2. PICK j \in {NoJob, Job("run", job[d].vid, 0)} :
          /\ JobTo(d, j) /\ UNCHANGED <<disk, calls, serving>>
          /\ downloading' \in {downloading, downloading \cup {job[d].vid}}
    BY <1>3 DEF LoadOrStore
  <2>3. j \in Jobs /\ j.at # "write" /\ (j.at # "off" => j.vid \in Videos)
    BY <2>1, <2>2, JobRecords, OggStreamAssumption
  <2> QED BY <2>1, <2>2, <2>3, JobTypes DEF TypeOK
<1>4. ASSUME NEW d \in Fetchers, DownloadEnds(d) PROVE TypeInv'
  <2>1. JobTo(d, NoJob) /\ UNCHANGED <<disk, calls, serving>> /\ downloading' \subseteq downloading
    BY <1>4 DEF DownloadEnds
  <2> QED BY <2>1, JobTypes, JobRecords DEF TypeOK
<1>5. CASE PrefetchEnds
  BY <1>5, JobTypes, JobRecords DEF PrefetchEnds, TypeOK
<1>6. ASSUME NEW v \in Videos, PrefetchTrack(v) PROVE TypeInv'
  <2> DEFINE j == Job("run", v, 0)
  <2>1. JobTo(Prefetcher, j) /\ UNCHANGED <<disk, downloading, calls, serving>>
    BY <1>6 DEF PrefetchTrack
  <2>2. j \in Jobs /\ j.at = "run" /\ j.vid = v
    BY JobRecords, OggStreamAssumption
  <2> QED BY <2>1, <2>2, JobTypes DEF TypeOK
<1>7. ASSUME NEW v \in Videos, NEW e \in Exts, DeleteCacheFile(v, e) PROVE TypeInv'
  <2>1. UNCHANGED <<len, made, jobs, calls, serving>> /\ file' = [file EXCEPT ![v][e] = 0]
    BY <1>7 DEF DeleteCacheFile
  <2>2. file' \in [Videos -> [Exts -> 0 .. MaxFiles]]
    BY <2>1, OggStreamAssumption DEF TypeOK
  <2>3. \A x \in Videos, y \in Exts : file'[x][y] <= made
    <3>1. 0 <= made /\ \A x \in Videos, y \in Exts : file'[x][y] \in {file[x][y], 0}
      BY <2>1 DEF TypeOK
    <3> QED BY <3>1 DEF OpenFiles
  <2> QED BY <2>1, <2>2, <2>3 DEF TypeOK, OpenFiles, jobs, calls, serving
<1> QED BY <1>1, <1>2, <1>3, <1>4, <1>5, <1>6, <1>7, OutputTypes DEF DiskStep, Download, Prefetch

\* and so do requests.
LEMMA RequestTypes ==
  ASSUME TypeInv, NEW r \in Requests,
         Request(r) \/ Disconnect(r) \/ \E v \in Videos : HandleStream(r, v)
  PROVE  TypeInv'
<1>1. UNCHANGED <<disk, jobs, calls>>
  BY RequestSteps
<1> USE <1>1, OggStreamAssumption DEF TypeInv, TypeOK, OpenFiles, PumpTo, MaybeVideo, disk, jobs, calls
<1>8. ASSUME NEW l \in {"read", "ask", "final"}, PumpTo(r, l), UNCHANGED <<song, hold, pos>>,
             song[r] \in Videos, hold[r] # 0
      PROVE  TypeInv'
  <2>1. /\ pump' = [pump EXCEPT ![r] = l]
        /\ pump' \in [Requests -> {"off", "open", "read", "ask", "final"}]
    BY <1>8
  <2>2. \A x \in Requests : pump'[x] # "off" => song'[x] \in Videos
    BY <1>8, <2>1
  <2>3. \A x \in Requests : pump'[x] \in {"read", "ask", "final"} => hold'[x] # 0
    BY <1>8, <2>1
  <2> QED BY <1>8, <2>1, <2>2, <2>3
<1>0. ASSUME EndRequest(r) PROVE TypeInv'
  BY <1>0 DEF EndRequest
<1>2. CASE FindOriginalFile(r)
  <2>1. CASE EndRequest(r)
    BY <2>1, <1>0
  <2>2. ASSUME NEW e \in Original(song[r]), hold' = [hold EXCEPT ![r] = file[song[r]][e]],
               PumpTo(r, "read"), UNCHANGED <<song, pos>>
        PROVE  TypeInv'
    <3>1. song[r] \in Videos /\ e \in Exts /\ file[song[r]][e] # 0
      BY <1>2, <2>2 DEF FindOriginalFile, Original
    <3>2. file[song[r]][e] \in 1 .. MaxFiles /\ file[song[r]][e] <= made
      BY <3>1
    <3> DEFINE f == file[song[r]][e]
    <3> HIDE DEF f
    <3>3. /\ hold' = [hold EXCEPT ![r] = f] /\ f \in 1 .. MaxFiles /\ f <= made
          /\ pump' = [pump EXCEPT ![r] = "read"] /\ UNCHANGED <<song, pos>>
      BY <2>2, <3>2 DEF f
    <3>4. hold' \in [Requests -> 0 .. MaxFiles] /\ \A x \in Requests : hold'[x] <= made
      BY <3>3
    <3>5. \A x \in Requests : pump'[x] \in {"read", "ask", "final"} => hold'[x] # 0
      BY <3>3
    <3>6. /\ pump' \in [Requests -> {"off", "open", "read", "ask", "final"}]
          /\ \A x \in Requests : pump'[x] # "off" => song'[x] \in Videos
      BY <3>1, <3>3
    <3> QED BY <3>3, <3>4, <3>5, <3>6
  <2> QED BY <1>2, <2>1, <2>2 DEF FindOriginalFile
<1>3. CASE Read(r)
  <2>1. hold[r] \in 1 .. MaxFiles /\ len[hold[r]] \in 0 .. Length /\ song[r] \in Videos
    BY <1>3 DEF Read
  <2>2. CASE PumpTo(r, "ask") /\ UNCHANGED <<song, hold, pos>>
    <3>1. song[r] \in Videos /\ hold[r] # 0
      BY <2>1
    <3> QED BY <1>8, <2>2, <3>1
  <2>3. CASE /\ pos[r] < len[hold[r]] /\ pos' = [pos EXCEPT ![r] = @ + 1]
             /\ UNCHANGED <<pump, song, hold>>
    <3>1. pos[r] + 1 \in 0 .. Length
      BY <2>1, <2>3
    <3> QED BY <2>3, <3>1
  <2> QED BY <1>3, <2>2, <2>3 DEF Read
<1>4. CASE AskDownloading(r)
  <2>1. /\ pump[r] = "ask" /\ UNCHANGED <<song, hold, pos>>
        /\ PumpTo(r, "read") \/ PumpTo(r, "final")
        /\ song[r] \in Videos /\ hold[r] # 0
    BY <1>4 DEF AskDownloading
  <2> QED BY <1>8, <2>1
<1>5. CASE FinalRead(r)
  BY <1>0, <1>5 DEF FinalRead
<1>6. CASE Disconnect(r)
  BY <1>0, <1>6 DEF Disconnect
<1>7. ASSUME NEW v \in Videos, HandleStream(r, v) PROVE TypeInv'
  BY <1>7 DEF HandleStream
<1> QED BY <1>2, <1>3, <1>4, <1>5, <1>6, <1>7 DEF Request

\* The parts of Next.
LEMMA NextParts ==
  ASSUME Next
  PROVE  \/ DiskStep \/ ClearSession
         \/ \E c \in Callers : Caller(c) \/ \E v \in Videos : StartStream(c, v)
         \/ \E r \in Requests : Request(r) \/ Disconnect(r) \/ \E v \in Videos : HandleStream(r, v)
BY DEF Next, DiskStep

THEOREM StreamTypes == Spec => []TypeInv
<1>1. Init => TypeInv
  BY OggStreamAssumption, JobRecords DEF Init, TypeInv, TypeOK, OpenFiles, MaybeVideo
<1>2. TypeInv /\ [Next]_vars => TypeInv'
  <2>1. TypeInv /\ UNCHANGED vars => TypeInv'
    BY DEF TypeInv, TypeOK, OpenFiles, vars
  <2>2. TypeInv /\ ClearSession => TypeInv'
    BY DEF TypeInv, TypeOK, OpenFiles, ClearSession, ResetActive, MaybeVideo, disk, jobs, serving
  <2> QED BY <2>1, <2>2, NextParts, CallerTypes, DiskTypes, RequestTypes
<1> QED BY <1>1, <1>2, PTL DEF Spec

-------------------------------------------------------------------------------
(* The URL *)

\* A call that is about to publish has found a file.
FoundBeforePublished == \A c \in Callers : at[c] \in {"recheck", "publish"} => found[c] # None

LEMMA FoundHolds == Spec => []FoundBeforePublished
<1>1. Init => FoundBeforePublished
  BY DEF Init, FoundBeforePublished
<1>2. TypeInv /\ FoundBeforePublished /\ [Next]_vars => FoundBeforePublished'
  <2> SUFFICES ASSUME TypeInv, FoundBeforePublished, [Next]_vars PROVE FoundBeforePublished'
    OBVIOUS
  <2> USE DEF TypeInv, TypeOK, FoundBeforePublished
  <2>1. ASSUME NEW c \in Callers, Caller(c) PROVE FoundBeforePublished'
    <3> USE OggStreamAssumption DEF Goto, Return
    <3>1. CASE Cached(c)
      BY <3>1 DEF Cached
    <3>2. CASE NotCached(c)
      BY <3>2 DEF NotCached
    <3>3. CASE TimesOut(c) \/ Overtaken(c)
      BY <3>3 DEF TimesOut, Overtaken
    <3>4. CASE FindCandidate(c)
      BY <3>4 DEF FindCandidate, Original
    <3>5. CASE WaitForData(c) \/ Recheck(c)
      BY <3>5 DEF WaitForData, Recheck
    <3>6. CASE PublishMediaUrl(c)
      BY <3>6 DEF PublishMediaUrl
    <3> QED BY <2>1, <3>1, <3>2, <3>3, <3>4, <3>5, <3>6 DEF Caller
  <2>2. ASSUME NEW c \in Callers, NEW v \in Videos, StartStream(c, v) PROVE FoundBeforePublished'
    BY <2>2 DEF StartStream, Goto
  <2>3. CASE UNCHANGED <<at, found>>
    BY <2>3
  <2>4. /\ UNCHANGED vars => UNCHANGED <<at, found>>
        /\ UNCHANGED calls => UNCHANGED <<at, found>>
        /\ ClearSession => UNCHANGED <<at, found>>
    BY DEF vars, calls, ClearSession
  <2> QED BY <2>1, <2>2, <2>3, <2>4, NextParts, DiskSteps, RequestSteps
<1> QED BY <1>1, <1>2, StreamTypes, PTL DEF Spec

\* Whatever overlaps, the URL loses its file, or is published without one, in the
\* three named places only: files are removed by removals only, and whoever
\* publishes has found a file, under a name that handleStream may not look for.
THEOREM BrokenInThreePlaces == Spec => BrokenWhere
<1> DEFINE Lost ==
      \/ \E v \in Videos, e \in Exts : v = url /\ DeleteCacheFile(v, e)
      \/ \E c \in Callers :
           /\ PublishMediaUrl(c)
           /\ found[c] = Other \/ (found[c] \in Exts /\ file[vid[c]][found[c]] = 0)
<1>1. TypeInv /\ FoundBeforePublished /\ [Next]_vars => [~Broken /\ Broken' => Lost]_vars
  <2> SUFFICES ASSUME TypeInv, FoundBeforePublished, [Next]_vars, Broken', ~Lost PROVE Broken
    OBVIOUS
  <2> USE DEF TypeInv, TypeOK, Broken
  <2>1. CASE UNCHANGED <<file, url>>
    BY <2>1
  <2>2. ASSUME NEW c \in Callers, Caller(c) \/ \E v \in Videos : StartStream(c, v) PROVE Broken
    <3>1. CASE PublishMediaUrl(c)
      <4>1. url' = vid[c] /\ file' = file /\ vid[c] \in Videos /\ found[c] \in Exts \cup {Other}
        BY <3>1 DEF PublishMediaUrl, FoundBeforePublished, disk
      <4> QED BY <3>1, <4>1
    <3>2. CASE ~PublishMediaUrl(c)
      BY <2>1, <2>2, <3>2 DEF Caller, StartStream, Cached, NotCached, TimesOut, Overtaken,
                              FindCandidate, WaitForData, Recheck, disk
    <3> QED BY <3>1, <3>2
  <2>3. CASE DiskStep
    <3>1. url' = url
      BY <2>3, DiskSteps DEF calls
    <3>2. ASSUME NEW d \in Fetchers \cup {Prefetcher}, OpenOutput(d) PROVE Broken
      <4>1. PICK e \in Exts : file' = [file EXCEPT ![job[d].vid][e] = made + 1]
        BY <3>2, OggStreamAssumption DEF OpenOutput
      <4>2. made + 1 # 0
        BY OggStreamAssumption
      <4> QED BY <3>1, <4>1, <4>2 DEF MaybeVideo
    <3>3. ASSUME NEW v \in Videos, NEW e \in Exts, DeleteCacheFile(v, e) PROVE Broken
      <4>1. v # url /\ file' = [file EXCEPT ![v][e] = 0]
        BY <3>3 DEF DeleteCacheFile
      <4> QED BY <3>1, <4>1 DEF MaybeVideo
    <3> QED BY <2>1, <2>3, <3>1, <3>2, <3>3
            DEF DiskStep, Download, DownloadAhead, Prefetch, StartBackgroundDownload, LoadOrStore,
                Grow, DownloadEnds, PrefetchTrack, PrefetchEnds, disk
  <2>4. /\ UNCHANGED vars => UNCHANGED <<file, url>>
        /\ UNCHANGED <<disk, calls>> => UNCHANGED <<file, url>>
        /\ ClearSession => UNCHANGED <<file, url>>
    BY DEF vars, disk, calls, ClearSession
  <2> QED BY <2>1, <2>2, <2>3, <2>4, NextParts, RequestSteps
<1> QED BY <1>1, StreamTypes, FoundHolds, PTL DEF Spec, BrokenWhere

\* Whatever overlaps, the device is left without the URL of the active song in
\* the two named places only: every other step leaves the call that is to send
\* it on its way, or sends it.
THEOREM UnservedInTwoPlaces == Spec => UnservedWhere
<1> DEFINE Lost == \E c \in Callers : \/ PublishMediaUrl(c) /\ vid[c] # active
                                      \/ TimesOut(c) /\ vid[c] = active
<1>1. TypeInv /\ [Next]_vars => [UrlIsDue /\ ~UrlIsDue' => Lost]_vars
  <2> SUFFICES ASSUME TypeInv, [Next]_vars, UrlIsDue, ~Lost PROVE UrlIsDue'
    OBVIOUS
  <2> USE DEF TypeInv, TypeOK, UrlIsDue, Goto, Return
  <2>1. ASSUME NEW c \in Callers, Caller(c) PROVE UrlIsDue'
    <3>1. CASE Cached(c)
      BY <3>1 DEF Cached
    <3>2. CASE NotCached(c)
      BY <3>2 DEF NotCached
    <3>3. CASE TimesOut(c)
      BY <3>3 DEF TimesOut
    <3>4. CASE Overtaken(c)
      BY <3>4 DEF Overtaken
    <3>5. CASE FindCandidate(c)
      BY <3>5 DEF FindCandidate
    <3>6. CASE WaitForData(c)
      BY <3>6 DEF WaitForData
    <3>7. CASE Recheck(c)
      BY <3>7 DEF Recheck
    <3>8. CASE PublishMediaUrl(c)
      BY <3>8 DEF PublishMediaUrl
    <3> QED BY <2>1, <3>1, <3>2, <3>3, <3>4, <3>5, <3>6, <3>7, <3>8 DEF Caller
  <2>2. ASSUME NEW c \in Callers, NEW v \in Videos, StartStream(c, v) PROVE UrlIsDue'
    BY <2>2 DEF StartStream, SetActive
  <2>3. CASE ClearSession
    BY <2>3 DEF ClearSession, ResetActive
  <2>4. CASE UNCHANGED calls
    BY <2>4 DEF calls
  <2>5. UNCHANGED vars => UNCHANGED calls
    BY DEF vars, calls
  <2> QED BY <2>1, <2>2, <2>3, <2>4, <2>5, NextParts, DiskSteps, RequestSteps
<1> QED BY <1>1, StreamTypes, PTL DEF Spec, UnservedWhere

-------------------------------------------------------------------------------
(* The loop that feeds ffmpeg *)

\* activeDownloads has the video of every worker, and no two workers have the
\* same one; what a request reads to its end is written by none.
OneWorker ==
  /\ \A d \in Fetchers : job[d].at \in {"run", "write"} => job[d].vid \in downloading
  /\ \A d, x \in Fetchers :
       /\ job[d].at \in {"run", "write"} /\ job[x].at \in {"run", "write"}
       /\ job[d].vid = job[x].vid
       => d = x
  /\ PumpStaysWhileGrowing

\* However often the song is started and downloaded again, and whatever becomes
\* of its files meanwhile: isDownloading is asked before the last read, and a
\* download that begins after the answer makes a file of its own.
THEOREM PumpStays == Spec => []PumpStaysWhileGrowing
<1>1. Init => OneWorker
  BY JobRecords DEF Init, OneWorker, PumpStaysWhileGrowing
<1>2. TypeInv /\ OneWorker /\ [Next]_vars => OneWorker'
  <2> SUFFICES ASSUME TypeInv, OneWorker, [Next]_vars PROVE OneWorker'
    OBVIOUS
  <2>0. TypeOK /\ OpenFiles
    BY DEF TypeInv
  <2> USE DEF OneWorker, PumpStaysWhileGrowing
  \* Steps that leave the jobs at work alone, or end one.
  <2>1. ASSUME UNCHANGED <<pump, song, hold>>, downloading' = downloading,
               \A x \in Fetchers : job'[x] = job[x] \/ job'[x].at \notin {"run", "write"}
        PROVE  OneWorker'
    BY <2>1
  <2>2. ASSUME NEW d \in Fetchers, NEW v \in Videos, Call(d, v), UNCHANGED <<pump, song, hold>>,
               downloading' = downloading
        PROVE  OneWorker'
    <3>1. \A x \in Fetchers : job'[x].at \in {"run", "write"} => job'[x] = job[x]
      BY <2>2, CallTypes
    <3> QED BY <2>1, <2>2, <3>1
  <2>3. ASSUME NEW c \in Callers, Caller(c) \/ \E v \in Videos : StartStream(c, v)
        PROVE  OneWorker'
    <3>1. UNCHANGED <<pump, song, hold, downloading>>
      BY <2>3, CallerSteps DEF serving
    <3>2. job' = job \/ (at[c] # "off" /\ \E d \in Fetchers : Call(d, vid[c]))
      BY <2>3 DEF Caller, StartStream, Cached, NotCached, TimesOut, Overtaken, FindCandidate,
                  WaitForData, Recheck, PublishMediaUrl, jobs
    <3>3. at[c] # "off" => vid[c] \in Videos
      BY <2>0 DEF TypeOK
    <3> QED BY <2>1, <2>2, <3>1, <3>2, <3>3
  <2>4. CASE DiskStep
    <3>0. UNCHANGED <<pump, song, hold>>
      BY <2>4, DiskSteps DEF serving
    <3> USE <3>0
    <3>1. ASSUME NEW d \in Fetchers, NEW v \in Videos, DownloadAhead(d, v) PROVE OneWorker'
      BY <2>2, <3>1 DEF DownloadAhead
    <3>2. ASSUME NEW d \in Fetchers, StartBackgroundDownload(d) PROVE OneWorker'
      <4>1. PICK j \in {NoJob, Job("enter", job[d].vid, 0)} : JobTo(d, j)
        BY <3>2 DEF StartBackgroundDownload
      <4>2. j \in Jobs /\ j.at \in {"off", "enter"}
        <5>1. job[d].vid \in Videos
          BY <2>0, <3>2 DEF StartBackgroundDownload, TypeOK
        <5> QED BY <4>1, <5>1, JobRecords, OggStreamAssumption
      <4>3. /\ downloading' = downloading /\ job'[d].at \in {"off", "enter"}
            /\ \A x \in Fetchers : x # d => job'[x] = job[x]
        BY <2>0, <3>2, <4>1, <4>2, JobSet DEF StartBackgroundDownload
      <4> QED BY <2>1, <4>3
    <3>3. ASSUME NEW d \in Fetchers, LoadOrStore(d) PROVE OneWorker'
      <4>1. CASE job[d].vid \in downloading
        <5>1. JobTo(d, NoJob) /\ downloading' = downloading
          BY <3>3, <4>1 DEF LoadOrStore
        <5>2. job'[d].at = "off" /\ \A x \in Fetchers : x # d => job'[x] = job[x]
          BY <2>0, <5>1, JobSet, JobRecords
        <5> QED BY <2>1, <5>1, <5>2
      <4>2. CASE job[d].vid \notin downloading
        <5> DEFINE j == Job("run", job[d].vid, 0)
        <5>1. JobTo(d, j) /\ downloading' = downloading \cup {job[d].vid}
          BY <3>3, <4>2 DEF LoadOrStore
        <5>2. j \in Jobs /\ j.at = "run" /\ j.vid = job[d].vid
          BY <2>0, <3>3, JobRecords, OggStreamAssumption DEF LoadOrStore, TypeOK
        <5> HIDE DEF j
        <5>3. job'[d] = j /\ \A x \in Fetchers : x # d => job'[x] = job[x]
          BY <2>0, <5>1, <5>2, JobSet
        <5> QED BY <4>2, <5>1, <5>2, <5>3
      <4> QED BY <4>1, <4>2
    <3>4. ASSUME NEW d \in Fetchers, DownloadEnds(d) PROVE OneWorker'
      <4>1. /\ JobTo(d, NoJob) /\ downloading' = downloading \ {job[d].vid}
            /\ job[d].at \in {"run", "write"}
        BY <3>4 DEF DownloadEnds
      <4>2. job'[d].at = "off" /\ \A x \in Fetchers : x # d => job'[x] = job[x]
        BY <2>0, <4>1, JobSet, JobRecords
      <4> QED BY <4>1, <4>2
    <3>5. ASSUME NEW d \in Fetchers, OpenOutput(d) PROVE OneWorker'
      <4> DEFINE j == Job("write", job[d].vid, made + 1)
      <4>1. JobTo(d, j) /\ job[d].at = "run" /\ downloading' = downloading /\ made < MaxFiles
        BY <3>5 DEF OpenOutput
      <4>2. j \in Jobs /\ j.at = "write" /\ j.vid = job[d].vid /\ j.out = made + 1
        BY <2>0, <4>1, JobRecords, OggStreamAssumption DEF TypeOK
      <4> HIDE DEF j
      <4>3. job'[d] = j /\ \A x \in Fetchers : x # d => job'[x] = job[x]
        BY <2>0, <4>1, <4>2, JobSet
      <4>4. \A r \in Requests : hold[r] # made + 1
        BY <2>0, OggStreamAssumption DEF OpenFiles, TypeOK
      <4> QED BY <4>1, <4>2, <4>3, <4>4
    <3>6. CASE OpenOutput(Prefetcher) \/ PrefetchEnds \/ \E v \in Videos : PrefetchTrack(v)
      <4>1. downloading' = downloading /\ \A x \in Fetchers : job'[x] = job[x]
        BY <2>0, <3>6, OggStreamAssumption DEF OpenOutput, PrefetchEnds, PrefetchTrack, JobTo, TypeOK
      <4> QED BY <2>1, <4>1
    <3>7. CASE \/ \E d \in Fetchers \cup {Prefetcher} : Grow(d)
               \/ \E v \in Videos, e \in Exts : DeleteCacheFile(v, e)
      BY <2>1, <3>7 DEF Grow, DeleteCacheFile, jobs
    <3> QED BY <2>4, <3>1, <3>2, <3>3, <3>4, <3>5, <3>6, <3>7 DEF DiskStep, Download, Prefetch
  <2>5. ASSUME NEW r \in Requests,
               Request(r) \/ Disconnect(r) \/ \E v \in Videos : HandleStream(r, v)
        PROVE  OneWorker'
    <3>1. UNCHANGED <<downloading, job>>
      BY <2>5, RequestSteps DEF jobs
    <3> USE <2>0, <3>1 DEF PumpTo, TypeOK
    <3>0. ASSUME EndRequest(r) PROVE OneWorker'
      BY <3>0 DEF EndRequest
    <3>2. CASE FindOriginalFile(r)
      <4>1. CASE EndRequest(r)
        BY <3>0, <4>1
      <4>2. CASE PumpTo(r, "read") /\ song' = song /\ \A x \in Requests : x # r => hold'[x] = hold[x]
        BY <4>2
      <4> QED BY <3>2, <4>1, <4>2 DEF FindOriginalFile
    <3>3. CASE Read(r)
      BY <3>3 DEF Read
    <3>4. CASE AskDownloading(r)
      BY <3>4 DEF AskDownloading
    <3>5. CASE FinalRead(r)
      BY <3>0, <3>5 DEF FinalRead
    <3>6. CASE Disconnect(r)
      BY <3>0, <3>6 DEF Disconnect
    <3>7. ASSUME NEW v \in Videos, HandleStream(r, v) PROVE OneWorker'
      BY <3>7 DEF HandleStream
    <3> QED BY <2>5, <3>2, <3>3, <3>4, <3>5, <3>6, <3>7 DEF Request
  <2>6. CASE ClearSession \/ UNCHANGED vars
    BY <2>1, <2>6 DEF vars, ClearSession, jobs, serving
  <2> QED BY <2>3, <2>4, <2>5, <2>6, NextParts
<1>3. OneWorker => PumpStaysWhileGrowing
  BY DEF OneWorker
<1> QED BY <1>1, <1>2, <1>3, StreamTypes, PTL DEF Spec

-------------------------------------------------------------------------------
(* The session *)

\* The type invariant, with what the expiry worker relies on: a session is
\* paused exactly while its pause has a date, whatever overlaps.
THEOREM SessionTypes == SessionSpec => []SessionTypeOK
<1> USE StreamSessionAssumption DEF MaybeVideo, SetActive, ResetActive
<1>1. Nothing \in Tracks
  BY DEF Nothing, Tracks
<1>2. SessionInit => SessionTypeOK
  BY <1>1 DEF SessionInit, SessionTypeOK
<1>3. SessionTypeOK /\ [SessionNext]_sessionVars => SessionTypeOK'
  <2> SUFFICES ASSUME SessionTypeOK, [SessionNext]_sessionVars PROVE SessionTypeOK'
    OBVIOUS
  <2> USE <1>1 DEF SessionTypeOK, GoOn, session, assistant
  <2>1. ASSUME NEW w \in Workers, NEW k \in Chunks, Pause(w, k) PROVE SessionTypeOK'
    <3>1. [vid |-> NoVideo, chunk |-> k] \in Tracks
      BY DEF Tracks
    <3> QED
      BY <2>1, <3>1 DEF Pause
  <2>2. ASSUME NEW w \in Workers, SavePause(w) PROVE SessionTypeOK'
    <3>1. arg[w].chunk \in Chunks
      BY DEF Tracks
    <3> QED
      BY <2>2, <3>1 DEF SavePause
  <2>3. ASSUME NEW w \in Workers, Resume(w) PROVE SessionTypeOK'
    BY <2>3 DEF Resume
  <2>4. ASSUME NEW w \in Workers, GetPausedSession(w) PROVE SessionTypeOK'
    <3>1. [vid |-> active, chunk |-> lastChunk] \in Tracks
      BY DEF Tracks
    <3> QED
      BY <2>4, <3>1 DEF GetPausedSession
  <2>5. ASSUME NEW w \in Workers, StartResumed(w) PROVE SessionTypeOK'
    <3>1. arg[w].vid \in MaybeVideo
      BY DEF Tracks
    <3> QED
      BY <2>5, <3>1 DEF StartResumed, Stream
  <2>6. ASSUME NEW v \in Videos, StartTrack(v) PROVE SessionTypeOK'
    BY <2>6 DEF StartTrack, Stream
  <2>7. CASE \/ AssistantPause \/ AssistantPlay
             \/ QueueCommand \/ StopAll
    BY <2>7 DEF AssistantPause, AssistantPlay, QueueCommand,
                StopAll
  <2>8. CASE PauseGrowsOld \/ ExpiryWorker
    BY <2>8 DEF PauseGrowsOld, ExpiryWorker, ExpiryTick,
                ExpiryClear
  <2>9. CASE UNCHANGED sessionVars
    BY <2>9 DEF sessionVars
  <2> QED
    BY <2>1, <2>2, <2>3, <2>4, <2>5, <2>6, <2>7, <2>8, <2>9
       DEF SessionNext, Continue
<1> QED
  BY <1>2, <1>3, PTL DEF SessionSpec

\* No note of the assistant's outlives its conversation, however pause, resume
\* and the queue's commands overlap with it: wasPlayingBeforeAssistant is set
\* only in a section that finds or makes assistantActive TRUE.
THEOREM NoteEndsWithConversation == SessionSpec => []NotedForAssistant
<1>1. SessionInit => NotedForAssistant
  BY DEF SessionInit, NotedForAssistant
<1>2. NotedForAssistant /\ [SessionNext]_sessionVars => NotedForAssistant'
  <2> SUFFICES ASSUME NotedForAssistant, [SessionNext]_sessionVars
               PROVE  NotedForAssistant'
    OBVIOUS
  <2> USE DEF NotedForAssistant, assistant
  <2>1. ASSUME NEW w \in Workers, NEW k \in Chunks, Pause(w, k)
        PROVE  NotedForAssistant'
    BY <2>1 DEF Pause
  <2>2. ASSUME NEW w \in Workers, Resume(w) PROVE NotedForAssistant'
    BY <2>2 DEF Resume
  <2>3. ASSUME NEW w \in Workers, Continue(w) PROVE NotedForAssistant'
    BY <2>3 DEF Continue, SavePause, GetPausedSession,
                StartResumed
  <2>4. CASE \/ AssistantPause \/ AssistantPlay
             \/ QueueCommand \/ StopAll
    BY <2>4 DEF AssistantPause, AssistantPlay, QueueCommand,
                StopAll
  <2>5. CASE PauseGrowsOld \/ ExpiryWorker
    BY <2>5 DEF PauseGrowsOld, ExpiryWorker, ExpiryTick,
                ExpiryClear
  <2>6. ASSUME NEW v \in Videos, StartTrack(v) PROVE NotedForAssistant'
    BY <2>6 DEF StartTrack, Stream, SetActive
  <2>7. CASE UNCHANGED sessionVars
    BY <2>7 DEF sessionVars
  <2> QED
    BY <2>1, <2>2, <2>3, <2>4, <2>5, <2>6, <2>7 DEF SessionNext
<1> QED
  BY <1>1, <1>2, PTL DEF SessionSpec
===============================================================================
