------------------------------ MODULE MediaCache ------------------------------
(***************************************************************************)
(* The files of the media directory and the tables that track them          *)
(* (src/internal/db/media.go): the goroutines that register a file          *)
(* (resolver.go, handler.go, SyncCacheDir), the eviction passes             *)
(* (src/internal/eviction/worker.go) and clear_cache (router.go).           *)
(*                                                                         *)
(* A statement of the database and a call on the file system are one step.  *)
(* The media of a video are one file, and that is its length: of two files   *)
(* under different extensions, the later one.  Beside it there may be the    *)
(* thumbnail, which Resolve saves as V.jpg and which a row may name in its   *)
(* place; whether it is there is left open.  last_accessed_at is kept as the *)
(* order it puts the rows in; its seconds are taken as distinct.            *)
(***************************************************************************)
EXTENDS Integers, Sequences, SequencesExt, FiniteSetsExt, Functions

CONSTANTS
  Videos,       \* the video_ids
  NoVideo,      \* ActiveVideoID = ""
  SizeOf,       \* [Videos -> the length of the whole file]
  ThumbSize,    \* the length of a thumbnail
  MaxBytes,     \* CACHE_MAX_BYTES
  Worker,       \* the goroutine of the eviction worker
  Clearers,     \* the goroutines of clear_cache commands
  Writers,      \* the goroutines of StartStream
  Prefetcher,   \* the prefetch worker
  Syncer,       \* the goroutine of SyncCacheDir
  Commands,     \* which of "touch", "clear", "busy", "fail", "crash", "prefetch" may happen
  MaxEvents     \* bound: tracks started or prefetched, videos cleared, failures, crashes

ASSUME MediaCacheAssumption ==
  /\ NoVideo \notin Videos /\ Worker \notin Clearers
  /\ Prefetcher \notin Writers /\ Syncer \notin Writers \cup {Prefetcher}
  /\ SizeOf \in [Videos -> Nat \ {0}] /\ ThumbSize \in Nat /\ MaxBytes \in Nat
  /\ Commands \subseteq {"touch", "clear", "busy", "fail", "crash", "prefetch"}

VARIABLES
  disk,     \* [Videos -> length of the file, 0 if there is none]
  lru,      \* media_cache, by last_accessed_at
  size,     \* file_size_bytes of the rows
  path,     \* the videos whose file_path in song_cache is set
  thumbs,   \* the rows of "media" (media_cache) and "song" (song_cache) whose file_path
            \* is that of the thumbnail
  active,   \* ActiveVideoID
  downloads,\* activeDownloads
  pass,     \* [Passes -> an eviction pass]
  writer,   \* [Writers, Prefetcher and Syncer -> the file being registered]
  sync,     \* SyncCacheDir: where it is, and the files it has still to look at
  events    \* how many of them there were

tables == <<lru, size, path, thumbs>>
vars   == <<disk, lru, size, path, thumbs, active, downloads, pass, writer, sync, events>>

Names  == Writers \cup {Prefetcher, Syncer}
Passes == Clearers \cup {Worker}

\* What a goroutine that registers a file may have still to do.
Todos == {<<>>, <<"resolve">>, <<"download">>, <<"fetch">>, <<"grow">>,
          <<"stat", "upsert">>, <<"upsert">>,
          <<"stat", "mark", "upsert">>, <<"mark", "upsert">>,
          <<"stat", "upsert", "mark">>, <<"upsert", "mark">>, <<"mark">>,
          <<"stat", "upsert", "exit">>, <<"upsert", "exit">>, <<"exit">>}

MaybeVideo == Videos \cup {NoVideo}

\* A goroutine with steps to do about the file of v, the thumbnail or another one.
Busy(steps, v) == [todo |-> steps, vid |-> v, len |-> 0, thumb |-> FALSE]
Idle  == Busy(<<>>, NoVideo)
Rest  == [at |-> "rest", rows |-> <<>>, active |-> NoVideo, excess |-> 0]

Bytes(S) == MapThenSumSet(LAMBDA v : size[v], S)
Total    == Bytes(ToSet(lru))

Event == events < MaxEvents /\ events' = events + 1

FilesOK ==
  /\ disk \in [Videos -> Nat] /\ \A v \in Videos : disk[v] <= SizeOf[v]
  /\ lru \in Seq(Videos) /\ IsInjective(lru)
  /\ size \in [Videos -> Nat] /\ \A v \in Videos : v \notin ToSet(lru) => size[v] = 0
  /\ path \subseteq Videos
  /\ thumbs \subseteq ({"media"} \X ToSet(lru)) \cup ({"song"} \X path)
  /\ active \in MaybeVideo

PassesOK ==
  /\ pass \in [Passes -> [at : {"rest", "rows", "active", "files", "row"}, rows : Seq(Videos),
                          active : MaybeVideo, excess : Nat]]
  /\ \A p \in Passes : /\ pass[p].rows = <<>> <=> pass[p].at \in {"rest", "rows"}
                       /\ IsInjective(pass[p].rows)
                       /\ pass[p].excess > 0 <=> pass[p].at = "rows"

WritersOK ==
  /\ writer \in [Names -> [todo : Todos, vid : MaybeVideo, len : Nat, thumb : BOOLEAN]]
  /\ \A n \in Names : writer[n].todo = <<>> <=> writer[n].vid = NoVideo

TypeOK ==
  /\ FilesOK /\ PassesOK /\ WritersOK
  /\ downloads \subseteq Videos
  /\ sync \in [at : {"dir", "report", "files", "done"}, left : SUBSET Videos]
  /\ events \in Nat

\* A program that runs: SyncCacheDir is done, every file is registered.  (After
\* a crash it starts again, beside whatever the crash has left.)
Init ==
  /\ lru \in {s \in UNION {[1 .. n -> Videos] : n \in 0 .. Cardinality(Videos)} : IsInjective(s)}
  /\ disk = [v \in Videos |-> IF v \in ToSet(lru) THEN SizeOf[v] ELSE 0]
  /\ size = [v \in Videos |-> IF v \in ToSet(lru) THEN SizeOf[v] ELSE 0]
  /\ path = ToSet(lru)
  /\ thumbs = {}
  /\ active = NoVideo
  /\ downloads = {}
  /\ pass = [p \in Passes |-> Rest]
  /\ writer = [n \in Names |-> Idle]
  /\ sync = [at |-> "done", left |-> {}]
  /\ events = 0

-------------------------------------------------------------------------------
(* Registration of a file *)

Todo(n, step)  == writer[n].todo # <<>> /\ Head(writer[n].todo) = step
\* What n does next, and whether it does it to the thumbnail.
Turn(n, steps, t) ==
  writer' = [writer EXCEPT ![n] = IF steps = <<>> THEN Idle
                                  ELSE [@ EXCEPT !.todo = steps, !.thumb = t]]
Then(n, steps) == Turn(n, steps, writer[n].thumb)
Done(n)        == Then(n, <<>>)

\* The row of that table now names the file that n registers.
Named(n, table) ==
  LET row == <<table, writer[n].vid>>
  IN  IF writer[n].thumb THEN thumbs \cup {row} ELSE thumbs \ {row}

StartStream(w, v) ==
  /\ writer[w] = Idle
  /\ Event
  /\ active' = v
  /\ writer' = [writer EXCEPT ![w] = Busy(<<"resolve">>, v)]
  /\ UNCHANGED <<disk, tables, downloads, pass, sync>>

\* media_cache first, then song_cache, then the directory; what was found in
\* the second or third place is entered in the places before.  A row counts if
\* the file it names is there.
ResolveCachedPath(w) ==
  /\ Todo(w, "resolve")
  /\ LET v == writer[w].vid
         Leads(table, rows) == CASE v \notin rows         -> {FALSE}
                                 [] <<table, v>> \in thumbs -> BOOLEAN
                                 [] OTHER                   -> {disk[v] > 0}
     IN  \E media \in Leads("media", ToSet(lru)), song \in Leads("song", path) :
           \/ media /\ Done(w)
           \/ ~media /\ song /\ Turn(w, <<"stat", "upsert">>, <<"song", v>> \in thumbs)
           \/ ~media /\ ~song /\ disk[v] > 0 /\ Then(w, <<"stat", "mark", "upsert">>)
           \/ ~media /\ ~song /\ disk[v] = 0 /\ Then(w, <<"download">>)
  /\ UNCHANGED <<disk, tables, active, downloads, pass, sync, events>>

\* On disk by now as V.webm or V.mkv: registered.  Being downloaded: left to that
\* download.  A file under another extension is not looked for.  The track that
\* StartStream makes up has no Query, so that MarkFileDownloaded, which looks for
\* it in song_cache, finds no row.
StartBackgroundDownload(w) ==
  /\ Todo(w, "download")
  /\ LET v == writer[w].vid
     IN  \/ disk[v] > 0 /\ Then(w, <<"stat", "upsert">>) /\ UNCHANGED downloads
         \/ v \in downloads /\ Done(w) /\ UNCHANGED downloads
         \/ v \notin downloads /\ Then(w, <<"fetch">>) /\ downloads' = downloads \cup {v}
  /\ UNCHANGED <<disk, tables, active, pass, sync, events>>

\* The prefetch worker takes a row of the queue.
PrefetchTrack(v) ==
  /\ "prefetch" \in Commands
  /\ writer[Prefetcher] = Idle
  /\ Event
  /\ writer' = [writer EXCEPT ![Prefetcher] = Busy(<<"fetch">>, v)]
  /\ UNCHANGED <<disk, tables, active, downloads, pass, sync>>

\* yt-dlp opens its output file, unless it is there, and later has written all
\* of it.  A file that was removed meanwhile does not come back, and the
\* download has failed.
FetchBegins(w) ==
  /\ Todo(w, "fetch")
  /\ disk' = [disk EXCEPT ![writer[w].vid] = IF @ = 0 THEN 1 ELSE @]
  /\ Then(w, <<"grow">>)
  /\ UNCHANGED <<tables, active, downloads, pass, sync, events>>

\* Mutant of FetchEnds: the file is not registered.
FetchEndsQuietly(w) ==
  /\ Todo(w, "grow")
  /\ disk' = [disk EXCEPT ![writer[w].vid] = IF @ = 0 THEN 0 ELSE SizeOf[writer[w].vid]]
  /\ Then(w, IF w = Prefetcher THEN <<>> ELSE <<"exit">>)
  /\ UNCHANGED <<tables, active, downloads, pass, sync, events>>

\* downloadWorker registers its output and leaves activeDownloads in the end.  The
\* prefetch worker has not entered it, knows the song by its video_id and
\* registers the first file in the directory that begins with that: the thumbnail,
\* if there is one, comes before most media, and when they have gone.
FetchEnds(w) ==
  /\ Todo(w, "grow")
  /\ LET v == writer[w].vid
     IN  \/ /\ disk[v] > 0
            /\ disk' = [disk EXCEPT ![v] = SizeOf[v]]
            /\ \/ w # Prefetcher /\ Then(w, <<"stat", "upsert", "exit">>)
               \/ w = Prefetcher /\ \E t \in BOOLEAN : Turn(w, <<"stat", "upsert", "mark">>, t)
         \/ /\ disk[v] = 0
            /\ \/ w # Prefetcher /\ Then(w, <<"exit">>)
               \/ w = Prefetcher /\ Done(w)
               \/ w = Prefetcher /\ Turn(w, <<"stat", "upsert", "mark">>, TRUE)
            /\ UNCHANGED disk
  /\ UNCHANGED <<tables, active, downloads, pass, sync, events>>

\* yt-dlp fails or is killed, and nobody removes or registers what it has written.
FetchFails(w) ==
  /\ "fail" \in Commands
  /\ Todo(w, "grow")
  /\ Event
  /\ Then(w, IF w = Prefetcher THEN <<>> ELSE <<"exit">>)
  /\ UNCHANGED <<disk, tables, active, downloads, pass, sync>>

\* The prefetch worker names the file in every row of the song.  SyncCacheDir and
\* SaveSong may leave a row that names one already as it is.
MarkDownloaded(n) ==
  /\ Todo(n, "mark")
  /\ path' = path \cup {writer[n].vid}
  /\ \/ thumbs' = Named(n, "song")
     \/ n # Prefetcher /\ writer[n].vid \in path /\ UNCHANGED thumbs
  /\ Then(n, Tail(writer[n].todo))
  /\ UNCHANGED <<disk, lru, size, active, downloads, pass, sync, events>>

\* The length is 0 if the file has gone.
Stat(n) ==
  /\ Todo(n, "stat")
  /\ \E len \in IF writer[n].thumb THEN {0, ThumbSize} ELSE {disk[writer[n].vid]} :
       writer' = [writer EXCEPT ![n].todo = Tail(@), ![n].len = len]
  /\ UNCHANGED <<disk, tables, active, downloads, pass, sync, events>>

\* Mutant of UpsertMediaCache: an existing row is not replaced.
UpsertTwice(n) ==
  /\ Todo(n, "upsert")
  /\ lru' = Append(lru, writer[n].vid)
  /\ size' = [size EXCEPT ![writer[n].vid] = writer[n].len]
  /\ thumbs' = Named(n, "media")
  /\ Then(n, Tail(writer[n].todo))
  /\ UNCHANGED <<disk, path, active, downloads, pass, sync, events>>

UpsertMediaCache(n) ==
  /\ Todo(n, "upsert")
  /\ lru' = Append(RemoveFirst(lru, writer[n].vid), writer[n].vid)
  /\ size' = [size EXCEPT ![writer[n].vid] = writer[n].len]
  /\ thumbs' = Named(n, "media")
  /\ Then(n, Tail(writer[n].todo))
  /\ UNCHANGED <<disk, path, active, downloads, pass, sync, events>>

\* The deferred Delete of downloadWorker.
WorkerExit(w) ==
  /\ Todo(w, "exit")
  /\ downloads' = downloads \ {writer[w].vid}
  /\ Done(w)
  /\ UNCHANGED <<disk, tables, active, pass, sync, events>>

\* A request for a stream puts the row of its song last.
TouchMediaCache(v) ==
  /\ "touch" \in Commands
  /\ v \in ToSet(lru)
  /\ lru' = Append(RemoveFirst(lru, v), v)
  /\ UNCHANGED <<disk, size, path, thumbs, active, downloads, pass, writer, sync, events>>

-------------------------------------------------------------------------------
(* SyncCacheDir, which runs beside everything else after a start *)

SyncReadDir ==
  /\ sync.at = "dir"
  /\ sync' = [at |-> "report", left |-> {v \in Videos : disk[v] > 0}]
  /\ UNCHANGED <<disk, tables, active, downloads, pass, writer, events>>

SyncReport ==
  /\ sync.at = "report"
  /\ sync' = [at |-> "files", left |-> sync.left \ ToSet(lru)]
  /\ UNCHANGED <<disk, tables, active, downloads, pass, writer, events>>

SyncFile ==
  /\ sync.at = "files" /\ writer[Syncer] = Idle
  /\ \/ \E v \in sync.left :
          /\ writer' = [writer EXCEPT ![Syncer] = Busy(<<"stat", "mark", "upsert">>, v)]
          /\ sync' = [sync EXCEPT !.left = @ \ {v}]
     \/ sync.left = {} /\ sync' = [sync EXCEPT !.at = "done"] /\ UNCHANGED writer
  /\ UNCHANGED <<disk, tables, active, downloads, pass, events>>

-------------------------------------------------------------------------------
(* Eviction *)

Goto(p, l, rows) == pass' = [pass EXCEPT ![p].at = l, ![p].rows = rows, ![p].excess = 0]

\* What follows the row that is dealt with, or the end of the pass.
NextRow(p) ==
  pass' = [pass EXCEPT ![p] = IF Len(pass[p].rows) = 1 THEN Rest
                              ELSE [pass[p] EXCEPT !.at = "files", !.rows = Tail(pass[p].rows)]]

GetCacheTotalSize(p) ==
  /\ pass[p].at = "rest"
  /\ Total > MaxBytes
  /\ pass' = [pass EXCEPT ![p].at = "rows", ![p].excess = Total - MaxBytes]
  /\ UNCHANGED <<disk, tables, active, downloads, writer, sync, events>>

\* Mutant of Oldest: one row too few.
OldestButOne(limit) ==
  SubSeq(lru, 1, Cardinality({n \in 1 .. Len(lru) : Bytes(ToSet(SubSeq(lru, 1, n))) < limit}))

\* The oldest rows whose bytes reach the limit, or all.
Oldest(limit) ==
  SubSeq(lru, 1, Min({Len(lru)} \cup
                     {n \in 1 .. Len(lru) : Bytes(ToSet(SubSeq(lru, 1, n))) >= limit}))

GetLRUMediaFiles(p) ==
  /\ pass[p].at = "rows"
  /\ LET rows == Oldest(pass[p].excess)
     IN  \/ rows = <<>> /\ Goto(p, "rest", rows)
         \/ rows # <<>> /\ Goto(p, "active", rows)
  /\ UNCHANGED <<disk, tables, active, downloads, writer, sync, events>>

ReadActive(p) ==
  /\ pass[p].at = "active"
  /\ pass' = [pass EXCEPT ![p].at = "files", ![p].active = active]
  /\ UNCHANGED <<disk, tables, active, downloads, writer, sync, events>>

SkipActive(p) ==
  /\ pass[p].at = "files"
  /\ Head(pass[p].rows) = pass[p].active
  /\ NextRow(p)
  /\ UNCHANGED <<disk, tables, active, downloads, writer, sync, events>>

\* The media, under whatever extension, and the file that the row names.
DeleteCacheFiles(p) ==
  /\ pass[p].at = "files"
  /\ Head(pass[p].rows) # pass[p].active
  /\ disk' = [disk EXCEPT ![Head(pass[p].rows)] = 0]
  /\ pass' = [pass EXCEPT ![p].at = "row"]
  /\ UNCHANGED <<tables, active, downloads, writer, sync, events>>

\* Both statements, or, while another process has the database locked, either
\* one of them or none; the pass goes on with its next row.
DeleteCacheByVideoID(p) ==
  /\ pass[p].at = "row"
  /\ LET v == Head(pass[p].rows)
     IN  \E row, song \in BOOLEAN :
           /\ \/ row /\ song /\ UNCHANGED events
              \/ ~(row /\ song) /\ "busy" \in Commands /\ Event
           /\ lru' = IF row THEN RemoveFirst(lru, v) ELSE lru
           /\ size' = IF row THEN [size EXCEPT ![v] = 0] ELSE size
           /\ path' = IF song THEN path \ {v} ELSE path
           /\ thumbs' = thumbs \ ((IF row THEN {<<"media", v>>} ELSE {})
                                   \cup (IF song THEN {<<"song", v>>} ELSE {}))
  /\ NextRow(p)
  /\ UNCHANGED <<disk, active, downloads, writer, sync>>

\* clear_cache with a video_id: the files if there is a row, and the row.
ClearCache(p, v) ==
  /\ "clear" \in Commands
  /\ pass[p].at = "rest"
  /\ Event
  /\ pass' = [pass EXCEPT ![p].at = IF v \in ToSet(lru) THEN "files" ELSE "row",
                          ![p].rows = <<v>>]
  /\ UNCHANGED <<disk, tables, active, downloads, writer, sync>>

\* The process dies and starts again; its downloads die with it.
Crash ==
  /\ "crash" \in Commands
  /\ Event
  /\ active' = NoVideo
  /\ downloads' = {}
  /\ pass' = [p \in Passes |-> Rest]
  /\ writer' = [n \in Names |-> Idle]
  /\ sync' = [at |-> "dir", left |-> {}]
  /\ UNCHANGED <<disk, tables>>

-------------------------------------------------------------------------------
Register(n) == MarkDownloaded(n) \/ Stat(n) \/ UpsertMediaCache(n)

Fetch(n) == FetchBegins(n) \/ FetchEnds(n)

Play(w) == ResolveCachedPath(w) \/ StartBackgroundDownload(w) \/ WorkerExit(w)

Sync == SyncReadDir \/ SyncReport \/ SyncFile

Evict(p) == \/ GetCacheTotalSize(p) \/ GetLRUMediaFiles(p) \/ ReadActive(p)
            \/ SkipActive(p) \/ DeleteCacheFiles(p) \/ DeleteCacheByVideoID(p)

Next ==
  \/ \E n \in Names : Register(n) \/ Fetch(n) \/ FetchFails(n)
  \/ \E v \in Videos : PrefetchTrack(v)
  \/ \E w \in Writers : Play(w) \/ \E v \in Videos : StartStream(w, v)
  \/ Sync
  \/ \E p \in Passes : Evict(p)
  \/ \E p \in Clearers, v \in Videos : ClearCache(p, v)
  \/ \E v \in Videos : TouchMediaCache(v)
  \/ Crash

Spec == Init /\ [][Next]_vars

\* The worker's ticker ticks every 10 minutes, and its pass goes on.  Nothing is
\* asked of the other goroutines: a download may hang, a clear_cache may never end.
LiveSpec == Spec /\ WF_vars(Evict(Worker))

-------------------------------------------------------------------------------
(* Properties *)

\* A file on disk that no row counts and nobody is about to enter: no pass will
\* delete it.
Uncounted(v) ==
  /\ disk[v] > 0
  /\ v \notin ToSet(lru)
  /\ \A n \in Names :
       writer[n].vid = v => ToSet(writer[n].todo) \cap {"fetch", "grow", "upsert"} = {}

\* Downloads, passes and clear_cache commands that overlap lose count of a file
\* in one place only: where a pass deletes the row of a video whose file has been
\* downloaded again since the pass deleted it.  Besides, what a failed download
\* or a crash leaves behind is counted by nobody.
UncountedWhereDeleted ==
  [][\A v \in Videos : ~Uncounted(v) /\ Uncounted(v)' =>
       \/ \E p \in Passes : DeleteCacheByVideoID(p) /\ v = Head(pass[p].rows)
       \/ \E n \in Names : FetchFails(n) /\ v = writer[n].vid
       \/ Crash]_vars

\* Once no more tracks are started, the cache is brought to its limit, up to the
\* song that is streamed, and stays there, whatever failed or crashed before.
LimitRestored == <>[](Total <= MaxBytes + (IF active = NoVideo THEN 0 ELSE size[active]))
===============================================================================
