------------------------------- MODULE PlayQueue -------------------------------
(***************************************************************************)
(* The play queue: queue.Manager (src/internal/queue/manager.go) over the   *)
(* playback_queue table.                                                   *)
(*                                                                         *)
(* Router.Dispatch runs every command in a goroutine of its own, and        *)
(* nothing orders the database statements of two goroutines.  A worker is   *)
(* such a goroutine: it takes a command when it is idle and runs it one     *)
(* database statement, or one section under Manager.mu, at a time.          *)
(* advanceQueue is the last call of every command that makes it, and the    *)
(* goroutine it starts (playQueueEntry, then enrichRecommendations) runs    *)
(* after it, so the same worker carries on with them.                      *)
(*                                                                         *)
(* The prefetch worker is a process of its own.  A restart kills every      *)
(* goroutine at any point and keeps the database.                          *)
(*                                                                         *)
(* resolver.Resolve picks the video; a query that does not resolve, or a    *)
(* track over 20 minutes, ends a command before it changes anything.        *)
(* SQLite errors are not modelled, and StartStream always returns nil, so   *)
(* the branches that follow their failure are not taken.                    *)
(***************************************************************************)
EXTENDS QueueTable, Sequences

CONSTANTS
  Workers,      \* the goroutines that may run commands at the same time
  Commands,     \* the commands the clients send
  Prefetch,     \* whether the prefetch worker runs
  MaxPool,      \* maxPoolSize: the length limit of the autoplay pool
  MaxRestarts   \* bound: how often the process restarts

AllCommands == {"play", "queue", "play_next", "next", "playback_finished",
                "previous", "stop", "clear", "shuffle", "autoplay"}

ASSUME PlayQueueAssumption ==
  /\ Commands \subseteq AllCommands
  /\ Prefetch \in BOOLEAN
  /\ MaxPool \in Nat
  /\ MaxRestarts \in Nat

VARIABLES
  history,     \* the two newest entries of play_history, newest first
  current,     \* Manager.current
  active,      \* the streamer's ActiveVideoID
  pool,        \* Manager.autoplayPool
  autoplayOn,  \* Manager.autoplayOn
  batch,       \* Shuffle's shuffleList: rows it has still to insert
  pc,          \* [Workers -> the statement the worker is at]
  job,         \* [Workers -> the worker's local variables]
  pf,          \* the prefetch worker: what it does, and to which row
  boot,        \* main: RecoverFromRestart, and the row it has read
  inherited,   \* rows the previous process left PLAYING or PREFETCHING
  restarts     \* restarts so far

memVars  == <<history, current, active, pool, autoplayOn, batch>>
procVars == <<pf, boot, inherited, restarts>>
vars == <<status, video, lastId, history, current, active, pool, autoplayOn,
          batch, pc, job, pf, boot, inherited, restarts>>

Labels == {"idle", "look", "check", "complete", "enqueue", "ready", "refront",
           "front", "clear", "advance", "autoplay", "start", "mark",
           "current", "record", "enrich", "wipe", "reinsert"}

MaybeVideo == Videos \cup {NoVideo}
NoEntry    == "none"               \* play_history is that short
Entries    == MaybeVideo \cup {NoEntry}
MaybeId    == Ids \cup {NoId}
Rows       == [id : Ids, vid : MaybeVideo, st : Waiting]
Jobs       == [cmd : AllCommands \cup {"none"}, vid : MaybeVideo,
               old : MaybeVideo, row : MaybeId]

\* The locals of a worker: its command, the track it handles, the video of the
\* row it interrupts (Previous), the row it handles.
MkJob(c, v, o, i) == [cmd |-> c, vid |-> v, old |-> o, row |-> i]
NoJob             == MkJob("none", NoVideo, NoVideo, NoId)
Job(c, v)         == MkJob(c, v, NoVideo, NoId)
Player(v, i)      == MkJob("none", v, NoVideo, i)   \* playQueueEntry's locals

TypeOK ==
  /\ TableTypeOK
  /\ history \in Entries \X Entries
  /\ current \in MaybeVideo
  /\ active \in MaybeVideo
  /\ pool \in Seq(Videos) /\ Len(pool) <= MaxPool
  /\ autoplayOn \in BOOLEAN
  /\ batch \subseteq Rows
  /\ pc \in [Workers -> Labels]
  /\ job \in [Workers -> Jobs]
  /\ pf \in [at : {"rest", "claim", "hold"}, row : MaybeId]
  /\ boot \in [at : {"look", "fail", "up"}, row : MaybeId]
  /\ inherited \subseteq Ids
  /\ restarts \in 0 .. MaxRestarts

Init ==
  /\ TableInit
  /\ history = <<NoEntry, NoEntry>>
  /\ current = NoVideo
  /\ active = NoVideo
  /\ pool = <<>>
  /\ autoplayOn = TRUE
  /\ batch = {}
  /\ pc = [w \in Workers |-> "idle"]
  /\ job = [w \in Workers |-> NoJob]
  /\ pf = [at |-> "rest", row |-> NoId]
  /\ boot = [at |-> "up", row |-> NoId]
  /\ inherited = {}
  /\ restarts = 0

-------------------------------------------------------------------------------
(* Control of a worker *)

Goto(w, l, j) ==
  /\ pc' = [pc EXCEPT ![w] = l]
  /\ job' = [job EXCEPT ![w] = j]

Goon(w, l)    == Goto(w, l, job[w])
GoAdvance(w)  == Goto(w, "advance", NoJob)   \* advanceQueue has no locals yet
Finish(w)     == Goto(w, "idle", NoJob)

Accepts(w, c) == c \in Commands /\ pc[w] = "idle"

\* Shuffle holds Manager.mu across several statements; every other section
\* under mu is one step.
MuFree == \A w \in Workers : pc[w] \notin {"wipe", "reinsert"}

\* GetPlayingEntry, then SetQueueStatus(COMPLETED) if there is one.
LookPlaying(w, j, otherwise) ==
  \/ \E i \in Ids :
       /\ IsPlayingEntry(i)
       /\ \/ j.cmd = "previous" /\ Goto(w, "complete", MkJob(j.cmd, j.vid, video[i], i))
          \/ j.cmd # "previous" /\ Goto(w, "complete", MkJob(j.cmd, j.vid, NoVideo, i))
  \/ /\ NothingPlaying
     /\ Goto(w, otherwise, j)

-------------------------------------------------------------------------------
(* Commands: the first statement of each *)

\* Mutant of PlayNow: the PLAYING row is not looked for.
PlayOverPlaying(w, v) ==
  /\ Accepts(w, "play") /\ MuFree
  /\ pool' = <<>>
  /\ Goto(w, "enqueue", Job("play", v))
  /\ UNCHANGED <<tableVars, history, current, active, autoplayOn, batch, procVars>>

PlayNow(w, v) ==
  /\ Accepts(w, "play")
  /\ MuFree
  /\ pool' = <<>>
  /\ Goto(w, "look", Job("play", v))
  /\ UNCHANGED <<tableVars, history, current, active, autoplayOn, batch, procVars>>

\* A track whose file is on disk goes in as READY, any other as PENDING.
QueueAdd(w, v) ==
  /\ Accepts(w, "queue")
  /\ \E s \in Waiting : EnqueueTrack(v, s)
  /\ Goto(w, "check", NoJob)
  /\ UNCHANGED <<memVars, procVars>>

PlayNext(w, v) ==
  /\ Accepts(w, "play_next")
  /\ \E s \in Waiting : EnqueueTrackAtFront(v, s)
  /\ Goto(w, "check", NoJob)
  /\ UNCHANGED <<memVars, procVars>>

\* AcquireLiveStream followed at once by its release leaves nothing behind.
Skip(w) ==
  /\ Accepts(w, "next")
  /\ LookPlaying(w, NoJob, "advance")
  /\ UNCHANGED <<tableVars, memVars, procVars>>

PlaybackFinished(w) ==
  /\ Accepts(w, "playback_finished")
  /\ LookPlaying(w, NoJob, "advance")
  /\ UNCHANGED <<tableVars, memVars, procVars>>

\* GetHistory(2) must return two rows; the older one is the previous track.  An
\* entry holds a query: it has its video's id by a LEFT JOIN with song_cache, and
\* an empty one where no row of song_cache has that query.
Previous(w) ==
  /\ Accepts(w, "previous")
  /\ history[2] # NoEntry
  /\ \E v \in {history[2], NoVideo} : Goto(w, "look", Job("previous", v))
  /\ UNCHANGED <<tableVars, memVars, procVars>>

StopAll(w) ==
  /\ Accepts(w, "stop")
  /\ MuFree
  /\ current' = NoVideo
  /\ pool' = <<>>
  /\ Goto(w, "look", Job("stop", NoVideo))
  /\ UNCHANGED <<tableVars, history, active, autoplayOn, batch, procVars>>

ClearQueue(w) ==
  /\ Accepts(w, "clear")
  /\ ClearTable
  /\ UNCHANGED <<memVars, pc, job, procVars>>

SetAutoplay(w, on) ==
  /\ Accepts(w, "autoplay")
  /\ MuFree
  /\ autoplayOn' = on
  /\ pool' = IF on THEN pool ELSE <<>>
  /\ UNCHANGED <<tableVars, history, current, active, batch, pc, job, procVars>>

WaitingRows == {[id |-> i, vid |-> video[i], st |-> status[i]] :
                  i \in {k \in Ids : status[k] \in Waiting}}

Shuffle(w) ==
  /\ Accepts(w, "shuffle")
  /\ MuFree
  /\ \E r, s \in WaitingRows : r # s   \* "not enough tracks to shuffle" otherwise
  /\ batch' = WaitingRows
  /\ Goto(w, "wipe", NoJob)
  /\ UNCHANGED <<tableVars, history, current, active, pool, autoplayOn, procVars>>

-------------------------------------------------------------------------------
(* Commands: the statements that follow *)

Look(w) ==
  /\ pc[w] = "look"
  /\ LookPlaying(w, job[w], CASE job[w].cmd = "play"     -> "enqueue"
                              [] job[w].cmd = "previous" -> "front"
                              [] OTHER                   -> "clear")
  /\ UNCHANGED <<tableVars, memVars, procVars>>

\* Mutant of Check: Manager.current is asked, which is set after the row is
\* marked PLAYING and outlives it.
CheckCurrent(w) ==
  /\ pc[w] = "check"
  /\ \/ current = NoVideo /\ GoAdvance(w)
     \/ current # NoVideo /\ Finish(w)
  /\ UNCHANGED <<tableVars, memVars, procVars>>

\* QueueAdd and PlayNext advance the queue themselves when nothing plays.
Check(w) ==
  /\ pc[w] = "check"
  /\ \/ NothingPlaying /\ GoAdvance(w)
     \/ ~NothingPlaying /\ Finish(w)
  /\ UNCHANGED <<tableVars, memVars, procVars>>

\* Mutant of Complete: Skip and PlaybackFinished do not advance the queue.
CompleteAndStop(w) ==
  /\ pc[w] = "complete"
  /\ SetQueueStatus(job[w].row, "COMPLETED")
  /\ CASE job[w].cmd = "play"     -> Goon(w, "enqueue")
       [] job[w].cmd = "previous" -> Goon(w, "refront")
       [] job[w].cmd = "stop"     -> Goon(w, "clear")
       [] OTHER                   -> Finish(w)
  /\ UNCHANGED <<memVars, procVars>>

Complete(w) ==
  /\ pc[w] = "complete"
  /\ SetQueueStatus(job[w].row, "COMPLETED")
  /\ CASE job[w].cmd = "play"     -> Goon(w, "enqueue")
       [] job[w].cmd = "previous" -> Goon(w, "refront")
       [] job[w].cmd = "stop"     -> Goon(w, "clear")
       [] OTHER                   -> GoAdvance(w)
  /\ UNCHANGED <<memVars, procVars>>

\* PlayNow inserts its track as PENDING and makes it READY in a second
\* statement if the file is on disk.
EnqueueNow(w) ==
  /\ pc[w] = "enqueue"
  /\ EnqueueTrack(job[w].vid, "PENDING")
  /\ \E l \in {"ready", "start"} : Goto(w, l, MkJob("play", job[w].vid, NoVideo, lastId + 1))
  /\ UNCHANGED <<memVars, procVars>>

MarkReady(w) ==
  /\ pc[w] = "ready"
  /\ SetQueueStatus(job[w].row, "READY")
  /\ Goon(w, "start")
  /\ UNCHANGED <<memVars, procVars>>

\* Previous puts the interrupted track back at the front, then the previous
\* one before it.
ReenqueueCurrent(w) ==
  /\ pc[w] = "refront"
  /\ \E s \in Waiting : EnqueueTrackAtFront(job[w].old, s)
  /\ Goon(w, "front")
  /\ UNCHANGED <<memVars, procVars>>

EnqueuePrevious(w) ==
  /\ pc[w] = "front"
  /\ EnqueueTrackAtFront(job[w].vid, "PENDING")
  /\ GoAdvance(w)
  /\ UNCHANGED <<memVars, procVars>>

StopClear(w) ==
  /\ pc[w] = "clear"
  /\ ClearTable
  /\ Finish(w)
  /\ UNCHANGED <<memVars, procVars>>

ShuffleClear(w) ==
  /\ pc[w] = "wipe"
  /\ ClearTable
  /\ Goon(w, "reinsert")
  /\ UNCHANGED <<memVars, procVars>>

\* rand.Shuffle: the rows go back in any order.
ShuffleInsert(w) ==
  /\ pc[w] = "reinsert"
  /\ \E r \in batch :
       /\ EnqueueTrack(r.vid, r.st)
       /\ batch' = batch \ {r}
  /\ IF batch' = {} THEN Finish(w) ELSE UNCHANGED <<pc, job>>
  /\ UNCHANGED <<history, current, active, pool, autoplayOn, procVars>>

-------------------------------------------------------------------------------
(* advanceQueue and the goroutine it starts *)

AdvanceQueue(w) ==
  /\ pc[w] = "advance"
  /\ MuFree
  /\ \/ \E i \in Ids :
          /\ IsNextPending(i)
          /\ Goto(w, "start", Player(video[i], i))
          /\ UNCHANGED <<pool, current>>
     \/ /\ ~Exists(Waiting)
        /\ autoplayOn /\ pool # <<>>
        /\ Goto(w, "autoplay", Player(Head(pool), NoId))
        /\ pool' = Tail(pool)
        /\ UNCHANGED current
     \/ /\ ~Exists(Waiting)
        /\ ~(autoplayOn /\ pool # <<>>)
        /\ Finish(w)
        /\ current' = NoVideo
        /\ UNCHANGED pool
  /\ UNCHANGED <<tableVars, history, active, autoplayOn, batch, procVars>>

PlayTrackFromAutoplay(w) ==
  /\ pc[w] = "autoplay"
  /\ EnqueueTrack(job[w].vid, "PENDING")
  /\ Goto(w, "start", Player(job[w].vid, lastId + 1))
  /\ UNCHANGED <<memVars, procVars>>

StartStream(w) ==
  /\ pc[w] = "start"
  /\ active' = job[w].vid
  /\ Goon(w, "mark")
  /\ UNCHANGED <<tableVars, history, current, pool, autoplayOn, batch, procVars>>

MarkPlaying(w) ==
  /\ pc[w] = "mark"
  /\ SetQueueStatus(job[w].row, "PLAYING")
  /\ Goto(w, "current", Player(job[w].vid, NoId))
  /\ UNCHANGED <<memVars, procVars>>

SetCurrent(w) ==
  /\ pc[w] = "current"
  /\ MuFree
  /\ current' = job[w].vid
  /\ Goon(w, "record")
  /\ UNCHANGED <<tableVars, history, active, pool, autoplayOn, batch, procVars>>

\* The query of the track, which stands here for its video.
SavePlayHistory(w) ==
  /\ pc[w] = "record"
  /\ history' = <<job[w].vid, history[1]>>
  /\ Goto(w, "enrich", NoJob)
  /\ UNCHANGED <<tableVars, current, active, pool, autoplayOn, batch, procVars>>

\* Mutant of EnrichRecommendations: the length test lets one track too many in.
EnrichOneTooMany(w) ==
  /\ pc[w] = "enrich" /\ MuFree
  /\ \E n \in 0 .. MaxPool + 1 - Len(pool) : \E more \in [1 .. n -> Videos] :
       pool' = pool \o more
  /\ Finish(w)
  /\ UNCHANGED <<tableVars, history, current, active, autoplayOn, batch, procVars>>

\* Appends related videos, as many as fit, or finds none.  They are new to the
\* pool that was read some statements earlier, so they can be in it by now.
\* autoplayOn and current play no part.
EnrichRecommendations(w) ==
  /\ pc[w] = "enrich"
  /\ MuFree
  /\ \E n \in 0 .. MaxPool - Len(pool) : \E more \in [1 .. n -> Videos] :
       pool' = pool \o more
  /\ Finish(w)
  /\ UNCHANGED <<tableVars, history, current, active, autoplayOn, batch, procVars>>

-------------------------------------------------------------------------------
(* The prefetch worker *)

PrefetchPick ==
  /\ Prefetch
  /\ pf.at = "rest"
  /\ \E i \in Ids : IsNextForPrefetch(i) /\ pf' = [at |-> "claim", row |-> i]
  /\ UNCHANGED <<tableVars, memVars, pc, job, boot, inherited, restarts>>

PrefetchClaim ==
  /\ pf.at = "claim"
  /\ SetQueueStatus(pf.row, "PREFETCHING")
  /\ pf' = [pf EXCEPT !.at = "hold"]
  /\ UNCHANGED <<memVars, pc, job, boot, inherited, restarts>>

\* Mutant of PrefetchEnd: the row is not PENDING again when AcquirePrefetch
\* times out.
PrefetchForgets ==
  /\ pf.at = "hold"
  /\ \E s \in {"PREFETCHING", "FAILED", "READY"} : SetQueueStatus(pf.row, s)
  /\ pf' = [at |-> "rest", row |-> NoId]
  /\ UNCHANGED <<memVars, pc, job, boot, inherited, restarts>>

\* AcquirePrefetch timed out (PENDING again), yt-dlp failed or left no file
\* (FAILED), or the file is there (READY).  The status is written without a
\* look at what the row has become meanwhile.
PrefetchEnd ==
  /\ pf.at = "hold"
  /\ \E s \in {"PENDING", "FAILED", "READY"} : SetQueueStatus(pf.row, s)
  /\ pf' = [at |-> "rest", row |-> NoId]
  /\ UNCHANGED <<memVars, pc, job, boot, inherited, restarts>>

-------------------------------------------------------------------------------
(* Restart *)

\* The process dies at any point; main starts the prefetch worker and the
\* WebSocket server, and then calls RecoverFromRestart.
Restart ==
  /\ restarts < MaxRestarts
  /\ restarts' = restarts + 1
  /\ pc' = [w \in Workers |-> "idle"]
  /\ job' = [w \in Workers |-> NoJob]
  /\ pf' = [at |-> "rest", row |-> NoId]
  /\ boot' = [at |-> "look", row |-> NoId]
  /\ inherited' = {i \in Ids : status[i] \in {"PLAYING", "PREFETCHING"}}
  /\ current' = NoVideo
  /\ active' = NoVideo
  /\ pool' = <<>>
  /\ autoplayOn' = TRUE
  /\ batch' = {}
  /\ UNCHANGED <<tableVars, history>>

\* Mutant of RecoverLook: the stale row is looked for among the PREFETCHING ones.
RecoverPrefetching ==
  /\ boot.at = "look"
  /\ \/ \E i \in Ids : IsFirst(i, {"PREFETCHING"}) /\ boot' = [at |-> "fail", row |-> i]
     \/ ~Exists({"PREFETCHING"}) /\ boot' = [at |-> "up", row |-> NoId]
  /\ UNCHANGED <<tableVars, memVars, pc, job, pf, inherited, restarts>>

RecoverLook ==
  /\ boot.at = "look"
  /\ \/ \E i \in Ids : IsPlayingEntry(i) /\ boot' = [at |-> "fail", row |-> i]
     \/ NothingPlaying /\ boot' = [at |-> "up", row |-> NoId]
  /\ UNCHANGED <<tableVars, memVars, pc, job, pf, inherited, restarts>>

RecoverFail ==
  /\ boot.at = "fail"
  /\ SetQueueStatus(boot.row, "FAILED")
  /\ boot' = [at |-> "up", row |-> NoId]
  /\ UNCHANGED <<memVars, pc, job, pf, inherited, restarts>>

-------------------------------------------------------------------------------
Dispatch(w) ==
  \/ \E v \in Videos : PlayNow(w, v) \/ QueueAdd(w, v) \/ PlayNext(w, v)
  \/ Skip(w) \/ PlaybackFinished(w) \/ Previous(w)
  \/ StopAll(w) \/ ClearQueue(w) \/ Shuffle(w)
  \/ \E on \in BOOLEAN : SetAutoplay(w, on)

Continue(w) ==
  \/ Look(w) \/ Check(w) \/ Complete(w)
  \/ EnqueueNow(w) \/ MarkReady(w) \/ ReenqueueCurrent(w) \/ EnqueuePrevious(w)
  \/ StopClear(w) \/ ShuffleClear(w) \/ ShuffleInsert(w)
  \/ AdvanceQueue(w) \/ PlayTrackFromAutoplay(w)
  \/ StartStream(w) \/ MarkPlaying(w) \/ SetCurrent(w) \/ SavePlayHistory(w)
  \/ EnrichRecommendations(w)

StartPrefetchWorker == PrefetchPick \/ PrefetchClaim \/ PrefetchEnd

RecoverFromRestart == RecoverLook \/ RecoverFail

Next ==
  \/ \E w \in Workers : Dispatch(w) \/ Continue(w)
  \/ StartPrefetchWorker
  \/ Restart
  \/ RecoverFromRestart

Spec == Init /\ [][Next]_vars

-------------------------------------------------------------------------------
(* Properties *)

AllIdle == \A w \in Workers : pc[w] = "idle"

\* GetPlayingEntry speaks of "the currently playing queue entry, if any": no
\* two rows are PLAYING.  It is what commands sent one at a time rely on, each
\* of which completes the one PLAYING row before it marks the next.
AtMostOnePlaying ==
  \A i, j \in Ids : status[i] = "PLAYING" /\ status[j] = "PLAYING" => i = j

\* No lost wakeup.  QueueAdd and PlayNext insert a row and then look whether
\* something plays; Skip, PlaybackFinished and Previous complete the PLAYING
\* row and then look for a waiting one.  However they interleave, once every
\* command is done nothing waits unless something plays.
NoStall == AllIdle /\ NothingPlaying => ~Exists(Waiting)

\* A row is PREFETCHING only while the prefetch worker holds it, or because a
\* restart killed the worker that did.
PrefetchOwnership ==
  \A i \in Ids : status[i] = "PREFETCHING" =>
     (pf.at = "hold" /\ pf.row = i) \/ i \in inherited

\* Between commands the PLAYING row, Manager.current and the streamer's active
\* session name the same video.
PlayingIsStreamed ==
  AllIdle /\ boot.at = "up" =>
    \A i \in Ids : status[i] = "PLAYING" => active = video[i] /\ current = video[i]

\* A row that has been played is not queued or played again, but where the
\* prefetch worker writes the status of a row that it read minutes ago.
ReplayedWhere ==
  [][\A i \in Ids : status[i] = "COMPLETED" /\ status'[i] \notin Finished \cup {"ABSENT"} =>
       (PrefetchClaim \/ PrefetchEnd) /\ pf.row = i]_vars

-------------------------------------------------------------------------------
(* Inductive strengthenings *)

\* With one worker: between completing the PLAYING row and marking the next one
\* PLAYING no row is, and the row about to be completed is the only one.
AfterComplete == {"enqueue", "ready", "refront", "front", "clear", "advance",
                  "autoplay", "start", "mark"}

SerialInv ==
  /\ AtMostOnePlaying
  /\ \A w \in Workers : pc[w] \in AfterComplete => NothingPlaying
  /\ \A w \in Workers : pc[w] = "complete" =>
       \A i \in Ids : status[i] = "PLAYING" => i = job[w].row

\* With one worker, no prefetch worker and no restart, the row that a worker has
\* in hand waits, or plays, until the worker says otherwise: it is the first, or
\* the one that PlayNow has inserted, which is the last.
RowInv ==
  \A w \in Workers : LET row == job[w].row IN
    /\ pc[w] = "complete" => row \in Ids /\ status[row] = "PLAYING"
    /\ pc[w] = "autoplay" => ~Exists(Waiting)
    /\ pc[w] \in {"ready", "start", "mark"} =>
         /\ row \in Ids /\ status[row] \in Waiting
         /\ \A i \in Ids : status[i] \in Waiting =>
              IF job[w].cmd = "play" THEN i <= row ELSE row <= i

\* With one worker: the row that it is about to play has not been played, whatever
\* the prefetch worker and recovery have made of it.
FreshInv ==
  \A w \in Workers : pc[w] \in {"ready", "start", "mark"} =>
    \A i \in Ids : i = job[w].row => status[i] # "COMPLETED"

\* With one worker: the PLAYING row is streamed and current, but for a stop that
\* has not got to the row, a SetCurrent that is still to come, and what
\* RecoverFromRestart has still to fail.
Streamed(i) ==
  /\ active = video[i]
  /\ \A w \in Workers :
       \/ pc[w] \in {"look", "complete"} /\ job[w].cmd = "stop"
       \/ pc[w] = "current" /\ job[w].vid = video[i]
       \/ pc[w] # "current" /\ current = video[i]

StreamInv ==
  /\ \A w \in Workers :
       /\ pc[w] \in {"ready", "start", "mark"} =>
            \A i \in Ids : i = job[w].row => video[i] = job[w].vid
       /\ pc[w] = "mark" => active = job[w].vid
  /\ \A i \in Ids : status[i] = "PLAYING" =>
       Streamed(i) \/ boot.at = "look" \/ (boot.at = "fail" /\ boot.row = i)

\* A worker that is bound to look at the queue, to empty it, or to mark a row
\* that exists PLAYING.  One that is about to mark a row which ClearQueue has
\* deleted does not count: its UPDATE will change nothing.
WillServe(w) ==
  \/ pc[w] \in {"check", "complete", "enqueue", "refront", "front", "clear",
                "advance", "autoplay"}
  \/ /\ pc[w] \in {"ready", "start", "mark"}
     /\ job[w].row \in Ids
     /\ Present(job[w].row)

\* While rows wait and nothing plays, some worker is bound to serve them.
WakeupInv == NothingPlaying /\ Exists(Waiting) => \E w \in Workers : WillServe(w)

\* Waiting rows lose the worker that is bound to serve them in these places
\* only, whatever overlaps: where the prefetch worker takes the PLAYING row for
\* the one it picked, or lets go of a row; where a restart kills the worker, or
\* recovery fails the PLAYING row; and where Shuffle puts its rows back after
\* the end of the track.
StrandedWhere ==
  [][WakeupInv /\ ~WakeupInv' =>
       \/ PrefetchClaim /\ status[pf.row] = "PLAYING"
       \/ PrefetchEnd
       \/ Restart \/ RecoverFail
       \/ \E w \in Workers : ShuffleInsert(w)]_vars

-------------------------------------------------------------------------------
(* The abstract specification *)

Tickets(S) == {<<i, video[i]>> : i \in {k \in Ids : status[k] \in S}}

\* PlayNow has inserted its row and is about to mark it PLAYING.
PlaysNow(w) == pc[w] \in {"ready", "start", "mark"} /\ job[w].cmd = "play"

J == INSTANCE Jukebox WITH
       Numbers <- Ids,
       Tracks  <- MaybeVideo,
       waiting <- Tickets(Waiting),
       playing <- Tickets({"PLAYING"}),
       now     <- \E w \in Workers : PlaysNow(w)

\* Commands sent one at a time make a jukebox: a row is played once, in its turn
\* or because PlayNow has just inserted it, with the video it was inserted for;
\* one at a time; and it gets into the queue at one of its ends, whatever ids
\* EnqueueTrackAtFront and AUTOINCREMENT hand out.
ImplementsJukebox == J!Spec
===============================================================================
