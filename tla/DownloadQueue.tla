----------------------------- MODULE DownloadQueue -----------------------------
(***************************************************************************)
(* The download queue: AddToDownloadQueue and processNextDownload           *)
(* (src/internal/queue/manager.go) over StartBackgroundDownload and         *)
(* downloadWorker (src/internal/resolver/resolver.go).                      *)
(*                                                                         *)
(* A process is a goroutine: a handler of AddToDownloadQueue, or the        *)
(* downloadWorker of a video.  activeDownloads admits one worker per video, *)
(* from LoadOrStore until the deferred Delete, so the worker is named after *)
(* its video and the map is the set of workers that are not idle.           *)
(* onComplete runs inside the process that calls it, and so does the        *)
(* processNextDownload at its end: that recursion is a loop over labels.    *)
(*                                                                         *)
(* A request whose file is already there returns before it changes anything *)
(* and is not modelled.                                                     *)
(***************************************************************************)
EXTENDS Naturals, Sequences

CONSTANTS
  Videos,    \* the video_ids; each is also the name of its downloadWorker
  Handlers,  \* the goroutines of AddToDownloadQueue
  NoVideo,   \* "no video"
  Events     \* what may happen beside the queue:
             \*   "other": StartStream or enrichNextAutoplay downloads a video,
             \*   "fail":  yt-dlp fails or leaves no file,
             \*   "evict": a file is deleted from the cache

ASSUME DownloadQueueAssumption ==
  /\ Videos \cap Handlers = {}
  /\ NoVideo \notin Videos
  /\ Events \subseteq {"other", "fail", "evict"}

VARIABLES
  dlQueue,  \* Manager.dlQueue: the videos that wait
  dlBusy,   \* Manager.dlBusy
  onDisk,   \* the videos whose file is on disk
  at,       \* [Procs -> the statement the process is at]
  arg,      \* [Procs -> the video the process hands to StartBackgroundDownload]
  cb        \* [Videos -> whether a worker runs whose onComplete is the queue's]

vars == <<dlQueue, dlBusy, onDisk, at, arg, cb>>

Procs  == Handlers \cup Videos
Labels == {"idle", "process", "disk", "store", "run", "complete", "exit"}

TypeOK ==
  /\ dlQueue \in Seq(Videos)
  /\ dlBusy \in BOOLEAN
  /\ onDisk \subseteq Videos
  /\ at \in [Procs -> Labels]
  /\ arg \in [Procs -> Videos \cup {NoVideo}]
  /\ cb \in [Videos -> BOOLEAN]
  /\ \A p \in Procs : at[p] \in {"disk", "store"} => arg[p] \in Videos
  /\ \A p \in Procs : at[p] \in {"run", "exit"} => p \in Videos
  /\ \A v \in Videos : cb[v] => at[v] # "idle"

Init ==
  /\ dlQueue = <<>>
  /\ dlBusy = FALSE
  /\ onDisk = {}
  /\ at = [p \in Procs |-> "idle"]
  /\ arg = [p \in Procs |-> NoVideo]
  /\ cb = [v \in Videos |-> FALSE]

-------------------------------------------------------------------------------
Queued(v) == \E i \in DOMAIN dlQueue : dlQueue[i] = v

\* Where a process goes on when processNextDownload returns to it.
Back(p) == IF p \in Videos THEN "exit" ELSE "idle"

Goto(p, l) == at' = [at EXCEPT ![p] = l]
Forget(p)  == arg' = [arg EXCEPT ![p] = NoVideo]   \* the call has returned

AddToDownloadQueue(h, v) ==
  /\ at[h] = "idle"
  /\ ~Queued(v)
  /\ dlQueue' = Append(dlQueue, v)
  /\ Goto(h, "process")
  /\ UNCHANGED <<dlBusy, onDisk, arg, cb>>

\* Mutant of ProcessNextDownload: dlBusy is not tested.
ProcessAlways(p) ==
  /\ at[p] = "process"
  /\ \/ /\ dlQueue = <<>>
        /\ Goto(p, Back(p))
        /\ UNCHANGED <<dlQueue, dlBusy, arg>>
     \/ /\ dlQueue # <<>>
        /\ dlQueue' = Tail(dlQueue)
        /\ dlBusy' = TRUE
        /\ arg' = [arg EXCEPT ![p] = Head(dlQueue)]
        /\ Goto(p, "disk")
  /\ UNCHANGED <<onDisk, cb>>

\* Mutant of ProcessNextDownload: the newest request is served first.
ProcessNewest(p) ==
  /\ at[p] = "process"
  /\ \/ /\ dlBusy \/ dlQueue = <<>>
        /\ Goto(p, Back(p))
        /\ UNCHANGED <<dlQueue, dlBusy, arg>>
     \/ /\ ~dlBusy /\ dlQueue # <<>>
        /\ dlQueue' = SubSeq(dlQueue, 1, Len(dlQueue) - 1)
        /\ dlBusy' = TRUE
        /\ arg' = [arg EXCEPT ![p] = dlQueue[Len(dlQueue)]]
        /\ Goto(p, "disk")
  /\ UNCHANGED <<onDisk, cb>>

ProcessNextDownload(p) ==
  /\ at[p] = "process"
  /\ \/ /\ dlBusy \/ dlQueue = <<>>
        /\ Goto(p, Back(p))
        /\ UNCHANGED <<dlQueue, dlBusy, arg>>
     \/ /\ ~dlBusy /\ dlQueue # <<>>
        /\ dlQueue' = Tail(dlQueue)
        /\ dlBusy' = TRUE
        /\ arg' = [arg EXCEPT ![p] = Head(dlQueue)]
        /\ Goto(p, "disk")
  /\ UNCHANGED <<onDisk, cb>>

-------------------------------------------------------------------------------
(* StartBackgroundDownload: look at the disk, then at activeDownloads *)

\* Mutant of LookOnDisk: a file that is there ends the call without onComplete.
LookAndLeave(p) ==
  /\ at[p] = "disk"
  /\ \/ arg[p] \in onDisk /\ Goto(p, Back(p)) /\ Forget(p)
     \/ arg[p] \notin onDisk /\ Goto(p, "store") /\ UNCHANGED arg
  /\ UNCHANGED <<dlQueue, dlBusy, onDisk, cb>>

LookOnDisk(p) ==
  /\ at[p] = "disk"
  /\ \/ arg[p] \in onDisk /\ Goto(p, "complete") /\ Forget(p)
     \/ arg[p] \notin onDisk /\ Goto(p, "store") /\ UNCHANGED arg
  /\ UNCHANGED <<dlQueue, dlBusy, onDisk, cb>>

\* A video that is being downloaded already is dropped: onComplete is not
\* called and dlBusy stays TRUE.
LoadOrStore(p) ==
  /\ at[p] = "store"
  /\ LET v == arg[p] IN
     \/ /\ at[v] # "idle"
        /\ Goto(p, Back(p))
        /\ UNCHANGED cb
     \/ /\ at[v] = "idle"
        /\ at' = [at EXCEPT ![p] = Back(p), ![v] = "run"]
        /\ cb' = [cb EXCEPT ![v] = TRUE]
  /\ Forget(p)
  /\ UNCHANGED <<dlQueue, dlBusy, onDisk>>

\* yt-dlp ends, after 600 seconds at the latest.
DownloadWorker(v) ==
  /\ at[v] = "run"
  /\ \/ onDisk' = onDisk \cup {v}
     \/ "fail" \in Events /\ UNCHANGED onDisk
  /\ Goto(v, IF cb[v] THEN "complete" ELSE "exit")
  /\ UNCHANGED <<dlQueue, dlBusy, arg, cb>>

\* Mutant of OnComplete: the next download is left to the next request.
CompleteAndLeave(p) ==
  /\ at[p] = "complete"
  /\ dlBusy' = FALSE
  /\ Goto(p, Back(p))
  /\ UNCHANGED <<dlQueue, onDisk, arg, cb>>

\* The callback of processNextDownload.
OnComplete(p) ==
  /\ at[p] = "complete"
  /\ dlBusy' = FALSE
  /\ Goto(p, "process")
  /\ UNCHANGED <<dlQueue, onDisk, arg, cb>>

\* The deferred activeDownloads.Delete, after onComplete has returned.
WorkerExit(v) ==
  /\ at[v] = "exit"
  /\ Goto(v, "idle")
  /\ cb' = [cb EXCEPT ![v] = FALSE]
  /\ UNCHANGED <<dlQueue, dlBusy, onDisk, arg>>

-------------------------------------------------------------------------------
(* Beside the queue *)

\* Both other callers pass a callback that has nothing to do with dlBusy.
OtherDownload(v) ==
  /\ "other" \in Events
  /\ at[v] = "idle"
  /\ Goto(v, "run")
  /\ UNCHANGED <<dlQueue, dlBusy, onDisk, arg, cb>>

Evict(v) ==
  /\ "evict" \in Events
  /\ onDisk' = onDisk \ {v}
  /\ UNCHANGED <<dlQueue, dlBusy, at, arg, cb>>

-------------------------------------------------------------------------------
StartBackgroundDownload(p) == LookOnDisk(p) \/ LoadOrStore(p)

Run(p) ==
  \/ ProcessNextDownload(p) \/ StartBackgroundDownload(p) \/ OnComplete(p)
  \/ p \in Videos /\ (DownloadWorker(p) \/ WorkerExit(p))

Environment(v) == OtherDownload(v) \/ Evict(v)

Next ==
  \/ \E p \in Procs : Run(p)
  \/ \E h \in Handlers, v \in Videos : AddToDownloadQueue(h, v)
  \/ \E v \in Videos : Environment(v)

Spec == Init /\ [][Next]_vars

\* Goroutines are scheduled and yt-dlp ends.
LiveSpec == Spec /\ \A p \in Procs : WF_vars(Run(p))

-------------------------------------------------------------------------------
(* Properties *)

\* p is on its way from setting dlBusy to the onComplete that resets it.
Owns(p) ==
  \/ at[p] \in {"disk", "store", "complete"}
  \/ at[p] = "run" /\ cb[p]

\* processNextDownload logs "Starting sequential download": whatever fails, is
\* evicted or is downloaded by others, the queue has at most one download in
\* flight, and dlBusy is TRUE while it has.
SequentialDownloads ==
  \A p \in Procs : Owns(p) => dlBusy /\ \A q \in Procs : Owns(q) => p = q

\* No lost wakeup between AddToDownloadQueue and onComplete: while videos wait
\* and dlBusy is FALSE, some process is about to run processNextDownload.
QueuedIsServed ==
  dlQueue # <<>> /\ ~dlBusy => \E p \in Procs : at[p] = "process"

\* resolver.go:190: "onComplete is called with success=true/false when done."
\* While dlBusy is TRUE, some process is bound to call the queue's onComplete.
BusyHasOwner == dlBusy => \E p \in Procs : Owns(p)

\* dlBusy is TRUE, and nobody will reset it.
Lost == dlBusy /\ \A p \in Procs : ~Owns(p)

\* Whatever happens beside the queue, it is lost in one place only: where
\* StartBackgroundDownload drops a video that is in activeDownloads.
LostWhereDropped ==
  [][~Lost /\ Lost' => \E p \in Procs : LoadOrStore(p) /\ at[arg[p]] # "idle"]_vars

\* A video that waits is taken from the queue at last, unless the queue is lost.
Served == \A v \in Videos : Queued(v) ~> ~Queued(v) \/ Lost

\* Why BusyHasOwner holds when nothing happens beside the queue: the worker of
\* a video that is not on disk is its one download, so LoadOrStore never finds
\* the video in activeDownloads.
UndisturbedInv ==
  /\ BusyHasOwner
  /\ \A v \in Videos : at[v] = "run" => cb[v]
  /\ \A v \in Videos : at[v] \notin {"idle", "run"} => v \in onDisk
  /\ \A p \in Procs : at[p] = "store" => arg[p] \notin onDisk
===============================================================================
