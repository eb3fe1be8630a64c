-------------------------- MODULE DownloadQueueProofs --------------------------
(***************************************************************************)
(* Theorems about DownloadQueue, for every set of videos and handlers.      *)
(***************************************************************************)
EXTENDS DownloadQueue, SequenceTheorems, TLAPS

\* The type invariant: every label, argument and queue entry is of its kind, a
\* worker label is held by a worker only, and an idle worker has no callback.
THEOREM DownloadTypes == Spec => []TypeOK
<1> USE DEF Procs, Labels
<1>1. Init => TypeOK
  <2> SUFFICES ASSUME Init PROVE TypeOK
    OBVIOUS
  <2>1. dlQueue \in Seq(Videos)
    BY DEF Init
  <2> QED BY <2>1 DEF Init, TypeOK
<1>2. TypeOK /\ [Next]_vars => TypeOK'
  <2> SUFFICES ASSUME TypeOK, [Next]_vars PROVE TypeOK'
    OBVIOUS
  <2> USE DownloadQueueAssumption DEF TypeOK
  <2>1. ASSUME NEW h \in Handlers, NEW v \in Videos, AddToDownloadQueue(h, v) PROVE TypeOK'
    <3>1. dlQueue' \in Seq(Videos)
      BY <2>1, AppendProperties DEF AddToDownloadQueue
    <3> QED BY <2>1, <3>1 DEF AddToDownloadQueue, Goto
  <2>2. ASSUME NEW p \in Procs, ProcessNextDownload(p) PROVE TypeOK'
    <3>1. CASE dlBusy \/ dlQueue = <<>>
      BY <2>2, <3>1 DEF ProcessNextDownload, Goto, Back
    <3>2. CASE ~dlBusy /\ dlQueue # <<>>
      <4>1. Head(dlQueue) \in Videos /\ Tail(dlQueue) \in Seq(Videos)
        BY <3>2, HeadTailProperties
      <4>2. /\ dlQueue' = Tail(dlQueue) /\ dlBusy' = TRUE
            /\ arg' = [arg EXCEPT ![p] = Head(dlQueue)]
            /\ at' = [at EXCEPT ![p] = "disk"]
            /\ UNCHANGED <<onDisk, cb>>
        BY <2>2, <3>2 DEF ProcessNextDownload, Goto
      <4>3. dlQueue' \in Seq(Videos) /\ dlBusy' \in BOOLEAN /\ onDisk' \subseteq Videos
        BY <4>1, <4>2
      <4>4. /\ at' \in [Procs -> Labels]
            /\ arg' \in [Procs -> Videos \cup {NoVideo}]
            /\ cb' \in [Videos -> BOOLEAN]
        BY <4>1, <4>2
      <4>5. \A q \in Procs : at'[q] \in {"disk", "store"} => arg'[q] \in Videos
        BY <4>1, <4>2
      <4>6. \A q \in Procs : at'[q] \in {"run", "exit"} => q \in Videos
        BY <4>2
      <4>7. \A v \in Videos : cb'[v] => at'[v] # "idle"
        BY <4>2
      <4> QED BY <4>3, <4>4, <4>5, <4>6, <4>7
    <3> QED BY <3>1, <3>2
  <2>3. ASSUME NEW p \in Procs, LookOnDisk(p) PROVE TypeOK'
    BY <2>3 DEF LookOnDisk, Goto, Forget
  <2>4. ASSUME NEW p \in Procs, LoadOrStore(p) PROVE TypeOK'
    <3> DEFINE v == arg[p]
    <3>1. v \in Videos
      BY <2>4 DEF LoadOrStore
    <3>2. CASE at[v] # "idle"
      BY <2>4, <3>1, <3>2 DEF LoadOrStore, Goto, Back, Forget
    <3>3. CASE at[v] = "idle"
      <4>1. /\ at' = [at EXCEPT ![p] = Back(p), ![v] = "run"]
            /\ cb' = [cb EXCEPT ![v] = TRUE]
            /\ arg' = [arg EXCEPT ![p] = NoVideo]
            /\ UNCHANGED <<dlQueue, dlBusy, onDisk>>
        BY <2>4, <3>3 DEF LoadOrStore, Forget
      <4>2. \A q \in Procs : at'[q] = IF q = v THEN "run" ELSE IF q = p THEN Back(p) ELSE at[q]
        BY <3>1, <4>1
      <4> QED BY <3>1, <4>1, <4>2 DEF Back
    <3> QED BY <3>2, <3>3
  <2>5. ASSUME NEW v \in Videos, DownloadWorker(v) PROVE TypeOK'
    BY <2>5 DEF DownloadWorker, Goto
  <2>6. ASSUME NEW p \in Procs, OnComplete(p) PROVE TypeOK'
    BY <2>6 DEF OnComplete, Goto
  <2>7. ASSUME NEW v \in Videos, WorkerExit(v) PROVE TypeOK'
    BY <2>7 DEF WorkerExit, Goto
  <2>8. ASSUME NEW v \in Videos, OtherDownload(v) PROVE TypeOK'
    BY <2>8 DEF OtherDownload, Goto
  <2>9. ASSUME NEW v \in Videos, Evict(v) PROVE TypeOK'
    BY <2>9 DEF Evict
  <2>10. CASE UNCHANGED vars
    BY <2>10 DEF vars
  <2> QED BY <2>1, <2>2, <2>3, <2>4, <2>5, <2>6, <2>7, <2>8, <2>9, <2>10
          DEF Next, Run, StartBackgroundDownload, Environment
<1> QED BY <1>1, <1>2, PTL DEF Spec

-------------------------------------------------------------------------------
(* One download at a time *)

\* A process that moves to a label at which it owns nothing takes ownership
\* from nobody else.
LEMMA MoveKeepsSequential ==
  ASSUME TypeOK, SequentialDownloads, NEW p \in Procs, NEW l,
         l \in Labels \ {"disk", "store", "complete", "run"} \/ Owns(p) \/ (l = "run" /\ ~cb[p]),
         Goto(p, l), UNCHANGED <<dlBusy, cb>>
  PROVE  SequentialDownloads'
BY DEF TypeOK, SequentialDownloads, Owns, Goto, Labels

\* However requests, failures, evictions and other downloads interleave, the
\* queue never has two downloads in flight, and dlBusy is TRUE while it has one.
THEOREM Sequential == Spec => []SequentialDownloads
<1>1. Init => SequentialDownloads
  BY DEF Init, SequentialDownloads, Owns
<1>2. TypeOK /\ SequentialDownloads /\ [Next]_vars => SequentialDownloads'
  <2> SUFFICES ASSUME TypeOK, SequentialDownloads, [Next]_vars PROVE SequentialDownloads'
    OBVIOUS
  <2>1. ASSUME NEW h \in Handlers, NEW v \in Videos, AddToDownloadQueue(h, v) PROVE SequentialDownloads'
    BY <2>1, MoveKeepsSequential DEF AddToDownloadQueue, Labels, Procs
  <2>2. ASSUME NEW p \in Procs, ProcessNextDownload(p) PROVE SequentialDownloads'
    <3>1. CASE dlBusy \/ dlQueue = <<>>
      BY <2>2, <3>1, MoveKeepsSequential DEF ProcessNextDownload, Labels, Back
    <3>2. CASE ~dlBusy /\ dlQueue # <<>>
      <4>1. \A q \in Procs : ~Owns(q)
        BY <3>2 DEF SequentialDownloads
      <4> QED BY <2>2, <3>2, <4>1 DEF ProcessNextDownload, SequentialDownloads, Owns, Goto, TypeOK
    <3> QED BY <3>1, <3>2
  <2>3. ASSUME NEW p \in Procs, LookOnDisk(p) PROVE SequentialDownloads'
    BY <2>3, MoveKeepsSequential DEF LookOnDisk, Owns
  <2>4. ASSUME NEW p \in Procs, LoadOrStore(p) PROVE SequentialDownloads'
    <3> DEFINE v == arg[p]
    <3>1. v \in Videos /\ v \in Procs /\ Owns(p)
      BY <2>4 DEF LoadOrStore, TypeOK, Procs, Owns
    <3>2. CASE at[v] # "idle"
      BY <2>4, <3>2, MoveKeepsSequential DEF LoadOrStore, Labels, Back
    <3>3. CASE at[v] = "idle"
      <4>1. /\ at' = [at EXCEPT ![p] = Back(p), ![v] = "run"]
            /\ cb' = [cb EXCEPT ![v] = TRUE]
            /\ UNCHANGED dlBusy
        BY <2>4, <3>3 DEF LoadOrStore
      <4>2. \A q \in Procs : Owns(q)' => q = v
        <5> SUFFICES ASSUME NEW q \in Procs, Owns(q)', q # v PROVE FALSE
          OBVIOUS
        <5>1. q # p
          BY <3>1, <4>1 DEF TypeOK, Owns, Back
        <5>2. Owns(q)
          BY <3>1, <4>1, <5>1 DEF TypeOK, Owns
        <5> QED BY <3>1, <5>1, <5>2 DEF SequentialDownloads
      <4> QED BY <3>1, <4>1, <4>2 DEF SequentialDownloads
    <3> QED BY <3>2, <3>3
  <2>5. ASSUME NEW v \in Videos, DownloadWorker(v) PROVE SequentialDownloads'
    BY <2>5, MoveKeepsSequential DEF DownloadWorker, Labels, Procs, Owns
  <2>6. ASSUME NEW p \in Procs, OnComplete(p) PROVE SequentialDownloads'
    <3>1. \A q \in Procs : Owns(q) => q = p
      BY <2>6 DEF OnComplete, SequentialDownloads, Owns
    <3>2. \A q \in Procs : ~Owns(q)'
      BY <2>6, <3>1 DEF OnComplete, Goto, Owns, TypeOK
    <3> QED BY <3>2 DEF SequentialDownloads
  <2>7. ASSUME NEW v \in Videos, WorkerExit(v) PROVE SequentialDownloads'
    BY <2>7 DEF WorkerExit, Goto, SequentialDownloads, Owns, TypeOK, Procs
  <2>8. ASSUME NEW v \in Videos, OtherDownload(v) PROVE SequentialDownloads'
    BY <2>8, MoveKeepsSequential DEF OtherDownload, TypeOK, Procs
  <2>9. ASSUME NEW v \in Videos, Evict(v) PROVE SequentialDownloads'
    BY <2>9 DEF Evict, SequentialDownloads, Owns
  <2>10. CASE UNCHANGED vars
    BY <2>10 DEF vars, SequentialDownloads, Owns
  <2> QED BY <2>1, <2>2, <2>3, <2>4, <2>5, <2>6, <2>7, <2>8, <2>9, <2>10
          DEF Next, Run, StartBackgroundDownload, Environment
<1> QED BY <1>1, <1>2, DownloadTypes, PTL DEF Spec

-------------------------------------------------------------------------------
(* No lost wakeup *)

\* A process that was not about to run processNextDownload can move anywhere.
LEMMA MoveKeepsServed ==
  ASSUME TypeOK, QueuedIsServed, NEW p \in Procs, NEW l,
         at[p] # "process", Goto(p, l), UNCHANGED <<dlQueue, dlBusy>>
  PROVE  QueuedIsServed'
BY DEF TypeOK, QueuedIsServed, Goto

\* A request that finds dlBusy TRUE leaves its video to the download in flight:
\* whenever dlBusy is reset while videos wait, processNextDownload is on its way.
THEOREM NoLostRequest == Spec => []QueuedIsServed
<1>1. Init => QueuedIsServed
  BY DEF Init, QueuedIsServed
<1>2. TypeOK /\ QueuedIsServed /\ [Next]_vars => QueuedIsServed'
  <2> SUFFICES ASSUME TypeOK, QueuedIsServed, [Next]_vars PROVE QueuedIsServed'
    OBVIOUS
  <2>1. ASSUME NEW h \in Handlers, NEW v \in Videos, AddToDownloadQueue(h, v) PROVE QueuedIsServed'
    BY <2>1 DEF AddToDownloadQueue, QueuedIsServed, Goto, TypeOK, Procs
  <2>2. ASSUME NEW p \in Procs, ProcessNextDownload(p) PROVE QueuedIsServed'
    BY <2>2 DEF ProcessNextDownload, QueuedIsServed
  <2>3. ASSUME NEW p \in Procs, LookOnDisk(p) PROVE QueuedIsServed'
    BY <2>3, MoveKeepsServed DEF LookOnDisk
  <2>4. ASSUME NEW p \in Procs, LoadOrStore(p) PROVE QueuedIsServed'
    <3>1. CASE at[arg[p]] # "idle"
      BY <2>4, <3>1, MoveKeepsServed DEF LoadOrStore
    <3>2. CASE at[arg[p]] = "idle"
      <4>1. \A q \in Procs : at[q] = "process" => at'[q] = "process"
        BY <2>4, <3>2 DEF LoadOrStore, TypeOK
      <4> QED BY <2>4, <4>1 DEF LoadOrStore, QueuedIsServed
    <3> QED BY <3>1, <3>2
  <2>5. ASSUME NEW v \in Videos, DownloadWorker(v) PROVE QueuedIsServed'
    BY <2>5, MoveKeepsServed DEF DownloadWorker, Procs
  <2>6. ASSUME NEW p \in Procs, OnComplete(p) PROVE QueuedIsServed'
    BY <2>6 DEF OnComplete, Goto, QueuedIsServed, TypeOK
  <2>7. ASSUME NEW v \in Videos, WorkerExit(v) PROVE QueuedIsServed'
    BY <2>7, MoveKeepsServed DEF WorkerExit, Procs
  <2>8. ASSUME NEW v \in Videos, OtherDownload(v) PROVE QueuedIsServed'
    BY <2>8, MoveKeepsServed DEF OtherDownload, Procs
  <2>9. ASSUME NEW v \in Videos, Evict(v) PROVE QueuedIsServed'
    BY <2>9 DEF Evict, QueuedIsServed
  <2>10. CASE UNCHANGED vars
    BY <2>10 DEF vars, QueuedIsServed
  <2> QED BY <2>1, <2>2, <2>3, <2>4, <2>5, <2>6, <2>7, <2>8, <2>9, <2>10
          DEF Next, Run, StartBackgroundDownload, Environment
<1> QED BY <1>1, <1>2, DownloadTypes, PTL DEF Spec

-------------------------------------------------------------------------------
(* Where dlBusy is lost *)

\* A step that leaves dlBusy and the owners as they are loses nothing.
LEMMA OwnersStay ==
  ASSUME ~Lost, dlBusy' = dlBusy, \A q \in Procs : Owns(q) => Owns(q)'
  PROVE  ~Lost'
BY DEF Lost

\* Whatever fails, is evicted or is downloaded by others, dlBusy is left TRUE
\* without a process to reset it at one place of the code only: where
\* StartBackgroundDownload drops a video that is in activeDownloads.
THEOREM LostAtOnePlace == Spec => LostWhereDropped
<1> DEFINE Dropped == \E p \in Procs : LoadOrStore(p) /\ at[arg[p]] # "idle"
<1>1. TypeOK /\ [Next]_vars => [~Lost /\ Lost' => Dropped]_vars
  <2> SUFFICES ASSUME TypeOK, ~Lost, ~Dropped, Next PROVE ~Lost'
    BY DEF vars, Lost, Owns
  <2> USE DEF Procs
  <2>1. ASSUME NEW h \in Handlers, NEW v \in Videos, AddToDownloadQueue(h, v) PROVE ~Lost'
    BY <2>1, OwnersStay DEF AddToDownloadQueue, Goto, Owns, TypeOK
  <2>2. ASSUME NEW p \in Procs, ProcessNextDownload(p) PROVE ~Lost'
    <3>1. CASE dlBusy \/ dlQueue = <<>>
      BY <2>2, <3>1, OwnersStay DEF ProcessNextDownload, Goto, Owns, TypeOK
    <3>2. CASE ~dlBusy /\ dlQueue # <<>>
      BY <2>2, <3>2 DEF ProcessNextDownload, Goto, Lost, Owns, TypeOK
    <3> QED BY <3>1, <3>2
  <2>3. ASSUME NEW p \in Procs, LookOnDisk(p) PROVE ~Lost'
    BY <2>3, OwnersStay DEF LookOnDisk, Goto, Owns, TypeOK
  <2>4. ASSUME NEW p \in Procs, LoadOrStore(p) PROVE ~Lost'
    <3>1. PICK v \in Videos : v = arg[p]
      BY <2>4 DEF LoadOrStore, TypeOK
    <3>2. at[v] = "idle"
      BY <2>4, <3>1
    <3>3. at'[v] = "run" /\ cb'[v]
      BY <2>4, <3>1, <3>2 DEF LoadOrStore, TypeOK
    <3> QED BY <3>3 DEF Lost, Owns
  <2>5. ASSUME NEW v \in Videos, DownloadWorker(v) PROVE ~Lost'
    BY <2>5, OwnersStay DEF DownloadWorker, Goto, Owns, TypeOK
  <2>6. ASSUME NEW p \in Procs, OnComplete(p) PROVE ~Lost'
    BY <2>6 DEF OnComplete, Lost
  <2>7. ASSUME NEW v \in Videos, WorkerExit(v) PROVE ~Lost'
    BY <2>7, OwnersStay DEF WorkerExit, Goto, Owns, TypeOK
  <2>8. ASSUME NEW v \in Videos, OtherDownload(v) PROVE ~Lost'
    BY <2>8, OwnersStay DEF OtherDownload, Goto, Owns, TypeOK
  <2>9. ASSUME NEW v \in Videos, Evict(v) PROVE ~Lost'
    BY <2>9, OwnersStay DEF Evict, Owns
  <2> QED BY <2>1, <2>2, <2>3, <2>4, <2>5, <2>6, <2>7, <2>8, <2>9
          DEF Next, Run, StartBackgroundDownload, Environment
<1> QED BY <1>1, DownloadTypes, PTL DEF Spec, LostWhereDropped

-------------------------------------------------------------------------------
(* dlBusy is reset, if nothing happens beside the queue *)

Undisturbed == Events = {}

\* If no other part of the program downloads, no download fails and no file is
\* deleted, onComplete is always called: while dlBusy is TRUE some process is
\* bound to reset it.  The run retry shows that it need not be once a download
\* fails.
THEOREM UndisturbedIsNeverStuck ==
  ASSUME Undisturbed
  PROVE  Spec => []BusyHasOwner
<1> DEFINE Inv == TypeOK /\ SequentialDownloads /\ UndisturbedInv
<1>1. Init => UndisturbedInv
  BY DEF Init, UndisturbedInv, BusyHasOwner, Procs
<1>2. Inv /\ [Next]_vars => UndisturbedInv'
  <2> SUFFICES ASSUME TypeOK, SequentialDownloads, UndisturbedInv, [Next]_vars
               PROVE  UndisturbedInv'
    OBVIOUS
  <2> USE DEF Procs
  <2>1. ASSUME NEW h \in Handlers, NEW v \in Videos, AddToDownloadQueue(h, v) PROVE UndisturbedInv'
    BY <2>1, DownloadQueueAssumption
       DEF AddToDownloadQueue, Goto, UndisturbedInv, BusyHasOwner, Owns, TypeOK
  <2>2. ASSUME NEW p \in Procs, ProcessNextDownload(p) PROVE UndisturbedInv'
    BY <2>2 DEF ProcessNextDownload, Goto, Back, UndisturbedInv, BusyHasOwner, Owns, TypeOK
  <2>3. ASSUME NEW p \in Procs, LookOnDisk(p) PROVE UndisturbedInv'
    BY <2>3 DEF LookOnDisk, Goto, Forget, UndisturbedInv, BusyHasOwner, Owns, TypeOK
  <2>4. ASSUME NEW p \in Procs, LoadOrStore(p) PROVE UndisturbedInv'
    <3>0. PICK v : v = arg[p]
      OBVIOUS
    <3>1. v \in Videos /\ v \notin onDisk /\ at[p] = "store" /\ Owns(p)
      BY <2>4, <3>0 DEF LoadOrStore, UndisturbedInv, TypeOK, Owns
    <3>2. at[v] = "idle"
      <4>1. at[v] \in {"idle", "run"}
        BY <3>1 DEF UndisturbedInv
      <4>2. at[v] = "run" => Owns(v)
        BY <3>1 DEF UndisturbedInv, Owns
      <4>3. at[v] = "run" => v = p
        BY <3>1, <4>2 DEF SequentialDownloads
      <4> QED BY <3>1, <4>1, <4>3
    <3>3. /\ at' = [at EXCEPT ![p] = Back(p), ![v] = "run"]
          /\ cb' = [cb EXCEPT ![v] = TRUE]
          /\ arg' = [arg EXCEPT ![p] = NoVideo]
          /\ UNCHANGED <<dlBusy, onDisk>>
      BY <2>4, <3>0, <3>2 DEF LoadOrStore, Forget
    <3>4. at'[v] = "run" /\ cb'[v] /\ Owns(v)'
      BY <3>1, <3>3 DEF TypeOK, Owns
    <3>5. p # v
      BY <3>1, <3>2
    <3>6. \A q \in Procs \ {p, v} : at'[q] = at[q] /\ arg'[q] = arg[q]
      BY <3>3 DEF TypeOK
    <3>7. at'[p] = Back(p)
      BY <3>1, <3>3, <3>5 DEF TypeOK
    <3>8. \A u \in Videos : at'[u] = "run" => cb'[u]
      BY <3>1, <3>3, <3>4, <3>6, <3>7 DEF UndisturbedInv, TypeOK, Back
    <3>9. \A u \in Videos : at'[u] \notin {"idle", "run"} => u \in onDisk'
      BY <3>1, <3>3, <3>4, <3>6, <3>7 DEF UndisturbedInv
    <3>10. \A q \in Procs : at'[q] = "store" => arg'[q] \notin onDisk'
      <4> SUFFICES ASSUME NEW q \in Procs, at'[q] = "store" PROVE arg'[q] \notin onDisk'
        OBVIOUS
      <4>1. q # v /\ q # p
        BY <3>4, <3>7 DEF Back
      <4>2. at[q] = "store" /\ arg'[q] = arg[q] /\ onDisk' = onDisk
        BY <3>3, <3>6, <4>1
      <4> QED BY <4>2 DEF UndisturbedInv
    <3> QED BY <3>1, <3>4, <3>8, <3>9, <3>10 DEF UndisturbedInv, BusyHasOwner
  <2>5. ASSUME NEW v \in Videos, DownloadWorker(v) PROVE UndisturbedInv'
    <3>1. cb[v] /\ Owns(v)
      BY <2>5 DEF DownloadWorker, UndisturbedInv, Owns
    <3>2. onDisk' = onDisk \cup {v} /\ at' = [at EXCEPT ![v] = "complete"]
          /\ UNCHANGED <<dlBusy, arg, cb>>
      BY <2>5, <3>1 DEF DownloadWorker, Goto, Undisturbed
    <3>3. \A q \in Procs : at[q] # "store"
      <4>1. \A q \in Procs : at[q] = "store" => q = v
        BY <3>1 DEF SequentialDownloads, Owns
      <4> QED BY <2>5, <4>1 DEF DownloadWorker
    <3>4. BusyHasOwner'
      BY <3>2 DEF BusyHasOwner, Owns, TypeOK
    <3> QED BY <3>2, <3>3, <3>4 DEF UndisturbedInv, TypeOK
  <2>6. ASSUME NEW p \in Procs, OnComplete(p) PROVE UndisturbedInv'
    BY <2>6 DEF OnComplete, Goto, UndisturbedInv, BusyHasOwner, TypeOK
  <2>7. ASSUME NEW v \in Videos, WorkerExit(v) PROVE UndisturbedInv'
    BY <2>7 DEF WorkerExit, Goto, UndisturbedInv, BusyHasOwner, Owns, TypeOK
  <2>8. ASSUME NEW v \in Videos, Environment(v) PROVE UndisturbedInv'
    BY <2>8 DEF Environment, OtherDownload, Evict, Undisturbed
  <2>9. CASE UNCHANGED vars
    BY <2>9 DEF vars, UndisturbedInv, BusyHasOwner, Owns
  <2> QED BY <2>1, <2>2, <2>3, <2>4, <2>5, <2>6, <2>7, <2>8, <2>9
          DEF Next, Run, StartBackgroundDownload
<1>3. UndisturbedInv => BusyHasOwner
  BY DEF UndisturbedInv
<1> QED BY <1>1, <1>2, <1>3, DownloadTypes, Sequential, PTL DEF Spec
===============================================================================
