---------------------------- MODULE PlayQueueProofs ----------------------------
(***************************************************************************)
(* Theorems about PlayQueue, for every set of workers, videos and commands  *)
(* and every value of the bounds.  Each rests on TypeCorrect and on an       *)
(* inductive invariant of PlayQueue; lemmas say what the statements of the   *)
(* table preserve and what they can make of a row's status.                 *)
(***************************************************************************)
EXTENDS PlayQueue, SequenceTheorems, TLAPS

-------------------------------------------------------------------------------
(* The table: what each statement preserves *)

\* EnqueueTrack keeps the table well-typed; its id is an id.
LEMMA EnqueueTrackType ==
  ASSUME TableTypeOK, NEW v \in MaybeVideo, NEW s \in Statuses, EnqueueTrack(v, s)
  PROVE  TableTypeOK' /\ lastId + 1 \in Ids
<1>1. lastId + 1 \in Ids /\ lastId + 1 \in 0 .. MaxId
  BY IdsAssumption DEF TableTypeOK, EnqueueTrack, Ids
<1>2. status' \in [Ids -> Statuses \cup {"ABSENT"}]
  BY DEF TableTypeOK, EnqueueTrack, Insert
<1>3. video' \in [Ids -> Videos \cup {NoVideo}]
  BY DEF TableTypeOK, EnqueueTrack, Insert, MaybeVideo
<1>4. \A i \in Ids : i > lastId' => status'[i] = "ABSENT"
  <2> SUFFICES ASSUME NEW i \in Ids, i > lastId' PROVE status'[i] = "ABSENT"
    OBVIOUS
  <2>1. i > lastId /\ i # lastId + 1
    BY IdsAssumption DEF TableTypeOK, EnqueueTrack, Ids
  <2> QED BY <2>1 DEF TableTypeOK, EnqueueTrack, Insert
<1> QED BY <1>1, <1>2, <1>3, <1>4 DEF TableTypeOK, EnqueueTrack

\* EnqueueTrackAtFront keeps the table well-typed.
LEMMA EnqueueTrackAtFrontType ==
  ASSUME TableTypeOK, NEW v \in MaybeVideo, NEW s \in Statuses, EnqueueTrackAtFront(v, s)
  PROVE  TableTypeOK'
<1> PICK i \in Ids : IsFrontId(i) /\ Insert(i, v, s) /\ UNCHANGED lastId
  BY DEF EnqueueTrackAtFront
<1>1. i <= lastId
  <2>1. CASE i = -1
    BY <2>1 DEF TableTypeOK
  <2>2. CASE i + 1 \in Ids /\ IsFirst(i + 1, Statuses)
    <3>1. status[i + 1] # "ABSENT"
      BY <2>2 DEF IsFirst, Statuses, Waiting, Finished
    <3>2. ~ (i + 1 > lastId)
      BY <2>2, <3>1 DEF TableTypeOK
    <3> QED BY <2>2, <3>2, IdsAssumption DEF Ids, TableTypeOK
  <2> QED BY <2>1, <2>2 DEF IsFrontId
<1>2. status' \in [Ids -> Statuses \cup {"ABSENT"}]
  BY DEF TableTypeOK, Insert
<1>3. video' \in [Ids -> Videos \cup {NoVideo}]
  BY DEF TableTypeOK, Insert, MaybeVideo
<1>4. \A j \in Ids : j > lastId' => status'[j] = "ABSENT"
  <2> SUFFICES ASSUME NEW j \in Ids, j > lastId' PROVE status'[j] = "ABSENT"
    OBVIOUS
  <2>1. j > lastId /\ j # i
    BY <1>1, IdsAssumption DEF TableTypeOK, Ids
  <2> QED BY <2>1 DEF TableTypeOK, Insert
<1> QED BY <1>2, <1>3, <1>4 DEF TableTypeOK

\* SetQueueStatus keeps the table well-typed.
LEMMA SetQueueStatusType ==
  ASSUME TableTypeOK, NEW i, NEW s \in Statuses, SetQueueStatus(i, s)
  PROVE  TableTypeOK'
BY DEF TableTypeOK, SetQueueStatus, Present

\* ClearQueue keeps the table well-typed.
LEMMA ClearTableType ==
  ASSUME TableTypeOK, ClearTable
  PROVE  TableTypeOK'
BY DEF TableTypeOK, ClearTable, Statuses

-------------------------------------------------------------------------------
(* Type correctness *)

\* A worker moves to a label with well-typed locals.
LEMMA GotoType ==
  ASSUME NEW w \in Workers, NEW l \in Labels, NEW j \in Jobs,
         pc \in [Workers -> Labels], job \in [Workers -> Jobs], Goto(w, l, j)
  PROVE  pc' \in [Workers -> Labels] /\ job' \in [Workers -> Jobs]
BY DEF Goto

\* The locals that commands, playQueueEntry and playTrackFromAutoplay start with.
LEMMA JobType ==
  /\ \A c \in AllCommands \cup {"none"}, v, o \in MaybeVideo, i \in MaybeId :
       MkJob(c, v, o, i) \in Jobs
  /\ NoJob \in Jobs
  /\ \A c \in AllCommands, v \in MaybeVideo : Job(c, v) \in Jobs
  /\ \A v \in MaybeVideo, i \in MaybeId : Player(v, i) \in Jobs
BY DEF MkJob, NoJob, Job, Player, Jobs, MaybeVideo, MaybeId

\* GetPlayingEntry takes a worker to a label of its command.
LEMMA LookPlayingType ==
  ASSUME TypeOK, NEW w \in Workers, NEW j \in Jobs, NEW l \in Labels,
         LookPlaying(w, j, l)
  PROVE  pc' \in [Workers -> Labels] /\ job' \in [Workers -> Jobs]
<1>1. CASE NothingPlaying /\ Goto(w, l, j)
  BY <1>1, GotoType DEF TypeOK
<1>2. ASSUME NEW i \in Ids, NEW o \in MaybeVideo,
             Goto(w, "complete", MkJob(j.cmd, j.vid, o, i))
      PROVE  pc' \in [Workers -> Labels] /\ job' \in [Workers -> Jobs]
  <2>1. MkJob(j.cmd, j.vid, o, i) \in Jobs
    BY JobType DEF Jobs, MaybeId
  <2>2. "complete" \in Labels
    BY DEF Labels
  <2> QED BY <1>2, <2>1, <2>2, GotoType DEF TypeOK
<1>3. \A i \in Ids : video[i] \in MaybeVideo /\ NoVideo \in MaybeVideo
  BY DEF TypeOK, TableTypeOK, MaybeVideo
<1> QED BY <1>1, <1>2, <1>3 DEF LookPlaying

\* The first statement of every command.
LEMMA DispatchType ==
  ASSUME TypeOK, NEW w \in Workers, Dispatch(w)
  PROVE  TypeOK'
<1> USE JobType DEF memVars, procVars, tableVars, Accepts
<1>0. NoVideo \in MaybeVideo /\ \A v \in Videos : v \in MaybeVideo
  BY DEF MaybeVideo
<1>1. ASSUME NEW v \in Videos, PlayNow(w, v) PROVE TypeOK'
  <2>1. "look" \in Labels /\ Job("play", v) \in Jobs
    BY <1>0 DEF Labels, AllCommands
  <2>2. pc' \in [Workers -> Labels] /\ job' \in [Workers -> Jobs]
    BY <1>1, <2>1, GotoType DEF PlayNow, TypeOK
  <2>3. pool' \in Seq(Videos) /\ Len(pool') <= MaxPool
    BY <1>1, PlayQueueAssumption DEF PlayNow
  <2> QED BY <1>1, <2>2, <2>3 DEF PlayNow, TypeOK, TableTypeOK
<1>2. ASSUME NEW v \in Videos, QueueAdd(w, v) PROVE TypeOK'
  <2>1. TableTypeOK'
    BY <1>0, <1>2, EnqueueTrackType DEF QueueAdd, TypeOK, Statuses
  <2>2. pc' \in [Workers -> Labels] /\ job' \in [Workers -> Jobs]
    BY <1>2, GotoType DEF QueueAdd, TypeOK, Labels
  <2> QED BY <1>2, <2>1, <2>2 DEF QueueAdd, TypeOK
<1>3. ASSUME NEW v \in Videos, PlayNext(w, v) PROVE TypeOK'
  <2>1. TableTypeOK'
    BY <1>0, <1>3, EnqueueTrackAtFrontType DEF PlayNext, TypeOK, Statuses
  <2>2. pc' \in [Workers -> Labels] /\ job' \in [Workers -> Jobs]
    BY <1>3, GotoType DEF PlayNext, TypeOK, Labels
  <2> QED BY <1>3, <2>1, <2>2 DEF PlayNext, TypeOK
<1>4. CASE Skip(w) \/ PlaybackFinished(w)
  <2>1. pc' \in [Workers -> Labels] /\ job' \in [Workers -> Jobs]
    BY <1>4, LookPlayingType DEF Skip, PlaybackFinished, Labels
  <2> QED BY <1>4, <2>1 DEF Skip, PlaybackFinished, TypeOK, TableTypeOK
<1>5. CASE Previous(w)
  <2>1. PICK v \in {history[2], NoVideo} : Goto(w, "look", Job("previous", v))
    BY <1>5 DEF Previous
  <2>2. v \in MaybeVideo
    BY <1>0, <1>5 DEF Previous, TypeOK, Entries
  <2>3. "look" \in Labels /\ Job("previous", v) \in Jobs
    BY <2>2 DEF Labels, AllCommands
  <2>4. pc' \in [Workers -> Labels] /\ job' \in [Workers -> Jobs]
    BY <2>1, <2>3, GotoType DEF TypeOK
  <2> QED BY <1>5, <2>4 DEF Previous, TypeOK, TableTypeOK
<1>6. CASE StopAll(w)
  <2>1. "look" \in Labels /\ Job("stop", NoVideo) \in Jobs
    BY <1>0 DEF Labels, AllCommands
  <2>2. pc' \in [Workers -> Labels] /\ job' \in [Workers -> Jobs]
    BY <1>6, <2>1, GotoType DEF StopAll, TypeOK
  <2>3. pool' \in Seq(Videos) /\ Len(pool') <= MaxPool
    BY <1>6, PlayQueueAssumption DEF StopAll
  <2> QED BY <1>0, <1>6, <2>2, <2>3 DEF StopAll, TypeOK, TableTypeOK
<1>7. CASE ClearQueue(w)
  <2>1. TableTypeOK'
    BY <1>7, ClearTableType DEF ClearQueue, TypeOK
  <2> QED BY <1>7, <2>1 DEF ClearQueue, TypeOK
<1>8. CASE Shuffle(w)
  <2>1. pc' \in [Workers -> Labels] /\ job' \in [Workers -> Jobs]
    BY <1>8, GotoType DEF Shuffle, TypeOK, Labels
  <2>2. batch' \subseteq Rows
    BY <1>8 DEF Shuffle, WaitingRows, Rows, TypeOK, TableTypeOK, MaybeVideo
  <2> QED BY <1>8, <2>1, <2>2 DEF Shuffle, TypeOK, TableTypeOK
<1>9. ASSUME NEW on \in BOOLEAN, SetAutoplay(w, on) PROVE TypeOK'
  <2>1. pool' \in Seq(Videos) /\ Len(pool') <= MaxPool
    BY <1>9, PlayQueueAssumption DEF SetAutoplay, TypeOK
  <2> QED BY <1>9, <2>1 DEF SetAutoplay, TypeOK, TableTypeOK
<1> QED BY <1>1, <1>2, <1>3, <1>4, <1>5, <1>6, <1>7, <1>8, <1>9 DEF Dispatch

\* Every later statement of a command, of advanceQueue and of what it starts.
LEMMA ContinueType ==
  ASSUME TypeOK, NEW w \in Workers, Continue(w)
  PROVE  TypeOK'
<1> USE JobType DEF memVars, procVars, tableVars, Goon, GoAdvance, Finish
<1>0. /\ job[w] \in Jobs /\ job[w].vid \in MaybeVideo /\ job[w].old \in MaybeVideo
      /\ NoVideo \in MaybeVideo /\ NoId \in MaybeId
      /\ \A i \in Ids : i \in MaybeId /\ video[i] \in MaybeVideo
      /\ \A v \in Videos : v \in MaybeVideo
  BY DEF TypeOK, TableTypeOK, Jobs, MaybeVideo, MaybeId
<1>1. CASE Look(w)
  <2>1. pc' \in [Workers -> Labels] /\ job' \in [Workers -> Jobs]
    BY <1>0, <1>1, LookPlayingType DEF Look, Labels
  <2> QED BY <1>1, <2>1 DEF Look, TypeOK, TableTypeOK
<1>2. CASE Check(w)
  <2>1. pc' \in [Workers -> Labels] /\ job' \in [Workers -> Jobs]
    BY <1>2, GotoType DEF Check, TypeOK, Labels
  <2> QED BY <1>2, <2>1 DEF Check, TypeOK, TableTypeOK
<1>3. CASE Complete(w)
  <2>1. TableTypeOK'
    BY <1>3, SetQueueStatusType DEF Complete, TypeOK, Statuses, Finished
  <2>2. pc' \in [Workers -> Labels] /\ job' \in [Workers -> Jobs]
    BY <1>0, <1>3, GotoType DEF Complete, TypeOK, Labels
  <2> QED BY <1>3, <2>1, <2>2 DEF Complete, TypeOK
<1>4. CASE EnqueueNow(w)
  <2>1. TableTypeOK' /\ lastId + 1 \in MaybeId
    BY <1>0, <1>4, EnqueueTrackType DEF EnqueueNow, TypeOK, Statuses, Waiting
  <2>2. MkJob("play", job[w].vid, NoVideo, lastId + 1) \in Jobs
    BY <1>0, <2>1 DEF AllCommands
  <2>3. pc' \in [Workers -> Labels] /\ job' \in [Workers -> Jobs]
    BY <1>4, <2>2, GotoType DEF EnqueueNow, TypeOK, Labels
  <2> QED BY <1>4, <2>1, <2>3 DEF EnqueueNow, TypeOK
<1>5. CASE MarkReady(w)
  <2>1. TableTypeOK'
    BY <1>5, SetQueueStatusType DEF MarkReady, TypeOK, Statuses, Waiting
  <2>2. pc' \in [Workers -> Labels] /\ job' \in [Workers -> Jobs]
    BY <1>0, <1>5, GotoType DEF MarkReady, TypeOK, Labels
  <2> QED BY <1>5, <2>1, <2>2 DEF MarkReady, TypeOK
<1>6. CASE ReenqueueCurrent(w)
  <2>1. TableTypeOK'
    BY <1>0, <1>6, EnqueueTrackAtFrontType DEF ReenqueueCurrent, TypeOK, Statuses
  <2>2. pc' \in [Workers -> Labels] /\ job' \in [Workers -> Jobs]
    BY <1>0, <1>6, GotoType DEF ReenqueueCurrent, TypeOK, Labels
  <2> QED BY <1>6, <2>1, <2>2 DEF ReenqueueCurrent, TypeOK
<1>7. CASE EnqueuePrevious(w)
  <2>1. TableTypeOK'
    BY <1>0, <1>7, EnqueueTrackAtFrontType DEF EnqueuePrevious, TypeOK, Statuses, Waiting
  <2>2. pc' \in [Workers -> Labels] /\ job' \in [Workers -> Jobs]
    BY <1>7, GotoType DEF EnqueuePrevious, TypeOK, Labels
  <2> QED BY <1>7, <2>1, <2>2 DEF EnqueuePrevious, TypeOK
<1>8. CASE StopClear(w) \/ ShuffleClear(w)
  <2>1. TableTypeOK'
    BY <1>8, ClearTableType DEF StopClear, ShuffleClear, TypeOK
  <2>2. pc' \in [Workers -> Labels] /\ job' \in [Workers -> Jobs]
    BY <1>0, <1>8, GotoType DEF StopClear, ShuffleClear, TypeOK, Labels
  <2> QED BY <1>8, <2>1, <2>2 DEF StopClear, ShuffleClear, TypeOK
<1>9. CASE ShuffleInsert(w)
  <2>1. PICK r \in batch : EnqueueTrack(r.vid, r.st) /\ batch' = batch \ {r}
    BY <1>9 DEF ShuffleInsert
  <2>2. r.vid \in MaybeVideo /\ r.st \in Statuses
    BY DEF TypeOK, Rows, Statuses
  <2>3. TableTypeOK'
    BY <2>1, <2>2, EnqueueTrackType DEF TypeOK
  <2>4. pc' \in [Workers -> Labels] /\ job' \in [Workers -> Jobs]
    BY <1>9, GotoType DEF ShuffleInsert, TypeOK, Labels
  <2>5. batch' \subseteq Rows
    BY <2>1 DEF TypeOK
  <2> QED BY <1>9, <2>3, <2>4, <2>5 DEF ShuffleInsert, TypeOK
<1>10. CASE AdvanceQueue(w)
  <2>1. pc' \in [Workers -> Labels] /\ job' \in [Workers -> Jobs]
    <3>1. ASSUME NEW i \in Ids, Goto(w, "start", Player(video[i], i))
          PROVE  pc' \in [Workers -> Labels] /\ job' \in [Workers -> Jobs]
      <4>1. "start" \in Labels /\ Player(video[i], i) \in Jobs
        BY <1>0 DEF Labels
      <4> QED BY <3>1, <4>1, GotoType DEF TypeOK
    <3>2. ASSUME pool # <<>>, Goto(w, "autoplay", Player(Head(pool), NoId))
          PROVE  pc' \in [Workers -> Labels] /\ job' \in [Workers -> Jobs]
      <4>1. Head(pool) \in Videos
        BY <3>2, HeadTailProperties DEF TypeOK
      <4>2. "autoplay" \in Labels /\ Player(Head(pool), NoId) \in Jobs
        BY <1>0, <4>1 DEF Labels
      <4> QED BY <3>2, <4>2, GotoType DEF TypeOK
    <3>3. ASSUME Finish(w)
          PROVE  pc' \in [Workers -> Labels] /\ job' \in [Workers -> Jobs]
      <4>1. "idle" \in Labels
        BY DEF Labels
      <4> QED BY <3>3, <4>1, GotoType DEF TypeOK
    <3> QED BY <1>10, <3>1, <3>2, <3>3 DEF AdvanceQueue
  <2>2. pool' \in Seq(Videos) /\ Len(pool') <= MaxPool
    <3>1. CASE pool # <<>> /\ pool' = Tail(pool)
      <4>1. Tail(pool) \in Seq(Videos) /\ Len(Tail(pool)) = Len(pool) - 1
        BY <3>1, HeadTailProperties DEF TypeOK
      <4>2. Len(pool) \in Nat
        BY LenProperties DEF TypeOK
      <4> QED BY <3>1, <4>1, <4>2, PlayQueueAssumption DEF TypeOK
    <3>2. CASE pool' = pool
      BY <3>2 DEF TypeOK
    <3> QED BY <1>10, <3>1, <3>2 DEF AdvanceQueue
  <2>3. current' \in MaybeVideo
    BY <1>0, <1>10 DEF AdvanceQueue, TypeOK
  <2>4. TableTypeOK'
    BY <1>10 DEF AdvanceQueue, TypeOK, TableTypeOK
  <2> QED BY <1>10, <2>1, <2>2, <2>3, <2>4 DEF AdvanceQueue, TypeOK
<1>11. CASE PlayTrackFromAutoplay(w)
  <2>1. TableTypeOK' /\ lastId + 1 \in MaybeId
    BY <1>0, <1>11, EnqueueTrackType DEF PlayTrackFromAutoplay, TypeOK, Statuses, Waiting
  <2>2. pc' \in [Workers -> Labels] /\ job' \in [Workers -> Jobs]
    BY <1>0, <1>11, <2>1, GotoType DEF PlayTrackFromAutoplay, TypeOK, Labels
  <2> QED BY <1>11, <2>1, <2>2 DEF PlayTrackFromAutoplay, TypeOK
<1>12. CASE StartStream(w)
  <2>1. pc' \in [Workers -> Labels] /\ job' \in [Workers -> Jobs]
    BY <1>0, <1>12, GotoType DEF StartStream, TypeOK, Labels
  <2> QED BY <1>0, <1>12, <2>1 DEF StartStream, TypeOK, TableTypeOK
<1>13. CASE MarkPlaying(w)
  <2>1. TableTypeOK'
    BY <1>13, SetQueueStatusType DEF MarkPlaying, TypeOK, Statuses
  <2>2. pc' \in [Workers -> Labels] /\ job' \in [Workers -> Jobs]
    BY <1>0, <1>13, GotoType DEF MarkPlaying, TypeOK, Labels
  <2> QED BY <1>13, <2>1, <2>2 DEF MarkPlaying, TypeOK
<1>14. CASE SetCurrent(w) \/ SavePlayHistory(w)
  <2>1. pc' \in [Workers -> Labels] /\ job' \in [Workers -> Jobs]
    BY <1>0, <1>14, GotoType DEF SetCurrent, SavePlayHistory, TypeOK, Labels
  <2>2. history' \in Entries \X Entries /\ current' \in MaybeVideo
    BY <1>0, <1>14 DEF SetCurrent, SavePlayHistory, TypeOK, Entries
  <2> QED BY <1>14, <2>1, <2>2 DEF SetCurrent, SavePlayHistory, TypeOK, TableTypeOK
<1>15. CASE EnrichRecommendations(w)
  <2>1. pc' \in [Workers -> Labels] /\ job' \in [Workers -> Jobs]
    BY <1>0, <1>15, GotoType DEF EnrichRecommendations, TypeOK, Labels
  <2>2. pool' \in Seq(Videos) /\ Len(pool') <= MaxPool
    <3>1. PICK n \in 0 .. MaxPool - Len(pool) : \E more \in [1 .. n -> Videos] :
                 pool' = pool \o more
      BY <1>15 DEF EnrichRecommendations
    <3>2. PICK more \in [1 .. n -> Videos] : pool' = pool \o more
      BY <3>1
    <3>3. Len(pool) \in Nat /\ n \in Nat
      BY <3>1, LenProperties DEF TypeOK
    <3>4. more \in Seq(Videos) /\ Len(more) = n
      <4>1. n = Len(more)
        BY <3>3 
      <4>2. more \in Seq(Videos)
        BY <3>3, IsASeq
      <4> QED BY <4>1, <4>2
    <3>5. pool \o more \in Seq(Videos) /\ Len(pool \o more) = Len(pool) + n
      <4>1. pool \in Seq(Videos)
        BY DEF TypeOK
      <4>2. pool \o more \in Seq(Videos) /\ Len(pool \o more) = Len(pool) + Len(more)
        BY <3>4, <4>1, ConcatProperties, Zenon
      <4> QED BY <3>4, <4>2
    <3> QED BY <3>1, <3>2, <3>3, <3>5, PlayQueueAssumption
  <2> QED BY <1>15, <2>1, <2>2 DEF EnrichRecommendations, TypeOK, TableTypeOK
<1> QED
  BY <1>1, <1>2, <1>3, <1>4, <1>5, <1>6, <1>7, <1>8, <1>9, <1>10, <1>11, <1>12,
     <1>13, <1>14, <1>15 DEF Continue

\* The prefetch worker, a restart and RecoverFromRestart.
LEMMA ProcessType ==
  ASSUME TypeOK, StartPrefetchWorker \/ Restart \/ RecoverFromRestart
  PROVE  TypeOK'
<1> USE JobType DEF memVars, procVars, tableVars
<1>0. NoVideo \in MaybeVideo /\ NoId \in MaybeId /\ \A i \in Ids : i \in MaybeId
  BY DEF MaybeVideo, MaybeId
<1>1. CASE PrefetchPick
  BY <1>0, <1>1 DEF PrefetchPick, TypeOK, TableTypeOK
<1>2. CASE PrefetchClaim
  <2>1. TableTypeOK'
    BY <1>2, SetQueueStatusType DEF PrefetchClaim, TypeOK, Statuses
  <2> QED BY <1>2, <2>1 DEF PrefetchClaim, TypeOK
<1>3. CASE PrefetchEnd
  <2>1. TableTypeOK'
    BY <1>3, SetQueueStatusType DEF PrefetchEnd, TypeOK, Statuses, Waiting, Finished
  <2> QED BY <1>0, <1>3, <2>1 DEF PrefetchEnd, TypeOK
<1>4. CASE Restart
  <2>1. pc' \in [Workers -> Labels] /\ job' \in [Workers -> Jobs]
    BY <1>4 DEF Restart, Labels
  <2>2. pool' \in Seq(Videos) /\ Len(pool') <= MaxPool
    BY <1>4, PlayQueueAssumption DEF Restart
  <2>3. restarts' \in 0 .. MaxRestarts
    BY <1>4, PlayQueueAssumption DEF Restart, TypeOK
  <2> QED BY <1>0, <1>4, <2>1, <2>2, <2>3 DEF Restart, TypeOK, TableTypeOK
<1>5. CASE RecoverLook
  BY <1>0, <1>5 DEF RecoverLook, TypeOK, TableTypeOK
<1>6. CASE RecoverFail
  <2>1. TableTypeOK'
    BY <1>6, SetQueueStatusType DEF RecoverFail, TypeOK, Statuses, Finished
  <2> QED BY <1>0, <1>6, <2>1 DEF RecoverFail, TypeOK
<1> QED
  BY <1>1, <1>2, <1>3, <1>4, <1>5, <1>6 DEF StartPrefetchWorker, RecoverFromRestart

\* The type invariant of the play queue: rows, Manager state, streamer and every
\* worker, for any workers, videos, commands and bounds.
THEOREM TypeCorrect == Spec => []TypeOK
<1>1. Init => TypeOK
  <2> SUFFICES ASSUME Init PROVE TypeOK
    OBVIOUS
  <2>1. TableTypeOK
    BY IdsAssumption DEF Init, TableInit, TableTypeOK, Ids
  <2>2. pc \in [Workers -> Labels] /\ job \in [Workers -> Jobs]
    BY JobType DEF Init, Labels
  <2>3. pool \in Seq(Videos) /\ Len(pool) <= MaxPool
    BY PlayQueueAssumption DEF Init
  <2>4. restarts \in 0 .. MaxRestarts
    BY PlayQueueAssumption DEF Init
  <2> QED
    BY <2>1, <2>2, <2>3, <2>4 DEF Init, TypeOK, MaybeVideo, MaybeId, Entries
<1>2. TypeOK /\ [Next]_vars => TypeOK'
  <2> SUFFICES ASSUME TypeOK, [Next]_vars PROVE TypeOK'
    OBVIOUS
  <2> USE JobType
  <2>1. ASSUME NEW w \in Workers, Dispatch(w) PROVE TypeOK'
    BY <2>1, DispatchType
  <2>2. ASSUME NEW w \in Workers, Continue(w) PROVE TypeOK'
    BY <2>2, ContinueType
  <2>3. CASE StartPrefetchWorker \/ Restart \/ RecoverFromRestart
    BY <2>3, ProcessType
  <2>4. CASE UNCHANGED vars
    BY <2>4 DEF vars, TypeOK, TableTypeOK
  <2> QED BY <2>1, <2>2, <2>3, <2>4 DEF Next
<1> QED BY <1>1, <1>2, PTL DEF Spec

-------------------------------------------------------------------------------
(* Statements and statuses *)

\* The step gives no row the status x that did not have it.
NoNew(x) == \A i \in Ids : status'[i] = x => status[i] = x

\* An insertion makes no row of a status it does not insert.
LEMMA EnqueueNoNew ==
  ASSUME TypeOK, NEW v, NEW s, NEW x, s # x,
         EnqueueTrack(v, s) \/ EnqueueTrackAtFront(v, s)
  PROVE  NoNew(x)
BY DEF TypeOK, TableTypeOK, EnqueueTrack, EnqueueTrackAtFront, Insert, NoNew

\* SetQueueStatus makes no row of a status it does not write.
LEMMA UpdateNoNew ==
  ASSUME NEW i, NEW s, NEW x, s # x, SetQueueStatus(i, s)
  PROVE  NoNew(x)
BY DEF SetQueueStatus, NoNew

\* ClearQueue makes no row of any status.
LEMMA ClearNoNew ==
  ASSUME NEW x, x # "ABSENT", ClearTable
  PROVE  NoNew(x)
BY DEF ClearTable, NoNew

\* Nor does a step that leaves the statuses alone.
LEMMA SameNoNew ==
  ASSUME NEW x, UNCHANGED status
  PROVE  NoNew(x)
BY DEF NoNew

\* No step of a worker but MarkPlaying makes a row PLAYING, none but Complete
\* completes one, and none makes one PREFETCHING.
LEMMA DispatchNoNew ==
  ASSUME TypeOK, NEW w \in Workers, Dispatch(w), NEW x \in {"PLAYING", "PREFETCHING", "COMPLETED"}
  PROVE  NoNew(x)
<1> USE DEF tableVars
<1>1. ASSUME NEW v \in Videos, QueueAdd(w, v) \/ PlayNext(w, v) PROVE NoNew(x)
  BY <1>1, EnqueueNoNew DEF QueueAdd, PlayNext, Waiting
<1>2. CASE ClearQueue(w)
  BY <1>2, ClearNoNew DEF ClearQueue
<1>3. ASSUME \/ \E v \in Videos : PlayNow(w, v)
             \/ Skip(w) \/ PlaybackFinished(w) \/ Previous(w) \/ StopAll(w) \/ Shuffle(w)
             \/ \E on \in BOOLEAN : SetAutoplay(w, on)
      PROVE  NoNew(x)
  BY <1>3, SameNoNew DEF PlayNow, Skip, PlaybackFinished, Previous, StopAll, Shuffle, SetAutoplay
<1> QED BY <1>1, <1>2, <1>3 DEF Dispatch

\* The same for the later statements of a command.
LEMMA ContinueNoNew ==
  ASSUME TypeOK, NEW w \in Workers, Continue(w), NEW x \in {"PLAYING", "PREFETCHING", "COMPLETED"},
         MarkPlaying(w) => x # "PLAYING", Complete(w) => x # "COMPLETED"
  PROVE  NoNew(x)
<1> USE DEF tableVars
<1>1. CASE EnqueueNow(w) \/ ReenqueueCurrent(w) \/ EnqueuePrevious(w) \/ PlayTrackFromAutoplay(w)
  BY <1>1, EnqueueNoNew
     DEF EnqueueNow, ReenqueueCurrent, EnqueuePrevious, PlayTrackFromAutoplay, Waiting
<1>2. CASE ShuffleInsert(w)
  <2>1. PICK r \in batch : EnqueueTrack(r.vid, r.st)
    BY <1>2 DEF ShuffleInsert
  <2>2. r.st \in Waiting
    BY DEF TypeOK, Rows
  <2> QED BY <2>1, <2>2, EnqueueNoNew DEF Waiting
<1>3. CASE StopClear(w) \/ ShuffleClear(w)
  BY <1>3, ClearNoNew DEF StopClear, ShuffleClear
<1>4. CASE Complete(w) \/ MarkReady(w)
  BY <1>4, UpdateNoNew DEF Complete, MarkReady
<1>5. CASE MarkPlaying(w)
  BY <1>5, UpdateNoNew DEF MarkPlaying
<1>6. CASE \/ Look(w) \/ Check(w) \/ AdvanceQueue(w) \/ StartStream(w)
           \/ SetCurrent(w) \/ SavePlayHistory(w) \/ EnrichRecommendations(w)
  BY <1>6, SameNoNew
     DEF Look, Check, AdvanceQueue, StartStream, SetCurrent, SavePlayHistory, EnrichRecommendations
<1> QED BY <1>1, <1>2, <1>3, <1>4, <1>5, <1>6 DEF Continue

-------------------------------------------------------------------------------
(* Ownership of PREFETCHING rows *)

\* A command touches neither the prefetch worker nor main.
LEMMA WorkerKeepsProcesses ==
  ASSUME NEW w \in Workers, Dispatch(w) \/ Continue(w)
  PROVE  UNCHANGED <<pf, boot, inherited, restarts>>
<1>1. CASE Dispatch(w)
  BY <1>1 DEF Dispatch, PlayNow, QueueAdd, PlayNext, Skip, PlaybackFinished, Previous,
     StopAll, ClearQueue, Shuffle, SetAutoplay, procVars
<1>2. CASE Continue(w)
  BY <1>2 DEF Continue, Look, Check, Complete, EnqueueNow, MarkReady, ReenqueueCurrent,
     EnqueuePrevious, StopClear, ShuffleClear, ShuffleInsert, AdvanceQueue,
     PlayTrackFromAutoplay, StartStream, MarkPlaying, SetCurrent, SavePlayHistory,
     EnrichRecommendations, procVars
<1> QED BY <1>1, <1>2

\* Whatever the workers do, however many there are and whenever the process
\* restarts: a PREFETCHING row is in the hands of the prefetch worker or was
\* left by a process that died.  No command strands one.
THEOREM PrefetchOwned == Spec => []PrefetchOwnership
<1>1. Init => PrefetchOwnership
  BY DEF Init, TableInit, PrefetchOwnership
<1>2. TypeOK /\ PrefetchOwnership /\ [Next]_vars => PrefetchOwnership'
  <2> SUFFICES ASSUME TypeOK, PrefetchOwnership, [Next]_vars PROVE PrefetchOwnership'
    OBVIOUS
  <2>1. ASSUME NEW w \in Workers, Dispatch(w) \/ Continue(w) PROVE PrefetchOwnership'
    <3>1. NoNew("PREFETCHING")
      BY <2>1, DispatchNoNew, ContinueNoNew
    <3>2. UNCHANGED <<pf, inherited>>
      BY <2>1, WorkerKeepsProcesses
    <3> QED BY <3>1, <3>2 DEF PrefetchOwnership, NoNew
  <2>2. CASE PrefetchPick
    BY <2>2 DEF PrefetchPick, PrefetchOwnership, tableVars
  <2>3. CASE PrefetchClaim
    BY <2>3 DEF PrefetchClaim, SetQueueStatus, PrefetchOwnership, TypeOK
  <2>4. CASE PrefetchEnd
    BY <2>4 DEF PrefetchEnd, SetQueueStatus, Present, PrefetchOwnership, TypeOK, TableTypeOK
  <2>5. CASE Restart
    BY <2>5 DEF Restart, PrefetchOwnership, tableVars
  <2>6. CASE RecoverLook
    BY <2>6 DEF RecoverLook, PrefetchOwnership, tableVars
  <2>7. CASE RecoverFail
    <3>1. NoNew("PREFETCHING")
      BY <2>7, UpdateNoNew DEF RecoverFail
    <3> QED BY <2>7, <3>1 DEF RecoverFail, PrefetchOwnership, NoNew
  <2>8. CASE UNCHANGED vars
    BY <2>8 DEF vars, PrefetchOwnership
  <2> QED
    BY <2>1, <2>2, <2>3, <2>4, <2>5, <2>6, <2>7, <2>8
       DEF Next, StartPrefetchWorker, RecoverFromRestart
<1> QED BY <1>1, <1>2, TypeCorrect, PTL DEF Spec

-------------------------------------------------------------------------------
(* One PLAYING row, for commands sent one at a time *)

OneAtATime == \A u, w \in Workers : u = w

\* The prefetch worker and main make no row PLAYING and move no worker.
LEMMA SerialProcess ==
  ASSUME SerialInv, NoNew("PLAYING"), UNCHANGED <<pc, job>>
  PROVE  SerialInv'
BY DEF SerialInv, NoNew, AtMostOnePlaying, NothingPlaying, Exists

\* The worker moves to l with locals j.
LEMMA SerialMove ==
  ASSUME TypeOK, SerialInv, OneAtATime, NEW w \in Workers, NEW l, NEW j,
         Goto(w, l, j), NoNew("PLAYING"),
         l \in AfterComplete => NothingPlaying,
         l = "complete" => \A i \in Ids : status[i] = "PLAYING" => i = j.row
  PROVE  SerialInv'
<1>1. \A u \in Workers : u = w /\ pc'[u] = l /\ job'[u] = j
  BY DEF TypeOK, Goto, OneAtATime
<1> QED BY <1>1 DEF SerialInv, NoNew, AtMostOnePlaying, NothingPlaying, Exists

\* GetPlayingEntry finds the one PLAYING row, or the worker goes on with none.
LEMMA SerialLook ==
  ASSUME TypeOK, SerialInv, OneAtATime, NEW w \in Workers, NEW l, NEW j,
         LookPlaying(w, j, l), NoNew("PLAYING"), l # "complete"
  PROVE  SerialInv'
<1>1. CASE NothingPlaying /\ Goto(w, l, j)
  BY <1>1, SerialMove
<1>2. ASSUME NEW i \in Ids, NEW o, IsPlayingEntry(i), Goto(w, "complete", MkJob(j.cmd, j.vid, o, i))
      PROVE  SerialInv'
  <2>1. \A k \in Ids : status[k] = "PLAYING" => k = i
    BY <1>2 DEF IsPlayingEntry, IsFirst, SerialInv, AtMostOnePlaying
  <2>2. MkJob(j.cmd, j.vid, o, i).row = i /\ "complete" \notin AfterComplete
    BY DEF MkJob, AfterComplete
  <2> QED BY <1>2, <2>1, <2>2, SerialMove
<1> QED BY <1>1, <1>2 DEF LookPlaying

\* The first statement of a command that has no other beside it.
LEMMA SerialDispatch ==
  ASSUME TypeOK, SerialInv, OneAtATime, NEW w \in Workers, Dispatch(w)
  PROVE  SerialInv'
<1>0. NoNew("PLAYING")
  BY DispatchNoNew
<1>1. ASSUME \/ \E v \in Videos : PlayNow(w, v) \/ QueueAdd(w, v) \/ PlayNext(w, v)
             \/ Previous(w) \/ StopAll(w) \/ Shuffle(w)
      PROVE  SerialInv'
  <2>1. \E j : Goto(w, "look", j) \/ Goto(w, "check", j) \/ Goto(w, "wipe", j)
    BY <1>1 DEF PlayNow, QueueAdd, PlayNext, Previous, StopAll, Shuffle
  <2> QED BY <1>0, <2>1, SerialMove DEF AfterComplete
<1>2. CASE Skip(w) \/ PlaybackFinished(w)
  BY <1>0, <1>2, SerialLook DEF Skip, PlaybackFinished
<1>3. ASSUME ClearQueue(w) \/ \E on \in BOOLEAN : SetAutoplay(w, on) PROVE SerialInv'
  BY <1>0, <1>3, SerialProcess DEF ClearQueue, SetAutoplay
<1> QED BY <1>1, <1>2, <1>3 DEF Dispatch

\* The later statements of a command that has no other beside it.
LEMMA SerialContinue ==
  ASSUME TypeOK, SerialInv, OneAtATime, NEW w \in Workers, Continue(w)
  PROVE  SerialInv'
<1> USE DEF Goon, GoAdvance, Finish
<1>0. ASSUME ~MarkPlaying(w) PROVE NoNew("PLAYING")
  BY <1>0, ContinueNoNew
<1>1. CASE Look(w)
  <2>1. NoNew("PLAYING")
    BY <1>1, SameNoNew DEF Look, tableVars
  <2> QED BY <1>1, <2>1, SerialLook DEF Look
<1>2. CASE Check(w)
  <2>1. NoNew("PLAYING")
    BY <1>2, SameNoNew DEF Check, tableVars
  <2> QED BY <1>2, <2>1, SerialMove DEF Check, AfterComplete
<1>3. CASE Complete(w)
  <2>1. NothingPlaying'
    BY <1>3 DEF Complete, SetQueueStatus, Present, SerialInv, NothingPlaying, Exists
  <2>2. \A u \in Workers : pc'[u] # "complete"
    BY <1>3 DEF Complete, Goto, TypeOK, OneAtATime
  <2> QED BY <2>1, <2>2 DEF SerialInv, AtMostOnePlaying, NothingPlaying, Exists
<1>4. CASE \/ EnqueueNow(w) \/ MarkReady(w) \/ ReenqueueCurrent(w) \/ EnqueuePrevious(w)
           \/ PlayTrackFromAutoplay(w) \/ StartStream(w)
  <2>1. pc[w] \in AfterComplete /\ ~MarkPlaying(w)
    BY <1>4 DEF EnqueueNow, MarkReady, ReenqueueCurrent, EnqueuePrevious,
       PlayTrackFromAutoplay, StartStream, MarkPlaying, AfterComplete
  <2>2. NothingPlaying
    BY <2>1 DEF SerialInv
  <2>3. \E l, j : Goto(w, l, j) /\ l # "complete"
    BY <1>4 DEF EnqueueNow, MarkReady, ReenqueueCurrent, EnqueuePrevious,
       PlayTrackFromAutoplay, StartStream
  <2> QED BY <1>0, <2>1, <2>2, <2>3, SerialMove
<1>5. CASE AdvanceQueue(w)
  <2>1. NoNew("PLAYING") /\ NothingPlaying
    BY <1>5, SameNoNew DEF AdvanceQueue, tableVars, SerialInv, AfterComplete
  <2>2. \E l, j : Goto(w, l, j) /\ l # "complete"
    BY <1>5 DEF AdvanceQueue
  <2> QED BY <2>1, <2>2, SerialMove
<1>6. CASE MarkPlaying(w)
  <2>1. NothingPlaying
    BY <1>6 DEF MarkPlaying, SerialInv, AfterComplete
  <2>2. \A i \in Ids : status'[i] = "PLAYING" => i = job[w].row
    BY <1>6, <2>1 DEF MarkPlaying, SetQueueStatus, NothingPlaying, Exists
  <2>3. \A u \in Workers : pc'[u] = "current"
    BY <1>6 DEF MarkPlaying, Goto, TypeOK, OneAtATime
  <2> QED BY <2>2, <2>3 DEF SerialInv, AtMostOnePlaying, AfterComplete
<1>7. CASE \/ StopClear(w) \/ ShuffleClear(w) \/ SetCurrent(w) \/ SavePlayHistory(w)
           \/ EnrichRecommendations(w)
  <2>1. ~MarkPlaying(w)
    BY <1>7 DEF StopClear, ShuffleClear, SetCurrent, SavePlayHistory,
       EnrichRecommendations, MarkPlaying
  <2>2. \E j : \E l \in {"idle", "reinsert", "record", "enrich"} : Goto(w, l, j)
    BY <1>7 DEF StopClear, ShuffleClear, SetCurrent, SavePlayHistory, EnrichRecommendations
  <2> QED BY <1>0, <2>1, <2>2, SerialMove DEF AfterComplete
<1>8. CASE ShuffleInsert(w)
  <2>1. NoNew("PLAYING")
    BY <1>0, <1>8 DEF ShuffleInsert, MarkPlaying
  <2>2. Goto(w, "idle", NoJob) \/ UNCHANGED <<pc, job>>
    BY <1>8 DEF ShuffleInsert
  <2> QED BY <2>1, <2>2, SerialMove, SerialProcess DEF AfterComplete
<1> QED
  BY <1>1, <1>2, <1>3, <1>4, <1>5, <1>6, <1>7, <1>8 DEF Continue

\* SerialInv is inductive, with the prefetch worker running and the process
\* restarting at any point.
LEMMA SerialKeeps ==
  ASSUME OneAtATime
  PROVE  Spec => []SerialInv
<1>1. Init => SerialInv
  BY DEF Init, TableInit, SerialInv, AtMostOnePlaying, AfterComplete
<1>2. TypeOK /\ SerialInv /\ [Next]_vars => SerialInv'
  <2> SUFFICES ASSUME TypeOK, SerialInv, [Next]_vars PROVE SerialInv'
    OBVIOUS
  <2>1. ASSUME NEW w \in Workers, Dispatch(w) \/ Continue(w) PROVE SerialInv'
    BY <2>1, SerialDispatch, SerialContinue
  <2>2. CASE PrefetchPick \/ PrefetchClaim \/ PrefetchEnd
    <3>1. NoNew("PLAYING")
      BY <2>2, UpdateNoNew, SameNoNew DEF PrefetchPick, PrefetchClaim, PrefetchEnd, tableVars
    <3> QED BY <2>2, <3>1, SerialProcess DEF PrefetchPick, PrefetchClaim, PrefetchEnd
  <2>3. CASE Restart
    <3>1. UNCHANGED status /\ \A w \in Workers : pc'[w] = "idle"
      BY <2>3 DEF Restart, tableVars
    <3> QED BY <3>1 DEF SerialInv, AtMostOnePlaying, AfterComplete
  <2>4. CASE RecoverLook \/ RecoverFail
    <3>1. NoNew("PLAYING")
      BY <2>4, UpdateNoNew, SameNoNew DEF RecoverLook, RecoverFail, tableVars
    <3> QED BY <2>4, <3>1, SerialProcess DEF RecoverLook, RecoverFail
  <2>5. CASE UNCHANGED vars
    <3>1. NoNew("PLAYING")
      BY <2>5, SameNoNew DEF vars
    <3> QED BY <2>5, <3>1, SerialProcess DEF vars
  <2> QED
    BY <2>1, <2>2, <2>3, <2>4, <2>5 DEF Next, StartPrefetchWorker, RecoverFromRestart
<1> QED BY <1>1, <1>2, TypeCorrect, PTL DEF Spec

\* Commands sent one at a time leave at most one row PLAYING, with the prefetch
\* worker running and the process restarting at any point of any of them.
THEOREM SerialOnePlaying ==
  ASSUME OneAtATime
  PROVE  Spec => []AtMostOnePlaying
<1>1. SerialInv => AtMostOnePlaying
  BY DEF SerialInv
<1> QED BY <1>1, SerialKeeps, PTL

-------------------------------------------------------------------------------
(* No lost wakeup, for any number of overlapping commands *)

\* The prefetch worker, Shuffle and restarts are what can strand a waiting row.
NoStranding == "shuffle" \notin Commands /\ Prefetch = FALSE /\ MaxRestarts = 0

\* Without them nothing but the workers takes a step.
Undisturbed ==
  /\ pf.at = "rest"
  /\ boot.at = "up"
  /\ restarts = 0
  /\ \A w \in Workers : pc[w] \notin {"wipe", "reinsert"}

\* The labels at which a worker is bound to look at the queue or to empty it.
Serving == {"check", "complete", "enqueue", "refront", "front", "clear",
            "advance", "autoplay"}

\* GetPlayingEntry moves its worker and nothing else.
LEMMA LookMoves ==
  ASSUME NEW w \in Workers, NEW j, NEW l, LookPlaying(w, j, l)
  PROVE  \E k : Goto(w, "complete", k) \/ Goto(w, l, k)
BY DEF LookPlaying

\* Where each step takes its worker.
LEMMA WorkerMoves ==
  ASSUME TypeOK, NEW w \in Workers, Dispatch(w) \/ Continue(w), NoStranding,
         pc[w] \notin {"wipe", "reinsert"}
  PROVE  \/ UNCHANGED pc
         \/ \E l \in Labels \ {"wipe", "reinsert"} : \E j : Goto(w, l, j)
<1> USE DEF Goon, GoAdvance, Finish, Labels
<1>1. CASE \/ \E v \in Videos : PlayNow(w, v) \/ QueueAdd(w, v) \/ PlayNext(w, v)
           \/ Previous(w) \/ StopAll(w)
  BY <1>1 DEF PlayNow, QueueAdd, PlayNext, Previous, StopAll
<1>2. CASE Skip(w) \/ PlaybackFinished(w)
  BY <1>2, LookMoves DEF Skip, PlaybackFinished
<1>3. CASE ClearQueue(w) \/ \E on \in BOOLEAN : SetAutoplay(w, on)
  BY <1>3 DEF ClearQueue, SetAutoplay
<1>4. ~Shuffle(w) /\ ~ShuffleClear(w) /\ ~ShuffleInsert(w)
  BY DEF Shuffle, Accepts, NoStranding, ShuffleClear, ShuffleInsert
<1>5. CASE Look(w)
  BY <1>5, LookMoves DEF Look
<1>6. CASE Check(w) \/ Complete(w) \/ EnqueueNow(w) \/ MarkReady(w)
           \/ ReenqueueCurrent(w) \/ EnqueuePrevious(w) \/ StopClear(w)
  BY <1>6 DEF Check, Complete, EnqueueNow, MarkReady, ReenqueueCurrent, EnqueuePrevious, StopClear
<1>7. CASE AdvanceQueue(w) \/ PlayTrackFromAutoplay(w) \/ StartStream(w) \/ MarkPlaying(w)
           \/ SetCurrent(w) \/ SavePlayHistory(w) \/ EnrichRecommendations(w)
  BY <1>7 DEF AdvanceQueue, PlayTrackFromAutoplay, StartStream, MarkPlaying, SetCurrent,
     SavePlayHistory, EnrichRecommendations
<1> QED BY <1>1, <1>2, <1>3, <1>4, <1>5, <1>6, <1>7 DEF Dispatch, Continue

\* Every step is then one of a command, and the process stays up.
LEMMA UndisturbedStep ==
  ASSUME TypeOK, Undisturbed, NoStranding, [Next]_vars
  PROVE  /\ Undisturbed'
         /\ UNCHANGED vars \/ \E w \in Workers : Dispatch(w) \/ Continue(w)
<1>1. ASSUME NEW w \in Workers, Dispatch(w) \/ Continue(w) PROVE Undisturbed'
  <2>1. UNCHANGED <<pf, boot, restarts>>
    BY <1>1, WorkerKeepsProcesses
  <2>2. \A u \in Workers : pc'[u] \notin {"wipe", "reinsert"}
    <3>1. \/ UNCHANGED pc
          \/ \E l \in Labels \ {"wipe", "reinsert"} : \E j : Goto(w, l, j)
      BY <1>1, WorkerMoves DEF Undisturbed
    <3> QED BY <3>1 DEF Goto, Undisturbed, TypeOK
  <2> QED BY <2>1, <2>2 DEF Undisturbed
<1>2. ~StartPrefetchWorker /\ ~RecoverFromRestart /\ ~Restart
  BY PlayQueueAssumption DEF Undisturbed, NoStranding, StartPrefetchWorker, PrefetchPick,
     PrefetchClaim, PrefetchEnd, RecoverFromRestart, RecoverLook, RecoverFail, Restart
<1>3. CASE UNCHANGED vars
  BY <1>3 DEF vars, Undisturbed
<1> QED BY <1>1, <1>2, <1>3 DEF Next

\* A worker that moves to a serving label upholds the invariant by itself.
LEMMA WakeupServe ==
  ASSUME TypeOK, NEW w \in Workers, NEW l \in Serving, NEW j, Goto(w, l, j)
  PROVE  WakeupInv'
<1>1. pc'[w] = l
  BY DEF Goto, TypeOK
<1> QED BY <1>1 DEF WakeupInv, WillServe, Serving

\* So does one that is about to mark a row which exists.
LEMMA WakeupMark ==
  ASSUME TypeOK, NEW w \in Workers, NEW l \in {"ready", "start", "mark"}, NEW j,
         Goto(w, l, j), j.row \in Ids, status'[j.row] # "ABSENT"
  PROVE  WakeupInv'
<1>1. pc'[w] = l /\ job'[w] = j
  BY DEF Goto, TypeOK
<1> QED BY <1>1 DEF WakeupInv, WillServe, Present

\* A worker that serves nobody may move anywhere while the rows stay.
LEMMA WakeupKeep ==
  ASSUME TypeOK, WakeupInv, NEW w \in Workers, ~WillServe(w), NEW l, NEW j,
         Goto(w, l, j), UNCHANGED status
  PROVE  WakeupInv'
<1> SUFFICES ASSUME NothingPlaying', Exists(Waiting)'
             PROVE  (\E u \in Workers : WillServe(u))'
  BY DEF WakeupInv
<1>1. PICK u \in Workers : WillServe(u)
  BY DEF WakeupInv, NothingPlaying, Exists
<1>2. u # w
  BY <1>1
<1>3. pc'[u] = pc[u] /\ job'[u] = job[u]
  BY <1>2 DEF Goto, TypeOK
<1>4. WillServe(u)'
  BY <1>1, <1>3 DEF WillServe, Present
<1> QED BY <1>4

\* A step that leaves nothing waiting upholds the invariant.
LEMMA WakeupNothingWaits ==
  ASSUME TypeOK, ClearTable \/ (~Exists(Waiting) /\ UNCHANGED status)
  PROVE  WakeupInv'
BY DEF ClearTable, Exists, Waiting, WakeupInv, TypeOK, TableTypeOK

\* So does one while a row is PLAYING.
LEMMA WakeupSomethingPlays ==
  ASSUME ~NothingPlaying, UNCHANGED status
  PROVE  WakeupInv'
BY DEF NothingPlaying, Exists, WakeupInv

\* GetPlayingEntry takes its worker to a serving label.
LEMMA WakeupLook ==
  ASSUME TypeOK, NEW w \in Workers, NEW l \in Serving, NEW j, LookPlaying(w, j, l)
  PROVE  WakeupInv'
BY LookMoves, WakeupServe DEF Serving

\* The first statement of every command upholds the wakeup invariant.
LEMMA WakeupDispatch ==
  ASSUME TypeOK, WakeupInv, NEW w \in Workers, Dispatch(w)
  PROVE  WakeupInv'
<1>1. CASE \E v \in Videos : QueueAdd(w, v) \/ PlayNext(w, v)
  BY <1>1, WakeupServe DEF QueueAdd, PlayNext, Serving
<1>2. CASE Skip(w) \/ PlaybackFinished(w)
  BY <1>2, WakeupLook DEF Skip, PlaybackFinished, Serving
<1>3. CASE ClearQueue(w)
  BY <1>3, WakeupNothingWaits DEF ClearQueue
<1>4. CASE (\E v \in Videos : PlayNow(w, v)) \/ Previous(w) \/ StopAll(w)
  <2>1. ~WillServe(w)
    BY <1>4 DEF PlayNow, Previous, StopAll, Accepts, WillServe
  <2>2. UNCHANGED status /\ \E j : Goto(w, "look", j)
    BY <1>4 DEF PlayNow, Previous, StopAll, tableVars
  <2> QED BY <2>1, <2>2, WakeupKeep
<1>5. CASE \E on \in BOOLEAN : SetAutoplay(w, on)
  BY <1>5 DEF SetAutoplay, tableVars, WakeupInv, NothingPlaying, Exists, WillServe, Present
<1>6. CASE Shuffle(w)
  <2>1. ~WillServe(w) /\ UNCHANGED status /\ Goto(w, "wipe", NoJob)
    BY <1>6 DEF Shuffle, Accepts, WillServe, tableVars
  <2> QED BY <2>1, WakeupKeep
<1> QED BY <1>1, <1>2, <1>3, <1>4, <1>5, <1>6 DEF Dispatch

\* So does every later one, but the insertion of a shuffled row.
LEMMA WakeupContinue ==
  ASSUME TypeOK, WakeupInv, NEW w \in Workers, Continue(w), ~ShuffleInsert(w)
  PROVE  WakeupInv'
<1> USE DEF Goon, GoAdvance, Finish
<1>1. CASE Look(w)
  BY <1>1, WakeupLook DEF Look, Serving
<1>2. CASE Check(w)
  BY <1>2, WakeupServe, WakeupSomethingPlays DEF Check, Serving, tableVars
<1>3. CASE Complete(w) \/ ReenqueueCurrent(w) \/ EnqueuePrevious(w)
  BY <1>3, WakeupServe DEF Complete, ReenqueueCurrent, EnqueuePrevious, Serving
<1>4. CASE EnqueueNow(w)
  <2>1. lastId + 1 \in Ids /\ status'[lastId + 1] = "PENDING"
    BY <1>4, IdsAssumption DEF EnqueueNow, EnqueueTrack, Insert, TypeOK, TableTypeOK, Ids
  <2>2. PICK l \in {"ready", "start"} :
          Goto(w, l, MkJob("play", job[w].vid, NoVideo, lastId + 1))
    BY <1>4 DEF EnqueueNow
  <2>3. MkJob("play", job[w].vid, NoVideo, lastId + 1).row = lastId + 1
    BY DEF MkJob
  <2> QED BY <2>1, <2>2, <2>3, WakeupMark
<1>5. CASE PlayTrackFromAutoplay(w)
  <2>1. lastId + 1 \in Ids /\ status'[lastId + 1] = "PENDING"
    BY <1>5, IdsAssumption DEF PlayTrackFromAutoplay, EnqueueTrack, Insert, TypeOK, TableTypeOK, Ids
  <2>2. Player(job[w].vid, lastId + 1).row = lastId + 1
    BY DEF Player, MkJob
  <2> QED BY <1>5, <2>1, <2>2, WakeupMark DEF PlayTrackFromAutoplay
<1>6. CASE MarkReady(w)
  <2>1. CASE job[w].row \in Ids /\ Present(job[w].row)
    <3>1. status'[job[w].row] # "ABSENT"
      BY <1>6, <2>1 DEF MarkReady, SetQueueStatus
    <3> QED BY <1>6, <2>1, <3>1, WakeupMark DEF MarkReady
  <2>2. CASE ~(job[w].row \in Ids /\ Present(job[w].row))
    <3>1. status' = status
      BY <1>6, <2>2 DEF MarkReady, SetQueueStatus, TypeOK, TableTypeOK
    <3>2. ~WillServe(w)
      BY <1>6, <2>2 DEF MarkReady, WillServe
    <3> QED BY <1>6, <3>1, <3>2, WakeupKeep DEF MarkReady
  <2> QED BY <2>1, <2>2
<1>7. CASE StopClear(w) \/ ShuffleClear(w)
  BY <1>7, WakeupNothingWaits DEF StopClear, ShuffleClear
<1>8. CASE AdvanceQueue(w)
  <2>1. CASE ~Exists(Waiting)
    BY <1>8, <2>1, WakeupNothingWaits DEF AdvanceQueue, tableVars
  <2>2. CASE Exists(Waiting)
    <3>1. PICK i \in Ids : IsNextPending(i) /\ Goto(w, "start", Player(video[i], i))
      BY <1>8, <2>2 DEF AdvanceQueue
    <3>2. Player(video[i], i).row = i /\ status'[i] # "ABSENT"
      BY <1>8, <3>1 DEF AdvanceQueue, tableVars, IsNextPending, IsFirst, Waiting, Player, MkJob
    <3> QED BY <3>1, <3>2, WakeupMark
  <2> QED BY <2>1, <2>2
<1>9. CASE StartStream(w)
  <2>1. UNCHANGED status /\ Goto(w, "mark", job[w])
    BY <1>9 DEF StartStream, tableVars
  <2>2. CASE WillServe(w)
    <3>1. job[w].row \in Ids /\ status[job[w].row] # "ABSENT"
      BY <1>9, <2>2 DEF StartStream, WillServe, Present
    <3> QED BY <2>1, <3>1, WakeupMark
  <2>3. CASE ~WillServe(w)
    BY <2>1, <2>3, WakeupKeep
  <2> QED BY <2>2, <2>3
<1>10. CASE MarkPlaying(w)
  <2>1. CASE job[w].row \in Ids /\ Present(job[w].row)
    <3>1. status'[job[w].row] = "PLAYING"
      BY <1>10, <2>1 DEF MarkPlaying, SetQueueStatus
    <3> QED BY <2>1, <3>1 DEF WakeupInv, NothingPlaying, Exists
  <2>2. CASE ~(job[w].row \in Ids /\ Present(job[w].row))
    <3>1. status' = status
      BY <1>10, <2>2 DEF MarkPlaying, SetQueueStatus, TypeOK, TableTypeOK
    <3>2. ~WillServe(w)
      BY <1>10, <2>2 DEF MarkPlaying, WillServe
    <3> QED BY <1>10, <3>1, <3>2, WakeupKeep DEF MarkPlaying
  <2> QED BY <2>1, <2>2
<1>11. CASE SetCurrent(w) \/ SavePlayHistory(w) \/ EnrichRecommendations(w)
  <2>1. ~WillServe(w)
    BY <1>11 DEF SetCurrent, SavePlayHistory, EnrichRecommendations, WillServe
  <2>2. UNCHANGED status /\ \E l, j : Goto(w, l, j)
    BY <1>11 DEF SetCurrent, SavePlayHistory, EnrichRecommendations, tableVars
  <2> QED BY <2>1, <2>2, WakeupKeep
<1> QED
  BY <1>1, <1>2, <1>3, <1>4, <1>5, <1>6, <1>7, <1>8, <1>9, <1>10, <1>11 DEF Continue

\* The prefetch worker claims a row that is not PLAYING: none is put off, and no
\* row that a worker has in hand goes.
LEMMA WakeupClaim ==
  ASSUME TypeOK, WakeupInv, PrefetchClaim, status[pf.row] # "PLAYING"
  PROVE  WakeupInv'
<1> USE DEF SetQueueStatus, Present
<1>1. NothingPlaying' => NothingPlaying
  BY DEF PrefetchClaim, NothingPlaying, Exists
<1>2. Exists(Waiting)' => Exists(Waiting)
  BY DEF PrefetchClaim, Exists, Waiting
<1>3. ASSUME NEW u \in Workers, WillServe(u) PROVE WillServe(u)'
  BY <1>3 DEF PrefetchClaim, WillServe
<1> QED BY <1>1, <1>2, <1>3 DEF WakeupInv

\* With everything running, the prefetch worker and Shuffle included, and the
\* process restarting at any point: rows that wait lose the worker that is bound
\* to serve them in the places that StrandedWhere names, and nowhere else.
THEOREM StrandedInFewPlaces == Spec => StrandedWhere
<1> DEFINE Place == \/ PrefetchClaim /\ status[pf.row] = "PLAYING"
                    \/ PrefetchEnd
                    \/ Restart \/ RecoverFail
                    \/ \E w \in Workers : ShuffleInsert(w)
<1>1. TypeOK /\ [Next]_vars => [WakeupInv /\ ~WakeupInv' => Place]_vars
  <2> SUFFICES ASSUME TypeOK, WakeupInv, Next, ~Place PROVE WakeupInv'
    OBVIOUS
  <2>1. ASSUME NEW w \in Workers, Dispatch(w) \/ Continue(w) PROVE WakeupInv'
    BY <2>1, WakeupDispatch, WakeupContinue
  <2>2. CASE PrefetchClaim
    BY <2>2, WakeupClaim
  <2>3. CASE PrefetchPick \/ RecoverLook
    BY <2>3 DEF PrefetchPick, RecoverLook, tableVars, WakeupInv, NothingPlaying, Exists,
       WillServe, Present
  <2> QED BY <2>1, <2>2, <2>3 DEF Next, StartPrefetchWorker, RecoverFromRestart
<1> QED BY <1>1, TypeCorrect, PTL DEF Spec, StrandedWhere

\* However many commands overlap, in whatever order their statements run: when
\* they are all done and nothing plays, nothing waits.  QueueAdd inserts before
\* it looks for a PLAYING row, Skip completes the PLAYING row before it looks
\* for a waiting one, and ClearQueue deletes no waiting row without the others.
THEOREM NoLostWakeup ==
  ASSUME NoStranding
  PROVE  Spec => []NoStall
<1>1. Init => Undisturbed /\ WakeupInv
  BY DEF Init, TableInit, Undisturbed, WakeupInv, Exists, Waiting
<1>2. TypeOK /\ Undisturbed /\ WakeupInv /\ [Next]_vars => Undisturbed' /\ WakeupInv'
  <2> SUFFICES ASSUME TypeOK, Undisturbed, WakeupInv, [Next]_vars
               PROVE  Undisturbed' /\ WakeupInv'
    OBVIOUS
  <2>1. Undisturbed'
    BY UndisturbedStep
  <2>2. ASSUME NEW w \in Workers, Dispatch(w) \/ Continue(w) PROVE WakeupInv'
    <3>1. ~ShuffleInsert(w)
      BY DEF Undisturbed, ShuffleInsert
    <3> QED BY <2>2, <3>1, WakeupDispatch, WakeupContinue
  <2>3. ASSUME UNCHANGED vars PROVE WakeupInv'
    BY <2>3 DEF vars, WakeupInv, NothingPlaying, Exists, WillServe, Present
  <2> QED BY <2>1, <2>2, <2>3, UndisturbedStep
<1>3. WakeupInv => NoStall
  BY DEF WakeupInv, NoStall, AllIdle, WillServe
<1> QED BY <1>1, <1>2, <1>3, TypeCorrect, PTL DEF Spec

-------------------------------------------------------------------------------
(* One command after the other, without the prefetch worker: a jukebox *)

\* No prefetch worker and no restart.
Alone == Prefetch = FALSE /\ MaxRestarts = 0

Steady == pf.at = "rest" /\ boot.at = "up" /\ restarts = 0

\* Nothing but the workers takes a step.
LEMMA SteadyStep ==
  ASSUME Steady, Alone, [Next]_vars
  PROVE  /\ Steady'
         /\ UNCHANGED vars \/ \E w \in Workers : Dispatch(w) \/ Continue(w)
<1>1. ~StartPrefetchWorker /\ ~RecoverFromRestart /\ ~Restart
  BY PlayQueueAssumption DEF Steady, Alone, StartPrefetchWorker, PrefetchPick,
     PrefetchClaim, PrefetchEnd, RecoverFromRestart, RecoverLook, RecoverFail, Restart
<1>2. UNCHANGED vars => Steady'
  BY DEF vars, Steady
<1>3. (\E w \in Workers : Dispatch(w) \/ Continue(w)) => Steady'
  BY WorkerKeepsProcesses DEF Steady
<1> QED BY <1>1, <1>2, <1>3 DEF Next

\* The one worker is where it has gone.
LEMMA Moved ==
  ASSUME TypeOK, NEW w, Workers = {w}, NEW l, NEW j, Goto(w, l, j)
  PROVE  pc'[w] = l /\ job'[w] = j
BY DEF TypeOK, Goto

\* A worker with no row in hand.
LEMMA RowMove ==
  ASSUME TypeOK, NEW w, Workers = {w}, NEW l, NEW j, Goto(w, l, j),
         l \notin {"complete", "ready", "start", "mark", "autoplay"}
  PROVE  RowInv'
BY Moved DEF RowInv

\* GetPlayingEntry gives its worker a PLAYING row.
LEMMA RowLook ==
  ASSUME TypeOK, NEW w, Workers = {w}, NEW j, NEW l, LookPlaying(w, j, l), UNCHANGED status,
         l \notin {"complete", "ready", "start", "mark", "autoplay"}
  PROVE  RowInv'
<1>1. ASSUME NEW i \in Ids, NEW o, IsPlayingEntry(i),
             Goto(w, "complete", MkJob(j.cmd, j.vid, o, i))
      PROVE  RowInv'
  <2>1. pc'[w] = "complete" /\ job'[w].row = i
    BY <1>1, Moved DEF MkJob
  <2>2. status'[i] = "PLAYING"
    BY <1>1 DEF IsPlayingEntry, IsFirst
  <2> QED BY <2>1, <2>2 DEF RowInv
<1> QED BY <1>1, RowMove DEF LookPlaying

\* The first statement of a command keeps the row in hand in its place,
LEMMA RowDispatch ==
  ASSUME TypeOK, RowInv, NEW w, Workers = {w}, Dispatch(w)
  PROVE  RowInv'
<1>1. CASE \/ \E v \in Videos : PlayNow(w, v) \/ QueueAdd(w, v) \/ PlayNext(w, v)
           \/ Previous(w) \/ StopAll(w) \/ Shuffle(w)
  BY <1>1, RowMove DEF PlayNow, QueueAdd, PlayNext, Previous, StopAll, Shuffle
<1>2. CASE Skip(w) \/ PlaybackFinished(w)
  BY <1>2, RowLook DEF Skip, PlaybackFinished, tableVars
<1>3. CASE ClearQueue(w) \/ \E on \in BOOLEAN : SetAutoplay(w, on)
  BY <1>3 DEF ClearQueue, SetAutoplay, Accepts, RowInv
<1> QED BY <1>1, <1>2, <1>3 DEF Dispatch

\* A new row at the end of the queue is in hand.
LEMMA RowNew ==
  ASSUME TypeOK, NEW w, Workers = {w}, NEW v, NEW l \in {"ready", "start"}, NEW j,
         EnqueueTrack(v, "PENDING"), Goto(w, l, j), j.row = lastId + 1,
         j.cmd = "play" \/ ~Exists(Waiting)
  PROVE  RowInv'
<1>1. pc'[w] = l /\ job'[w] = j
  BY Moved
<1>2. lastId \in Int /\ lastId + 1 \in Ids
  BY IdsAssumption DEF EnqueueTrack, TypeOK, TableTypeOK, Ids
<1>3. status'[lastId + 1] = "PENDING"
  BY <1>2 DEF EnqueueTrack, Insert, TypeOK, TableTypeOK
<1>4. ASSUME NEW i \in Ids, status'[i] \in Waiting
      PROVE  i <= lastId + 1 /\ (~Exists(Waiting) => i = lastId + 1)
  <2>1. i = lastId + 1 \/ status[i] \in Waiting
    BY <1>2, <1>4 DEF EnqueueTrack, Insert, TypeOK, TableTypeOK
  <2>2. status[i] \in Waiting => ~(i > lastId)
    BY DEF TypeOK, TableTypeOK, Waiting
  <2>3. i \in Int
    BY IdsAssumption DEF Ids
  <2> QED BY <1>2, <2>1, <2>2, <2>3 DEF Exists
<1>5. \A i \in Ids : status'[i] \in Waiting =>
         IF j.cmd = "play" THEN i <= lastId + 1 ELSE lastId + 1 <= i
  BY <1>2, <1>4
<1> QED BY <1>1, <1>2, <1>3, <1>5 DEF RowInv, Waiting

\* and so do the later ones.
LEMMA RowContinue ==
  ASSUME TypeOK, RowInv, NEW w, Workers = {w}, Continue(w)
  PROVE  RowInv'
<1> USE DEF Goon, GoAdvance, Finish
<1>1. CASE Look(w)
  BY <1>1, RowLook DEF Look, tableVars
<1>2. CASE \/ Check(w) \/ Complete(w) \/ ReenqueueCurrent(w) \/ EnqueuePrevious(w)
           \/ StopClear(w) \/ ShuffleClear(w) \/ MarkPlaying(w) \/ SetCurrent(w)
           \/ SavePlayHistory(w) \/ EnrichRecommendations(w)
  <2>1. \E j : \E l \in {"advance", "idle", "enqueue", "refront", "clear", "front",
                         "reinsert", "current", "record", "enrich"} : Goto(w, l, j)
    BY <1>2 DEF Check, Complete, ReenqueueCurrent, EnqueuePrevious, StopClear,
       ShuffleClear, MarkPlaying, SetCurrent, SavePlayHistory, EnrichRecommendations
  <2> QED BY <2>1, RowMove
<1>3. CASE ShuffleInsert(w)
  <2>1. Goto(w, "idle", NoJob) \/ (pc[w] = "reinsert" /\ UNCHANGED pc)
    BY <1>3 DEF ShuffleInsert
  <2>2. CASE pc[w] = "reinsert" /\ UNCHANGED pc
    BY <2>2 DEF RowInv
  <2> QED BY <2>1, <2>2, RowMove
<1>4. CASE EnqueueNow(w)
  <2>1. PICK l \in {"ready", "start"} : Goto(w, l, MkJob("play", job[w].vid, NoVideo, lastId + 1))
    BY <1>4 DEF EnqueueNow
  <2> QED BY <1>4, <2>1, RowNew DEF EnqueueNow, MkJob
<1>5. CASE PlayTrackFromAutoplay(w)
  <2>1. ~Exists(Waiting)
    BY <1>5 DEF PlayTrackFromAutoplay, RowInv
  <2>2. Player(job[w].vid, lastId + 1).row = lastId + 1
    BY DEF Player, MkJob
  <2> QED BY <1>5, <2>1, <2>2, RowNew DEF PlayTrackFromAutoplay
<1>6. CASE MarkReady(w)
  <2>1. pc'[w] = "start" /\ job'[w] = job[w]
    BY <1>6, Moved DEF MarkReady
  <2>2. \A i \in Ids : status'[i] = IF i = job[w].row THEN "READY" ELSE status[i]
    BY <1>6 DEF MarkReady, SetQueueStatus, RowInv, Waiting, Present
  <2> QED BY <1>6, <2>1, <2>2 DEF MarkReady, RowInv, Waiting
<1>7. CASE AdvanceQueue(w)
  <2>1. ASSUME NEW i \in Ids, IsNextPending(i), Goto(w, "start", Player(video[i], i))
        PROVE  RowInv'
    <3>1. pc'[w] = "start" /\ job'[w].row = i /\ job'[w].cmd = "none"
      BY <2>1, Moved DEF Player, MkJob
    <3>2. UNCHANGED status
      BY <1>7 DEF AdvanceQueue, tableVars
    <3> QED BY <2>1, <3>1, <3>2 DEF RowInv, IsNextPending, IsFirst
  <2>2. ASSUME ~Exists(Waiting), NEW j, Goto(w, "autoplay", j)
        PROVE  RowInv'
    <3>1. pc'[w] = "autoplay" /\ ~Exists(Waiting)'
      BY <1>7, <2>2, Moved DEF AdvanceQueue, tableVars, Exists
    <3> QED BY <3>1 DEF RowInv
  <2> QED BY <1>7, <2>1, <2>2, RowMove DEF AdvanceQueue
<1>8. CASE StartStream(w)
  <2>1. pc'[w] = "mark" /\ job'[w] = job[w] /\ UNCHANGED status
    BY <1>8, Moved DEF StartStream, tableVars
  <2> QED BY <1>8, <2>1 DEF StartStream, RowInv
<1> QED
  BY <1>1, <1>2, <1>3, <1>4, <1>5, <1>6, <1>7, <1>8 DEF Continue

\* The statements of the table, in terms of tickets.
LEMMA SameTickets ==
  ASSUME UNCHANGED tableVars, NEW S
  PROVE  Tickets(S)' = Tickets(S)
BY DEF Tickets, tableVars

\* An INSERT adds a ticket.
LEMMA InsertTickets ==
  ASSUME TypeOK, NEW i \in Ids, ~Present(i), NEW v, NEW s \in Waiting, Insert(i, v, s)
  PROVE  /\ Tickets(Waiting)' = Tickets(Waiting) \cup {<<i, v>>}
         /\ Tickets({"PLAYING"})' = Tickets({"PLAYING"})
<1>1. \A k \in Ids : /\ status'[k] = IF k = i THEN s ELSE status[k]
                     /\ video'[k] = IF k = i THEN v ELSE video[k]
  BY DEF Insert, TypeOK, TableTypeOK
<1>2. status[i] \notin Waiting \cup {"PLAYING"} /\ s # "PLAYING"
  BY DEF Present, Waiting
<1>3. Tickets(Waiting)' \subseteq Tickets(Waiting) \cup {<<i, v>>}
  BY <1>1 DEF Tickets
<1>4. Tickets(Waiting) \cup {<<i, v>>} \subseteq Tickets(Waiting)'
  <2>1. <<i, v>> \in Tickets(Waiting)'
    BY <1>1 DEF Tickets
  <2>2. Tickets(Waiting) \subseteq Tickets(Waiting)'
    BY <1>1, <1>2 DEF Tickets
  <2> QED BY <2>1, <2>2
<1>5. Tickets({"PLAYING"})' = Tickets({"PLAYING"})
  BY <1>1, <1>2 DEF Tickets
<1> QED BY <1>3, <1>4, <1>5

\* What waits has a number that has been handed out.
LEMMA TicketNumbers ==
  ASSUME TypeOK, NEW S, "ABSENT" \notin S, NEW t \in Tickets(S)
  PROVE  t[1] \in Ids /\ t[1] \in Int /\ t[1] <= lastId /\ status[t[1]] \in S /\ t = <<t[1], video[t[1]]>>
<1>1. PICK k \in Ids : status[k] \in S /\ t = <<k, video[k]>>
  BY DEF Tickets
<1>2. k \in Int /\ lastId \in Int
  BY IdsAssumption DEF Ids, TypeOK, TableTypeOK
<1>3. ~(k > lastId)
  BY <1>1 DEF TypeOK, TableTypeOK
<1> QED BY <1>1, <1>2, <1>3

\* EnqueueTrack sells a ticket for the end of the queue,
LEMMA EnqueueTickets ==
  ASSUME TypeOK, NEW v \in MaybeVideo, NEW s \in Waiting, EnqueueTrack(v, s)
  PROVE  \E t \in Ids \X MaybeVideo :
           /\ J!IsLast(t)
           /\ Tickets(Waiting)' = Tickets(Waiting) \cup {t}
           /\ Tickets({"PLAYING"})' = Tickets({"PLAYING"})
<1>1. lastId + 1 \in Ids /\ lastId \in Int
  BY IdsAssumption DEF EnqueueTrack, TypeOK, TableTypeOK, Ids
<1>2. ~Present(lastId + 1)
  BY <1>1 DEF TypeOK, TableTypeOK, Present
<1>3. /\ Tickets(Waiting)' = Tickets(Waiting) \cup {<<lastId + 1, v>>}
      /\ Tickets({"PLAYING"})' = Tickets({"PLAYING"})
  BY <1>1, <1>2, InsertTickets DEF EnqueueTrack
<1>4. \A u \in Tickets(Waiting) : u[1] < lastId + 1
  BY <1>1, TicketNumbers DEF Waiting
<1>5. <<lastId + 1, v>> \in Ids \X MaybeVideo /\ J!IsLast(<<lastId + 1, v>>)
  BY <1>1, <1>4 DEF J!IsLast
<1> QED BY <1>3, <1>5, Zenon

\* EnqueueTrackAtFront one for its front, below the finished rows as well.
LEMMA FrontTickets ==
  ASSUME TypeOK, NEW v \in MaybeVideo, NEW s \in Waiting, EnqueueTrackAtFront(v, s)
  PROVE  \E t \in Ids \X MaybeVideo :
           /\ J!IsFirst(t)
           /\ Tickets(Waiting)' = Tickets(Waiting) \cup {t}
           /\ Tickets({"PLAYING"})' = Tickets({"PLAYING"})
<1>1. PICK i \in Ids : IsFrontId(i) /\ Insert(i, v, s)
  BY DEF EnqueueTrackAtFront
<1>2. \A k \in Ids : k \in Int
  BY IdsAssumption DEF Ids
<1>3. \A k \in Ids : Present(k) => i < k
  <2>1. \A k \in Ids : Present(k) => status[k] \in Statuses
    BY DEF TypeOK, TableTypeOK, Present
  <2> QED BY <1>1, <1>2, <2>1 DEF IsFrontId, Exists, IsFirst
<1>4. ~Present(i)
  BY <1>2, <1>3
<1>5. /\ Tickets(Waiting)' = Tickets(Waiting) \cup {<<i, v>>}
      /\ Tickets({"PLAYING"})' = Tickets({"PLAYING"})
  BY <1>1, <1>4, InsertTickets
<1>6. \A u \in Tickets(Waiting) : i < u[1]
  <2> SUFFICES ASSUME NEW u \in Tickets(Waiting) PROVE i < u[1]
    OBVIOUS
  <2>1. u[1] \in Ids /\ status[u[1]] \in Waiting
    BY TicketNumbers DEF Waiting
  <2> QED BY <1>3, <2>1 DEF Present, Waiting
<1>7. <<i, v>> \in Ids \X MaybeVideo /\ J!IsFirst(<<i, v>>)
  BY <1>6 DEF J!IsFirst
<1> QED BY <1>5, <1>7, Zenon

\* ClearQueue withdraws them.
LEMMA ClearTickets ==
  ASSUME TypeOK, ClearTable
  PROVE  Tickets(Waiting)' = {} /\ Tickets({"PLAYING"})' = Tickets({"PLAYING"})
<1>1. \A k \in Ids : /\ status'[k] = IF status[k] = "PLAYING" THEN "PLAYING" ELSE "ABSENT"
                     /\ status[k] = "PLAYING" => video'[k] = video[k]
  BY DEF ClearTable
<1> QED BY <1>1 DEF Tickets, Waiting

\* A row that becomes READY keeps its ticket.
LEMMA ReadyTickets ==
  ASSUME TypeOK, NEW i \in Ids, status[i] \in Waiting, SetQueueStatus(i, "READY")
  PROVE  Tickets(Waiting)' = Tickets(Waiting) /\ Tickets({"PLAYING"})' = Tickets({"PLAYING"})
<1>1. \A k \in Ids : /\ status'[k] = IF k = i THEN "READY" ELSE status[k]
                     /\ video'[k] = video[k]
  BY DEF SetQueueStatus, Present, Waiting
<1> QED BY <1>1 DEF Tickets, Waiting

\* The PLAYING row ends,
LEMMA EndTickets ==
  ASSUME TypeOK, AtMostOnePlaying, NEW i \in Ids, status[i] = "PLAYING",
         SetQueueStatus(i, "COMPLETED")
  PROVE  Tickets(Waiting)' = Tickets(Waiting) /\ Tickets({"PLAYING"})' = {}
<1>1. \A k \in Ids : /\ status'[k] = IF k = i THEN "COMPLETED" ELSE status[k]
                     /\ video'[k] = video[k]
  BY DEF SetQueueStatus, Present
<1>2. \A k \in Ids : status[k] = "PLAYING" => k = i
  BY DEF AtMostOnePlaying
<1> QED BY <1>1, <1>2 DEF Tickets, Waiting

\* and one that waits begins.
LEMMA BeginTickets ==
  ASSUME TypeOK, NothingPlaying, NEW i \in Ids, status[i] \in Waiting,
         SetQueueStatus(i, "PLAYING")
  PROVE  /\ Tickets(Waiting)' = Tickets(Waiting) \ {<<i, video[i]>>}
         /\ Tickets({"PLAYING"})' = {<<i, video[i]>>}
<1>1. \A k \in Ids : /\ status'[k] = IF k = i THEN "PLAYING" ELSE status[k]
                     /\ video'[k] = video[k]
  BY DEF SetQueueStatus, Present, Waiting
<1>2. \A k \in Ids : status[k] # "PLAYING"
  BY DEF NothingPlaying, Exists
<1>3. Tickets(Waiting)' = Tickets(Waiting) \ {<<i, video[i]>>}
  BY <1>1 DEF Tickets, Waiting
<1>4. Tickets({"PLAYING"})' = {<<i, video[i]>>}
  BY <1>1, <1>2 DEF Tickets
<1> QED BY <1>3, <1>4

\* now of the jukebox.
Now == \E w \in Workers : PlaysNow(w)

\* The one worker decides it.
LEMMA NowMoved ==
  ASSUME TypeOK, NEW w, Workers = {w}, NEW l, NEW j, Goto(w, l, j)
  PROVE  Now' <=> l \in {"ready", "start", "mark"} /\ j.cmd = "play"
BY Moved DEF Now, PlaysNow

\* The kinds of steps.
LEMMA AsStutter ==
  ASSUME UNCHANGED tableVars, Now' <=> Now
  PROVE  UNCHANGED J!vars
BY SameTickets DEF J!vars, Now

\* A row that is inserted is a ticket that is bought,
LEMMA AsBuy ==
  ASSUME TypeOK, ~Now, ~Now', NEW v \in MaybeVideo, NEW s \in Waiting,
         EnqueueTrack(v, s) \/ EnqueueTrackAtFront(v, s)
  PROVE  J!Next
<1>1. PICK t \in Ids \X MaybeVideo :
         /\ J!IsLast(t) \/ J!IsFirst(t)
         /\ Tickets(Waiting)' = Tickets(Waiting) \cup {t}
         /\ Tickets({"PLAYING"})' = Tickets({"PLAYING"})
  BY EnqueueTickets, FrontTickets
<1>2. J!Buy(t)
  BY <1>1 DEF J!Buy, Now
<1> QED BY <1>1, <1>2 DEF J!Next, J!Tickets

\* by PlayNow, one to be played at once.
LEMMA AsBuyNow ==
  ASSUME TypeOK, ~Now, Now', NothingPlaying, NEW v \in MaybeVideo, NEW s \in Waiting,
         EnqueueTrack(v, s)
  PROVE  J!Next
<1>1. PICK t \in Ids \X MaybeVideo :
         /\ J!IsLast(t)
         /\ Tickets(Waiting)' = Tickets(Waiting) \cup {t}
         /\ Tickets({"PLAYING"})' = Tickets({"PLAYING"})
  BY EnqueueTickets
<1>2. Tickets({"PLAYING"}) = {}
  BY DEF Tickets, NothingPlaying, Exists
<1>3. J!BuyNow(t)
  BY <1>1, <1>2 DEF J!BuyNow, Now
<1> QED BY <1>1, <1>3 DEF J!Next, J!Tickets

\* ClearQueue withdraws the tickets.
LEMMA AsWithdraw ==
  ASSUME TypeOK, ~Now, ~Now', ClearTable
  PROVE  J!Next
<1>1. Tickets(Waiting)' = {} /\ Tickets({"PLAYING"})' = Tickets({"PLAYING"})
  BY ClearTickets
<1> QED BY <1>1 DEF J!Next, J!Withdraw, Now

\* The PLAYING row that is completed is the end of its track,
LEMMA AsEnd ==
  ASSUME TypeOK, AtMostOnePlaying, ~Now, ~Now', NEW i \in Ids, status[i] = "PLAYING",
         SetQueueStatus(i, "COMPLETED")
  PROVE  J!Next
<1>1. Tickets(Waiting)' = Tickets(Waiting) /\ Tickets({"PLAYING"})' = {}
  BY EndTickets
<1> QED BY <1>1 DEF J!Next, J!End, Now

\* and MarkPlaying the beginning of the next.
LEMMA AsBegin ==
  ASSUME TypeOK, NothingPlaying, NEW i \in Ids, status[i] \in Waiting, ~Now',
         \A k \in Ids : status[k] \in Waiting => IF Now THEN k <= i ELSE i <= k,
         SetQueueStatus(i, "PLAYING")
  PROVE  J!Next
<1> DEFINE t == <<i, video[i]>>
<1>1. t \in Ids \X MaybeVideo /\ t \in Tickets(Waiting)
  BY DEF TypeOK, TableTypeOK, MaybeVideo, Tickets
<1>2. Tickets({"PLAYING"}) = {}
  BY DEF Tickets, NothingPlaying, Exists
<1>3. Tickets(Waiting)' = Tickets(Waiting) \ {t} /\ Tickets({"PLAYING"})' = {t}
  BY BeginTickets
<1>4. \A u \in Tickets(Waiting) : IF Now THEN u[1] <= t[1] ELSE t[1] <= u[1]
  BY TicketNumbers DEF Waiting
<1>5. J!Begin(t)
  BY <1>1, <1>2, <1>3, <1>4 DEF J!Begin, Now
<1> QED BY <1>1, <1>5 DEF J!Next, J!Tickets

\* Commands at their first statement,
LEMMA JukeboxDispatch ==
  ASSUME TypeOK, NEW w, Workers = {w}, Dispatch(w)
  PROVE  J!Next \/ UNCHANGED J!vars
<1>0. ~Now
  BY DEF Now, PlaysNow, Dispatch, PlayNow, QueueAdd, PlayNext, Skip, PlaybackFinished,
     Previous, StopAll, ClearQueue, Shuffle, SetAutoplay, Accepts
<1>1. CASE \/ \E v \in Videos : PlayNow(w, v)
           \/ Previous(w) \/ StopAll(w) \/ Shuffle(w)
  <2>1. (\E j : Goto(w, "look", j) \/ Goto(w, "wipe", j)) /\ UNCHANGED tableVars
    BY <1>1 DEF PlayNow, Previous, StopAll, Shuffle
  <2> QED BY <1>0, <2>1, NowMoved, AsStutter
<1>2. ASSUME NEW v \in Videos, QueueAdd(w, v) \/ PlayNext(w, v) PROVE J!Next
  <2>1. ~Now'
    BY <1>2, NowMoved DEF QueueAdd, PlayNext
  <2> QED BY <1>0, <1>2, <2>1, AsBuy DEF QueueAdd, PlayNext, MaybeVideo
<1>3. CASE Skip(w) \/ PlaybackFinished(w)
  <2>1. (\E j : Goto(w, "complete", j) \/ Goto(w, "advance", j)) /\ UNCHANGED tableVars
    BY <1>3, LookMoves DEF Skip, PlaybackFinished
  <2> QED BY <1>0, <2>1, NowMoved, AsStutter
<1>4. CASE ClearQueue(w)
  BY <1>0, <1>4, AsWithdraw DEF ClearQueue, Now, PlaysNow
<1>5. CASE \E on \in BOOLEAN : SetAutoplay(w, on)
  BY <1>0, <1>5, AsStutter DEF SetAutoplay, Now, PlaysNow
<1> QED BY <1>1, <1>2, <1>3, <1>4, <1>5 DEF Dispatch

\* and at the later ones.
LEMMA JukeboxContinue ==
  ASSUME TypeOK, SerialInv, RowInv, NEW w, Workers = {w}, Continue(w)
  PROVE  J!Next \/ UNCHANGED J!vars
<1> USE DEF Goon, GoAdvance, Finish
<1>0. job[w].vid \in MaybeVideo /\ job[w].old \in MaybeVideo
  BY DEF TypeOK, Jobs
<1>1. CASE Look(w)
  <2>1. pc[w] = "look" /\ UNCHANGED tableVars
    BY <1>1 DEF Look
  <2>2. \E j : \E l \in {"complete", "enqueue", "front", "clear"} : Goto(w, l, j)
    BY <1>1, LookMoves DEF Look
  <2> QED BY <2>1, <2>2, NowMoved, AsStutter DEF Now, PlaysNow
<1>2. CASE \/ Check(w) \/ SetCurrent(w) \/ SavePlayHistory(w) \/ EnrichRecommendations(w)
  <2>1. pc[w] \in {"check", "current", "record", "enrich"} /\ UNCHANGED tableVars
    BY <1>2 DEF Check, SetCurrent, SavePlayHistory, EnrichRecommendations
  <2>2. \E j : \E l \in {"advance", "idle", "record", "enrich"} : Goto(w, l, j)
    BY <1>2 DEF Check, SetCurrent, SavePlayHistory, EnrichRecommendations
  <2> QED BY <2>1, <2>2, NowMoved, AsStutter DEF Now, PlaysNow
<1>3. CASE Complete(w)
  <2>1. ~Now
    BY <1>3 DEF Complete, Now, PlaysNow
  <2>2. ~Now'
    BY <1>3, NowMoved DEF Complete
  <2>3. job[w].row \in Ids /\ status[job[w].row] = "PLAYING" /\ AtMostOnePlaying
    BY <1>3 DEF Complete, RowInv, SerialInv
  <2> QED BY <1>3, <2>1, <2>2, <2>3, AsEnd DEF Complete
<1>4. CASE EnqueueNow(w)
  <2>1. ~Now /\ NothingPlaying
    BY <1>4 DEF EnqueueNow, Now, PlaysNow, SerialInv, AfterComplete
  <2>2. PICK l \in {"ready", "start"} : Goto(w, l, MkJob("play", job[w].vid, NoVideo, lastId + 1))
    BY <1>4 DEF EnqueueNow
  <2>3. Now'
    BY <2>2, NowMoved DEF MkJob
  <2> QED BY <1>0, <1>4, <2>1, <2>3, AsBuyNow DEF EnqueueNow, Waiting
<1>5. CASE ReenqueueCurrent(w) \/ EnqueuePrevious(w)
  <2>1. ~Now
    BY <1>5 DEF ReenqueueCurrent, EnqueuePrevious, Now, PlaysNow
  <2>2. ~Now'
    BY <1>5, NowMoved DEF ReenqueueCurrent, EnqueuePrevious
  <2> QED BY <1>0, <1>5, <2>1, <2>2, AsBuy DEF ReenqueueCurrent, EnqueuePrevious, Waiting
<1>6. CASE PlayTrackFromAutoplay(w)
  <2>1. ~Now
    BY <1>6 DEF PlayTrackFromAutoplay, Now, PlaysNow
  <2>2. ~Now'
    BY <1>6, NowMoved DEF PlayTrackFromAutoplay, Player, MkJob
  <2> QED BY <1>0, <1>6, <2>1, <2>2, AsBuy DEF PlayTrackFromAutoplay, Waiting
<1>7. CASE ShuffleInsert(w)
  <2>1. PICK r \in batch : EnqueueTrack(r.vid, r.st)
    BY <1>7 DEF ShuffleInsert
  <2>2. r.vid \in MaybeVideo /\ r.st \in Waiting
    BY DEF TypeOK, Rows
  <2>3. ~Now
    BY <1>7 DEF ShuffleInsert, Now, PlaysNow
  <2>4. Goto(w, "idle", NoJob) \/ UNCHANGED <<pc, job>>
    BY <1>7 DEF ShuffleInsert
  <2>5. CASE UNCHANGED <<pc, job>>
    BY <2>1, <2>2, <2>3, <2>5, AsBuy DEF Now, PlaysNow
  <2>6. CASE Goto(w, "idle", NoJob)
    BY <2>1, <2>2, <2>3, <2>6, NowMoved, AsBuy
  <2> QED BY <2>4, <2>5, <2>6
<1>8. CASE StopClear(w) \/ ShuffleClear(w)
  <2>1. ~Now
    BY <1>8 DEF StopClear, ShuffleClear, Now, PlaysNow
  <2>2. ~Now'
    BY <1>8, NowMoved DEF StopClear, ShuffleClear
  <2> QED BY <1>8, <2>1, <2>2, AsWithdraw DEF StopClear, ShuffleClear
<1>9. CASE MarkReady(w)
  <2>1. job[w].row \in Ids /\ status[job[w].row] \in Waiting
    BY <1>9 DEF MarkReady, RowInv
  <2>2. /\ Tickets(Waiting)' = Tickets(Waiting)
        /\ Tickets({"PLAYING"})' = Tickets({"PLAYING"})
    BY <1>9, <2>1, ReadyTickets DEF MarkReady
  <2>3. Now' <=> Now
    BY <1>9, NowMoved DEF MarkReady, Now, PlaysNow
  <2> QED BY <2>2, <2>3 DEF J!vars, Now
<1>10. CASE StartStream(w)
  <2>1. Now' <=> Now
    BY <1>10, NowMoved DEF StartStream, Now, PlaysNow
  <2> QED BY <1>10, <2>1, AsStutter DEF StartStream
<1>11. CASE AdvanceQueue(w)
  <2>1. ~Now /\ UNCHANGED tableVars
    BY <1>11 DEF AdvanceQueue, Now, PlaysNow
  <2>2. \A v, i : Player(v, i).cmd = "none"
    BY DEF Player, MkJob
  <2>3. \/ \E i \in Ids : Goto(w, "start", Player(video[i], i))
        \/ \E j : \E l \in {"autoplay", "idle"} : Goto(w, l, j)
    BY <1>11 DEF AdvanceQueue
  <2>4. ~Now'
    BY <2>2, <2>3, NowMoved
  <2> QED BY <2>1, <2>4, AsStutter
<1>12. CASE MarkPlaying(w)
  <2>1. /\ job[w].row \in Ids /\ status[job[w].row] \in Waiting
        /\ \A k \in Ids : status[k] \in Waiting =>
             IF Now THEN k <= job[w].row ELSE job[w].row <= k
    BY <1>12 DEF MarkPlaying, RowInv, Now, PlaysNow
  <2>2. NothingPlaying
    BY <1>12 DEF MarkPlaying, SerialInv, AfterComplete
  <2>3. ~Now'
    BY <1>12, NowMoved DEF MarkPlaying
  <2> QED BY <1>12, <2>1, <2>2, <2>3, AsBegin DEF MarkPlaying
<1> QED
  BY <1>1, <1>2, <1>3, <1>4, <1>5, <1>6, <1>7, <1>8, <1>9, <1>10, <1>11, <1>12 DEF Continue

\* What commands sent one at a time rest on, beside SerialInv.
JukeboxInv == Steady /\ SerialInv /\ RowInv

\* It holds at the start,
LEMMA JukeboxInvInit == Init => JukeboxInv
BY DEF Init, TableInit, JukeboxInv, Steady, SerialInv, AtMostOnePlaying, AfterComplete,
   RowInv, Present

\* and every step keeps it.
LEMMA JukeboxInvStep ==
  ASSUME TypeOK, JukeboxInv, NEW w, Workers = {w}, Alone, [Next]_vars
  PROVE  JukeboxInv'
<1>1. CASE UNCHANGED vars
  BY <1>1 DEF vars, JukeboxInv, Steady, SerialInv, AtMostOnePlaying, NothingPlaying, Exists,
     RowInv, Present
<1>2. CASE Dispatch(w) \/ Continue(w)
  <2>1. OneAtATime
    BY DEF OneAtATime
  <2>2. SerialInv'
    BY <1>2, <2>1, SerialDispatch, SerialContinue DEF JukeboxInv
  <2>3. RowInv'
    BY <1>2, RowDispatch, RowContinue DEF JukeboxInv
  <2> QED BY <2>2, <2>3, SteadyStep DEF JukeboxInv
<1> QED BY <1>1, <1>2, SteadyStep DEF JukeboxInv

\* Commands sent one at a time, without the prefetch worker and restarts,
\* implement a jukebox.
THEOREM SerialIsJukebox ==
  ASSUME NEW w, Workers = {w}, Alone
  PROVE  Spec => ImplementsJukebox
<1>1. Init => J!Init
  <2> SUFFICES ASSUME Init PROVE J!Init
    OBVIOUS
  <2>1. \A i \in Ids : status[i] = "ABSENT"
    BY DEF Init, TableInit
  <2>2. Tickets(Waiting) = {} /\ Tickets({"PLAYING"}) = {}
    BY <2>1 DEF Tickets, Waiting
  <2>3. ~\E u \in Workers : PlaysNow(u)
    BY DEF Init, PlaysNow
  <2> QED BY <2>2, <2>3 DEF J!Init
<1>2. TypeOK /\ JukeboxInv /\ [Next]_vars => [J!Next]_(J!vars)
  <2> SUFFICES ASSUME TypeOK, JukeboxInv, [Next]_vars PROVE J!Next \/ UNCHANGED J!vars
    OBVIOUS
  <2>1. CASE UNCHANGED vars
    BY <2>1, AsStutter DEF vars, tableVars, Now, PlaysNow
  <2>2. CASE Dispatch(w) \/ Continue(w)
    BY <2>2, JukeboxDispatch, JukeboxContinue DEF JukeboxInv
  <2> QED BY <2>1, <2>2, SteadyStep DEF JukeboxInv
<1>3. TypeOK /\ JukeboxInv /\ [Next]_vars => JukeboxInv'
  BY JukeboxInvStep
<1> QED BY <1>1, <1>2, <1>3, JukeboxInvInit, TypeCorrect, PTL DEF Spec, ImplementsJukebox, J!Spec

-------------------------------------------------------------------------------
(* Rows that have been played *)

\* No statement takes a row that has been played back to the queue; an insertion
\* goes to an id whose row is gone.
Keeps == \A i \in Ids : status[i] = "COMPLETED" => status'[i] \in Finished \cup {"ABSENT"}

\* An INSERT,
LEMMA InsertKeeps ==
  ASSUME TypeOK, NEW v, NEW s, EnqueueTrack(v, s) \/ EnqueueTrackAtFront(v, s)
  PROVE  Keeps
<1>1. ASSUME NEW i \in Ids, status[i] = "ABSENT", Insert(i, v, s) PROVE Keeps
  BY <1>1 DEF Keeps, Insert, TypeOK, TableTypeOK, Finished
<1>2. CASE EnqueueTrack(v, s)
  <2>1. lastId + 1 \in Ids /\ lastId + 1 > lastId
    BY <1>2, IdsAssumption DEF EnqueueTrack, TypeOK, TableTypeOK, Ids
  <2>2. status[lastId + 1] = "ABSENT"
    BY <2>1 DEF TypeOK, TableTypeOK
  <2> QED BY <1>1, <1>2, <2>1, <2>2 DEF EnqueueTrack
<1>3. CASE EnqueueTrackAtFront(v, s)
  <2>1. PICK i \in Ids : IsFrontId(i) /\ Insert(i, v, s)
    BY <1>3 DEF EnqueueTrackAtFront
  <2>2. i \in Int
    BY IdsAssumption DEF Ids
  <2>3. status[i] \notin Statuses
    BY <2>1, <2>2 DEF IsFrontId, Exists, IsFirst
  <2>4. status[i] = "ABSENT"
    BY <2>3 DEF TypeOK, TableTypeOK
  <2> QED BY <1>1, <2>1, <2>4
<1> QED BY <1>2, <1>3

\* an UPDATE of a row that has not been played,
LEMMA UpdateKeeps ==
  ASSUME TypeOK, NEW i, NEW s, SetQueueStatus(i, s),
         s \in Finished \/ (i \in Ids => status[i] # "COMPLETED")
  PROVE  Keeps
BY DEF SetQueueStatus, Keeps, Present, Finished, TypeOK, TableTypeOK

\* and DELETE take none back.
LEMMA ClearKeeps ==
  ASSUME ClearTable
  PROVE  Keeps
BY DEF ClearTable, Keeps, Finished

\* The worker goes on with a row that has not been played, or with none.
LEMMA FreshMove ==
  ASSUME TypeOK, NEW w, Workers = {w}, NEW l, NEW j, Goto(w, l, j),
         l \in {"ready", "start", "mark"} => \A i \in Ids : i = j.row => status'[i] # "COMPLETED"
  PROVE  FreshInv'
<1>1. \A u \in Workers : pc'[u] = l /\ job'[u] = j
  BY Moved
<1> QED BY <1>1 DEF FreshInv

\* No worker moves, and no row is completed.
LEMMA FreshStay ==
  ASSUME FreshInv, NoNew("COMPLETED"), UNCHANGED <<pc, job>>
  PROVE  FreshInv'
BY DEF FreshInv, NoNew

\* The first statement of a command has no row in hand to play,
LEMMA FreshDispatch ==
  ASSUME TypeOK, FreshInv, NEW w, Workers = {w}, Dispatch(w)
  PROVE  FreshInv'
<1>1. CASE \/ \E v \in Videos : PlayNow(w, v) \/ QueueAdd(w, v) \/ PlayNext(w, v)
           \/ Previous(w) \/ StopAll(w) \/ Shuffle(w)
  BY <1>1, FreshMove DEF PlayNow, QueueAdd, PlayNext, Previous, StopAll, Shuffle
<1>2. CASE Skip(w) \/ PlaybackFinished(w)
  BY <1>2, LookMoves, FreshMove DEF Skip, PlaybackFinished
<1>3. CASE ClearQueue(w) \/ \E on \in BOOLEAN : SetAutoplay(w, on)
  BY <1>3, DispatchNoNew, FreshStay DEF ClearQueue, SetAutoplay
<1> QED BY <1>1, <1>2, <1>3 DEF Dispatch

\* and the later ones take a row that waits, or keep the one they have.
LEMMA FreshContinue ==
  ASSUME TypeOK, FreshInv, NEW w, Workers = {w}, Continue(w)
  PROVE  FreshInv'
<1> USE DEF Goon, GoAdvance, Finish
<1>1. CASE Look(w)
  BY <1>1, LookMoves, FreshMove DEF Look
<1>2. CASE \/ Check(w) \/ Complete(w) \/ ReenqueueCurrent(w) \/ EnqueuePrevious(w)
           \/ StopClear(w) \/ ShuffleClear(w) \/ MarkPlaying(w) \/ SetCurrent(w)
           \/ SavePlayHistory(w) \/ EnrichRecommendations(w)
  <2>1. \E l, j : Goto(w, l, j) /\ l \notin {"ready", "start", "mark"}
    BY <1>2 DEF Check, Complete, ReenqueueCurrent, EnqueuePrevious, StopClear, ShuffleClear,
       MarkPlaying, SetCurrent, SavePlayHistory, EnrichRecommendations
  <2> QED BY <2>1, FreshMove
<1>3. CASE EnqueueNow(w) \/ PlayTrackFromAutoplay(w)
  <2>1. status' = [status EXCEPT ![lastId + 1] = "PENDING"]
    BY <1>3 DEF EnqueueNow, PlayTrackFromAutoplay, EnqueueTrack, Insert
  <2>2. \E l, j : Goto(w, l, j) /\ j.row = lastId + 1
    BY <1>3 DEF EnqueueNow, PlayTrackFromAutoplay, Player, MkJob
  <2> QED BY <2>1, <2>2, FreshMove DEF TypeOK, TableTypeOK
<1>4. CASE AdvanceQueue(w)
  <2>1. ASSUME NEW i \in Ids, IsNextPending(i), Goto(w, "start", Player(video[i], i))
        PROVE  FreshInv'
    <3>1. status'[i] # "COMPLETED" /\ Player(video[i], i).row = i
      BY <1>4, <2>1 DEF AdvanceQueue, tableVars, IsNextPending, IsFirst, Waiting, Player, MkJob
    <3> QED BY <2>1, <3>1, FreshMove
  <2>2. ASSUME NEW j, Goto(w, "autoplay", j) \/ Goto(w, "idle", j) PROVE FreshInv'
    BY <2>2, FreshMove
  <2> QED BY <1>4, <2>1, <2>2 DEF AdvanceQueue
<1>5. CASE MarkReady(w) \/ StartStream(w)
  <2>1. \A i \in Ids : i = job[w].row => status[i] # "COMPLETED"
    BY <1>5 DEF MarkReady, StartStream, FreshInv
  <2>2. NoNew("COMPLETED")
    BY <1>5, UpdateNoNew, SameNoNew DEF MarkReady, StartStream, tableVars
  <2>3. \E l : Goto(w, l, job[w])
    BY <1>5 DEF MarkReady, StartStream
  <2> QED BY <2>1, <2>2, <2>3, FreshMove DEF NoNew
<1>6. CASE ShuffleInsert(w)
  <2>1. NoNew("COMPLETED")
    BY <1>6, ContinueNoNew DEF ShuffleInsert, MarkPlaying, Complete
  <2>2. Goto(w, "idle", NoJob) \/ UNCHANGED <<pc, job>>
    BY <1>6 DEF ShuffleInsert
  <2> QED BY <2>1, <2>2, FreshMove, FreshStay
<1> QED BY <1>1, <1>2, <1>3, <1>4, <1>5, <1>6 DEF Continue

\* The prefetch worker and main complete no row.
LEMMA FreshProcess ==
  ASSUME TypeOK, FreshInv, StartPrefetchWorker \/ RecoverFromRestart \/ Restart
  PROVE  FreshInv'
<1>1. CASE Restart
  BY <1>1 DEF Restart, FreshInv
<1>2. CASE PrefetchPick \/ PrefetchClaim \/ PrefetchEnd \/ RecoverLook \/ RecoverFail
  <2>1. NoNew("COMPLETED") /\ UNCHANGED <<pc, job>>
    BY <1>2, UpdateNoNew, SameNoNew
       DEF PrefetchPick, PrefetchClaim, PrefetchEnd, RecoverLook, RecoverFail, tableVars
  <2> QED BY <2>1, FreshStay
<1> QED BY <1>1, <1>2 DEF StartPrefetchWorker, RecoverFromRestart

\* A row that has been played is never queued or played again, whatever is queued,
\* put in front, shuffled or interrupted, one command at a time, and wherever the
\* process restarts: but for the prefetch worker, which writes the status of a
\* row it read long ago.
THEOREM PlayedOnce ==
  ASSUME NEW w, Workers = {w}
  PROVE  Spec => ReplayedWhere
<1> DEFINE Place(i) == (PrefetchClaim \/ PrefetchEnd) /\ pf.row = i
           Replayed == \A i \in Ids :
             status[i] = "COMPLETED" /\ status'[i] \notin Finished \cup {"ABSENT"} => Place(i)
<1>1. TypeOK /\ FreshInv /\ [Next]_vars => [Replayed]_vars
  <2> SUFFICES ASSUME TypeOK, FreshInv, Next PROVE Replayed
    OBVIOUS
  <2>1. Keeps => Replayed
    BY DEF Keeps
  <2>2. CASE UNCHANGED status
    BY <2>2 DEF Finished
  <2>3. CASE Dispatch(w)
    <3>1. ASSUME NEW v \in Videos, QueueAdd(w, v) \/ PlayNext(w, v) PROVE Keeps
      BY <3>1, InsertKeeps DEF QueueAdd, PlayNext
    <3>2. ASSUME ClearQueue(w) PROVE Keeps
      BY <3>2, ClearKeeps DEF ClearQueue
    <3> QED
      BY <2>1, <2>2, <2>3, <3>1, <3>2 DEF Dispatch, PlayNow, Skip, PlaybackFinished, Previous,
         StopAll, Shuffle, SetAutoplay, tableVars
  <2>4. CASE Continue(w)
    <3>1. ASSUME \/ EnqueueNow(w) \/ ReenqueueCurrent(w) \/ EnqueuePrevious(w)
                 \/ PlayTrackFromAutoplay(w) \/ ShuffleInsert(w)
          PROVE  Keeps
      BY <3>1, InsertKeeps DEF EnqueueNow, ReenqueueCurrent, EnqueuePrevious,
         PlayTrackFromAutoplay, ShuffleInsert
    <3>2. ASSUME StopClear(w) \/ ShuffleClear(w) PROVE Keeps
      BY <3>2, ClearKeeps DEF StopClear, ShuffleClear
    <3>3. ASSUME Complete(w) PROVE Keeps
      BY <3>3, UpdateKeeps DEF Complete, Finished
    <3>4. ASSUME MarkReady(w) \/ MarkPlaying(w) PROVE Keeps
      <4>1. job[w].row \in Ids => status[job[w].row] # "COMPLETED"
        BY <3>4 DEF MarkReady, MarkPlaying, FreshInv
      <4> QED BY <3>4, <4>1, UpdateKeeps DEF MarkReady, MarkPlaying
    <3> QED
      BY <2>1, <2>2, <2>4, <3>1, <3>2, <3>3, <3>4 DEF Continue, Look, Check, AdvanceQueue,
         StartStream, SetCurrent, SavePlayHistory, EnrichRecommendations, tableVars
  <2>5. CASE PrefetchClaim \/ PrefetchEnd
    BY <2>5 DEF PrefetchClaim, PrefetchEnd, SetQueueStatus, TypeOK, TableTypeOK, Finished
  <2>6. CASE RecoverFail
    BY <2>1, <2>6, UpdateKeeps DEF RecoverFail, Finished
  <2>7. CASE PrefetchPick \/ Restart \/ RecoverLook
    BY <2>2, <2>7 DEF PrefetchPick, Restart, RecoverLook, tableVars
  <2> QED
    BY <2>3, <2>4, <2>5, <2>6, <2>7 DEF Next, StartPrefetchWorker, RecoverFromRestart
<1>2. TypeOK /\ FreshInv /\ [Next]_vars => FreshInv'
  <2>1. UNCHANGED vars => NoNew("COMPLETED") /\ UNCHANGED <<pc, job>>
    BY SameNoNew DEF vars
  <2> QED BY <2>1, FreshStay, FreshDispatch, FreshContinue, FreshProcess DEF Next
<1>3. Init => FreshInv
  BY DEF Init, FreshInv
<1> QED BY <1>1, <1>2, <1>3, TypeCorrect, PTL DEF Spec, ReplayedWhere

-------------------------------------------------------------------------------
(* What is PLAYING is streamed *)

\* A row that goes on playing keeps its video.
KeepsVideo == \A i \in Ids : status'[i] = "PLAYING" => status[i] = "PLAYING" /\ video'[i] = video[i]

\* Every statement but MarkPlaying keeps what is PLAYING and its video.
LEMMA TableKeepsVideo ==
  ASSUME TypeOK,
         \/ \E v, s : s # "PLAYING" /\ (EnqueueTrack(v, s) \/ EnqueueTrackAtFront(v, s))
         \/ \E i, s : s # "PLAYING" /\ SetQueueStatus(i, s)
         \/ ClearTable
         \/ UNCHANGED tableVars
  PROVE  KeepsVideo
<1>1. ASSUME NEW i \in Ids, NEW v, NEW s, s # "PLAYING", Insert(i, v, s) PROVE KeepsVideo
  BY <1>1 DEF Insert, KeepsVideo, TypeOK, TableTypeOK
<1>2. ASSUME NEW v, NEW s, s # "PLAYING", EnqueueTrack(v, s) PROVE KeepsVideo
  <2>1. lastId + 1 \in Ids
    BY <1>2, IdsAssumption DEF EnqueueTrack, TypeOK, TableTypeOK, Ids
  <2> QED BY <1>1, <1>2, <2>1 DEF EnqueueTrack
<1>3. ASSUME NEW v, NEW s, s # "PLAYING", EnqueueTrackAtFront(v, s) PROVE KeepsVideo
  BY <1>1, <1>3 DEF EnqueueTrackAtFront
<1>4. ASSUME NEW i, NEW s, s # "PLAYING", SetQueueStatus(i, s) PROVE KeepsVideo
  BY <1>4 DEF SetQueueStatus, KeepsVideo
<1>5. CASE ClearTable \/ UNCHANGED tableVars
  BY <1>5 DEF ClearTable, tableVars, KeepsVideo
<1> QED BY <1>2, <1>3, <1>4, <1>5

\* The worker moves and leaves the streamer alone.
LEMMA StreamMove ==
  ASSUME TypeOK, StreamInv, NEW w, Workers = {w}, NEW l, NEW j, Goto(w, l, j),
         KeepsVideo, UNCHANGED <<active, boot>>, l \notin {"ready", "start", "mark", "current"},
         \/ NothingPlaying
         \/ l \in {"look", "complete"} /\ j.cmd = "stop"
         \/ /\ pc[w] # "current" /\ current' = current
            /\ pc[w] \in {"look", "complete"} => job[w].cmd # "stop"
         \/ pc[w] = "current" /\ current' = job[w].vid
  PROVE  StreamInv'
<1>1. pc'[w] = l /\ job'[w] = j
  BY Moved
<1>2. ASSUME NEW i \in Ids, status'[i] = "PLAYING", ~(boot.at = "look"),
             ~(boot.at = "fail" /\ boot.row = i)
      PROVE  Streamed(i)'
  <2>1. status[i] = "PLAYING" /\ video'[i] = video[i] /\ Streamed(i)
    BY <1>2 DEF KeepsVideo, StreamInv
  <2>2. ~NothingPlaying
    BY <2>1 DEF NothingPlaying, Exists
  <2> QED BY <1>1, <2>1, <2>2 DEF Streamed
<1> QED BY <1>1, <1>2 DEF StreamInv

\* It takes a row in hand while nothing plays.
LEMMA StreamHand ==
  ASSUME TypeOK, NEW w, Workers = {w}, NEW l \in {"ready", "start", "mark"}, NEW j, Goto(w, l, j),
         NothingPlaying, KeepsVideo, \A i \in Ids : i = j.row => video'[i] = j.vid,
         l = "mark" => active' = j.vid
  PROVE  StreamInv'
<1>1. pc'[w] = l /\ job'[w] = j
  BY Moved
<1>2. \A i \in Ids : status'[i] # "PLAYING"
  BY DEF KeepsVideo, NothingPlaying, Exists
<1> QED BY <1>1, <1>2 DEF StreamInv

\* It stays where it is.
LEMMA StreamStay ==
  ASSUME StreamInv, KeepsVideo, UNCHANGED <<pc, job, active, current, boot>>,
         \A w \in Workers : pc[w] \notin {"ready", "start", "mark"} \/ UNCHANGED video
  PROVE  StreamInv'
BY DEF StreamInv, Streamed, KeepsVideo

\* It looks for the PLAYING row.
LEMMA StreamLook ==
  ASSUME TypeOK, StreamInv, NEW w, Workers = {w}, NEW j, NEW l, LookPlaying(w, j, l),
         KeepsVideo, UNCHANGED <<active, current, boot>>,
         l \notin {"ready", "start", "mark", "current"},
         pc[w] = "idle" \/ (pc[w] = "look" /\ j = job[w])
  PROVE  StreamInv'
<1>1. CASE NothingPlaying /\ Goto(w, l, j)
  BY <1>1, StreamMove
<1>2. ASSUME NEW i \in Ids, NEW o, Goto(w, "complete", MkJob(j.cmd, j.vid, o, i))
      PROVE  StreamInv'
  BY <1>2, StreamMove DEF MkJob
<1> QED BY <1>1, <1>2 DEF LookPlaying

\* The first statement of a command keeps stream, current track and row together,
LEMMA StreamDispatch ==
  ASSUME TypeOK, StreamInv, NEW w, Workers = {w}, Dispatch(w)
  PROVE  StreamInv'
<1>0. KeepsVideo /\ UNCHANGED <<active, boot>> /\ pc[w] = "idle"
  <2>1. CASE ClearQueue(w)
    BY <2>1, TableKeepsVideo DEF ClearQueue, Accepts, memVars, procVars
  <2>2. ASSUME NEW v \in Videos, QueueAdd(w, v) \/ PlayNext(w, v)
        PROVE KeepsVideo /\ UNCHANGED <<active, boot>> /\ pc[w] = "idle"
    BY <2>2, TableKeepsVideo DEF QueueAdd, PlayNext, Accepts, memVars, procVars, Waiting
  <2>3. ASSUME \/ \E v \in Videos : PlayNow(w, v)
               \/ Skip(w) \/ PlaybackFinished(w) \/ Previous(w) \/ StopAll(w) \/ Shuffle(w)
               \/ \E on \in BOOLEAN : SetAutoplay(w, on)
        PROVE KeepsVideo /\ UNCHANGED <<active, boot>> /\ pc[w] = "idle"
    BY <2>3, TableKeepsVideo DEF PlayNow, Skip, PlaybackFinished, Previous, StopAll, Shuffle,
       SetAutoplay, Accepts, memVars, procVars
  <2> QED BY <2>1, <2>2, <2>3 DEF Dispatch
<1>1. CASE \/ \E v \in Videos : PlayNow(w, v) \/ QueueAdd(w, v) \/ PlayNext(w, v)
           \/ Previous(w) \/ Shuffle(w)
  <2>1. current' = current /\ \E j : \E l \in {"look", "check", "wipe"} : Goto(w, l, j)
    BY <1>1 DEF PlayNow, QueueAdd, PlayNext, Previous, Shuffle, memVars
  <2> QED BY <1>0, <2>1, StreamMove
<1>2. CASE StopAll(w)
  BY <1>0, <1>2, StreamMove DEF StopAll, Job, MkJob
<1>3. CASE Skip(w) \/ PlaybackFinished(w)
  BY <1>0, <1>3, StreamLook DEF Skip, PlaybackFinished, memVars
<1>4. CASE ClearQueue(w) \/ \E on \in BOOLEAN : SetAutoplay(w, on)
  <2>1. UNCHANGED <<pc, job, current>>
    BY <1>4 DEF ClearQueue, SetAutoplay, memVars
  <2> QED BY <1>0, <2>1, StreamStay
<1> QED BY <1>1, <1>2, <1>3, <1>4 DEF Dispatch

\* and so do the later ones.
LEMMA StreamContinue ==
  ASSUME TypeOK, SerialInv, StreamInv, NEW w, Workers = {w}, Continue(w)
  PROVE  StreamInv'
<1> USE DEF Goon, GoAdvance, Finish
<1>0. UNCHANGED boot
  BY WorkerKeepsProcesses
<1>1. CASE Look(w)
  <2>1. KeepsVideo
    BY <1>1, TableKeepsVideo DEF Look
  <2> QED
    BY <1>0, <1>1, <2>1, StreamLook DEF Look, memVars
<1>2. CASE Check(w) \/ SetCurrent(w) \/ SavePlayHistory(w) \/ EnrichRecommendations(w) \/ ShuffleClear(w)
  <2>1. KeepsVideo /\ UNCHANGED active
    BY <1>2, TableKeepsVideo DEF Check, SetCurrent, SavePlayHistory, EnrichRecommendations,
       ShuffleClear, memVars
  <2>2. \/ pc[w] \in {"check", "record", "enrich", "wipe"} /\ current' = current
        \/ pc[w] = "current" /\ current' = job[w].vid
    BY <1>2 DEF Check, SetCurrent, SavePlayHistory, EnrichRecommendations, ShuffleClear, memVars
  <2>3. \E j : \E l \in {"advance", "idle", "record", "enrich", "reinsert"} : Goto(w, l, j)
    BY <1>2 DEF Check, SetCurrent, SavePlayHistory, EnrichRecommendations, ShuffleClear
  <2> QED BY <1>0, <2>1, <2>2, <2>3, StreamMove
<1>3. CASE Complete(w)
  <2>1. NothingPlaying'
    BY <1>3 DEF Complete, SetQueueStatus, Present, SerialInv, NothingPlaying, Exists
  <2>2. \A u \in Workers : pc'[u] \notin {"ready", "start", "mark"}
    BY <1>3, Moved DEF Complete
  <2> QED BY <2>1, <2>2 DEF StreamInv, NothingPlaying, Exists
<1>4. CASE ReenqueueCurrent(w) \/ EnqueuePrevious(w) \/ StopClear(w)
  <2>1. NothingPlaying /\ KeepsVideo /\ UNCHANGED active
    BY <1>4, TableKeepsVideo DEF ReenqueueCurrent, EnqueuePrevious, StopClear, SerialInv,
       AfterComplete, memVars, Waiting
  <2>2. \E j : \E l \in {"front", "advance", "idle"} : Goto(w, l, j)
    BY <1>4 DEF ReenqueueCurrent, EnqueuePrevious, StopClear
  <2> QED BY <1>0, <2>1, <2>2, StreamMove
<1>5. CASE EnqueueNow(w) \/ PlayTrackFromAutoplay(w)
  <2>1. NothingPlaying /\ EnqueueTrack(job[w].vid, "PENDING")
    BY <1>5 DEF EnqueueNow, PlayTrackFromAutoplay, SerialInv, AfterComplete
  <2>2. KeepsVideo
    BY <2>1, TableKeepsVideo
  <2>3. lastId + 1 \in Ids
    BY <2>1, IdsAssumption DEF EnqueueTrack, TypeOK, TableTypeOK, Ids
  <2>4. video'[lastId + 1] = job[w].vid
    BY <2>1, <2>3 DEF EnqueueTrack, Insert, TypeOK, TableTypeOK
  <2>5. \E l \in {"ready", "start"}, j \in {MkJob("play", job[w].vid, NoVideo, lastId + 1),
                                            Player(job[w].vid, lastId + 1)} : Goto(w, l, j)
    BY <1>5 DEF EnqueueNow, PlayTrackFromAutoplay
  <2> QED BY <2>1, <2>2, <2>4, <2>5, StreamHand DEF Player, MkJob
<1>6. CASE MarkReady(w) \/ StartStream(w)
  <2>1. NothingPlaying
    BY <1>6 DEF MarkReady, StartStream, SerialInv, AfterComplete
  <2>2. KeepsVideo
    BY <1>6, TableKeepsVideo DEF MarkReady, StartStream
  <2>3. \A i \in Ids : i = job[w].row => video'[i] = job[w].vid
    BY <1>6 DEF MarkReady, StartStream, StreamInv, SetQueueStatus, tableVars
  <2> QED BY <1>6, <2>1, <2>2, <2>3, StreamHand DEF MarkReady, StartStream
<1>7. CASE ShuffleInsert(w)
  <2>1. PICK r \in batch : EnqueueTrack(r.vid, r.st)
    BY <1>7 DEF ShuffleInsert
  <2>2. r.st # "PLAYING"
    BY DEF TypeOK, Rows, Waiting
  <2>3. KeepsVideo /\ UNCHANGED <<active, current>> /\ pc[w] = "reinsert"
    BY <1>7, <2>1, <2>2, TableKeepsVideo DEF ShuffleInsert
  <2>4. Goto(w, "idle", NoJob) \/ UNCHANGED <<pc, job>>
    BY <1>7 DEF ShuffleInsert
  <2>5. CASE Goto(w, "idle", NoJob)
    BY <1>0, <2>3, <2>5, StreamMove
  <2>6. CASE UNCHANGED <<pc, job>>
    BY <1>0, <2>3, <2>6, StreamStay
  <2> QED BY <2>4, <2>5, <2>6
<1>8. CASE AdvanceQueue(w)
  <2>1. NothingPlaying /\ KeepsVideo /\ UNCHANGED <<active, video>>
    BY <1>8, TableKeepsVideo DEF AdvanceQueue, SerialInv, AfterComplete, tableVars
  <2>2. ASSUME NEW i \in Ids, Goto(w, "start", Player(video[i], i)) PROVE StreamInv'
    BY <2>1, <2>2, StreamHand DEF Player, MkJob
  <2>3. ASSUME NEW j, Goto(w, "autoplay", j) \/ Goto(w, "idle", j) PROVE StreamInv'
    BY <1>0, <2>1, <2>3, StreamMove
  <2> QED BY <1>8, <2>2, <2>3 DEF AdvanceQueue
<1>9. CASE MarkPlaying(w)
  <2>1. pc'[w] = "current" /\ job'[w].vid = job[w].vid
    BY <1>9, Moved DEF MarkPlaying, Player, MkJob
  <2>2. ASSUME NEW i \in Ids, status'[i] = "PLAYING" PROVE Streamed(i)'
    <3>1. i = job[w].row
      BY <1>9, <2>2 DEF MarkPlaying, SetQueueStatus, SerialInv, AfterComplete, NothingPlaying, Exists
    <3>2. video'[i] = job[w].vid /\ active' = job[w].vid
      BY <1>9, <3>1 DEF MarkPlaying, SetQueueStatus, StreamInv, memVars
    <3> QED BY <2>1, <3>2 DEF Streamed
  <2> QED BY <2>1, <2>2 DEF StreamInv
<1> QED
  BY <1>1, <1>2, <1>3, <1>4, <1>5, <1>6, <1>7, <1>8, <1>9 DEF Continue

\* The prefetch worker, a restart, and RecoverFromRestart.
LEMMA StreamProcess ==
  ASSUME TypeOK, SerialInv, StreamInv, NEW w, Workers = {w},
         StartPrefetchWorker \/ Restart \/ RecoverFromRestart
  PROVE  StreamInv'
<1>1. CASE StartPrefetchWorker
  <2>1. KeepsVideo /\ UNCHANGED video
    BY <1>1, TableKeepsVideo DEF StartPrefetchWorker, PrefetchPick, PrefetchClaim, PrefetchEnd,
       SetQueueStatus, tableVars
  <2> QED
    BY <1>1, <2>1, StreamStay DEF StartPrefetchWorker, PrefetchPick, PrefetchClaim, PrefetchEnd, memVars
<1>2. CASE Restart
  BY <1>2 DEF Restart, StreamInv
<1>3. CASE RecoverLook
  <2>1. UNCHANGED <<status, video, pc, job, active, current>> /\ boot.at = "look"
    BY <1>3 DEF RecoverLook, tableVars, memVars
  <2>2. \A i \in Ids : status[i] = "PLAYING" => boot'.at = "fail" /\ boot'.row = i
    BY <1>3 DEF RecoverLook, IsPlayingEntry, IsFirst, NothingPlaying, Exists, SerialInv, AtMostOnePlaying
  <2> QED BY <2>1, <2>2 DEF StreamInv
<1>4. CASE RecoverFail
  <2>1. boot.at = "fail" /\ UNCHANGED <<video, pc, job, active, current>>
    BY <1>4 DEF RecoverFail, SetQueueStatus, memVars
  <2>2. ASSUME NEW i \in Ids, status'[i] = "PLAYING" PROVE Streamed(i)'
    <3>1. status[i] = "PLAYING" /\ i # boot.row
      BY <1>4, <2>2 DEF RecoverFail, SetQueueStatus, Present
    <3>2. Streamed(i)
      BY <2>1, <3>1 DEF StreamInv
    <3> QED BY <2>1, <3>2 DEF Streamed
  <2> QED BY <2>1, <2>2 DEF StreamInv
<1> QED BY <1>1, <1>2, <1>3, <1>4 DEF RecoverFromRestart

\* Commands sent one at a time, beside the prefetch worker, with a restart at
\* any point: between two commands the PLAYING row is the song that is streamed
\* and the one the clients are told.
THEOREM PlayingStreams ==
  ASSUME NEW w, Workers = {w}
  PROVE  Spec => []PlayingIsStreamed
<1>0. OneAtATime
  BY DEF OneAtATime
<1>1. Init => StreamInv
  BY DEF Init, TableInit, StreamInv
<1>2. TypeOK /\ SerialInv /\ StreamInv /\ [Next]_vars => StreamInv'
  <2> SUFFICES ASSUME TypeOK, SerialInv, StreamInv, [Next]_vars PROVE StreamInv'
    OBVIOUS
  <2>1. CASE Dispatch(w) \/ Continue(w)
    BY <2>1, StreamDispatch, StreamContinue
  <2>2. CASE StartPrefetchWorker \/ Restart \/ RecoverFromRestart
    BY <2>2, StreamProcess
  <2>3. CASE UNCHANGED vars
    BY <2>3 DEF vars, StreamInv, Streamed
  <2> QED BY <2>1, <2>2, <2>3 DEF Next
<1>3. StreamInv => PlayingIsStreamed
  BY DEF StreamInv, Streamed, PlayingIsStreamed, AllIdle
<1> QED BY <1>0, <1>1, <1>2, <1>3, SerialKeeps, TypeCorrect, PTL DEF Spec
===============================================================================
