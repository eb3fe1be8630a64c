----------------------------- MODULE StreamSession -----------------------------
(***************************************************************************)
(* The session of the streamer (src/internal/streamer/session.go,           *)
(* streamer.go): pause, resume, and the expiry worker that ends a session   *)
(* paused for too long; with the assistant commands of queue.Manager        *)
(* (src/internal/queue/manager.go).                                         *)
(*                                                                         *)
(* The sections under LiveSession's lock and under Manager.mu are steps.    *)
(* A worker is the goroutine of a command.  SessionPlaying is set by        *)
(* IssueToken only, which nothing but a test calls, so State is idle or     *)
(* paused.  A chunk index is the position within the track.                *)
(*                                                                         *)
(* ActiveVideoID is shared with OggStream; the names that both modules need *)
(* begin with Session here.                                                *)
(***************************************************************************)
EXTENDS Integers, LiveSession

CONSTANTS
  Workers,  \* the goroutines that may run commands at the same time
  Chunks    \* the chunk indices a device may be paused at, and 0

ASSUME StreamSessionAssumption == Chunks \subseteq Nat /\ 0 \in Chunks

VARIABLES
  state,            \* State
  lastChunk,        \* LastChunk
  pausedAt,         \* PausedAt: zero, within the timeout, or beyond it
  assistantActive,  \* Manager.assistantActive
  wasPlaying,       \* Manager.wasPlayingBeforeAssistant
  pc,               \* [Workers -> where the command is]
  arg,              \* [Workers -> the video and chunk the command has in hand]
  expiry            \* the expiry worker: whether it is about to clear the session

session   == <<active, state, lastChunk, pausedAt>>
assistant == <<assistantActive, wasPlaying>>

sessionVars ==
  <<active, state, lastChunk, pausedAt, assistantActive, wasPlaying, pc, arg, expiry>>

Tracks  == [vid : MaybeVideo, chunk : Chunks]
Nothing == [vid |-> NoVideo, chunk |-> 0]

SessionTypeOK ==
  /\ active \in MaybeVideo
  /\ state \in {"idle", "paused"}
  /\ lastChunk \in Chunks
  /\ pausedAt \in {"zero", "recent", "old"}
  /\ state = "paused" <=> pausedAt # "zero"
  /\ assistantActive \in BOOLEAN
  /\ wasPlaying \in BOOLEAN
  /\ pc \in [Workers -> {"idle", "save", "get", "start"}]
  /\ arg \in [Workers -> Tracks]
  /\ expiry \in {"rest", "clear"}

SessionInit ==
  /\ active = NoVideo
  /\ state = "idle"
  /\ lastChunk = 0
  /\ pausedAt = "zero"
  /\ assistantActive = FALSE
  /\ wasPlaying = FALSE
  /\ pc = [w \in Workers |-> "idle"]
  /\ arg = [w \in Workers |-> Nothing]
  /\ expiry = "rest"

GoOn(w, l, a) ==
  /\ pc' = [pc EXCEPT ![w] = l]
  /\ arg' = [arg EXCEPT ![w] = a]

-------------------------------------------------------------------------------
(* Pause *)

Pause(w, chunk) ==
  /\ pc[w] = "idle"
  /\ wasPlaying' = FALSE
  /\ GoOn(w, "save", [vid |-> NoVideo, chunk |-> chunk])
  /\ UNCHANGED <<session, assistantActive, expiry>>

\* Mutant of SavePause: the time of the pause is not written.
SaveUndated(w) ==
  /\ pc[w] = "save"
  /\ state' = "paused"
  /\ lastChunk' = arg[w].chunk
  /\ GoOn(w, "idle", Nothing)
  /\ UNCHANGED <<active, pausedAt, assistant, expiry>>

\* SavePause; CancelStream then stops a producer, and no session field changes.
SavePause(w) ==
  /\ pc[w] = "save"
  /\ state' = "paused"
  /\ lastChunk' = arg[w].chunk
  /\ pausedAt' = "recent"
  /\ GoOn(w, "idle", Nothing)
  /\ UNCHANGED <<active, assistant, expiry>>

-------------------------------------------------------------------------------
(* Resume *)

Resume(w) ==
  /\ pc[w] = "idle"
  /\ \/ /\ assistantActive
        /\ wasPlaying' = TRUE
        /\ UNCHANGED <<pc, arg>>
     \/ /\ ~assistantActive
        /\ wasPlaying' = FALSE
        /\ GoOn(w, "get", Nothing)
  /\ UNCHANGED <<session, assistantActive, expiry>>

\* ResumeStream ends with an error unless a video is paused.
GetPausedSession(w) ==
  /\ pc[w] = "get"
  /\ \/ /\ state = "paused" /\ active # NoVideo
        /\ GoOn(w, "start", [vid |-> active, chunk |-> lastChunk])
     \/ /\ ~(state = "paused" /\ active # NoVideo)
        /\ GoOn(w, "idle", Nothing)
  /\ UNCHANGED <<session, assistant, expiry>>

\* StartStream sets ActiveVideoID and no other field of the session.
Stream(v) ==
  /\ SetActive(v)
  /\ UNCHANGED <<state, lastChunk, pausedAt>>

StartResumed(w) ==
  /\ pc[w] = "start"
  /\ Stream(arg[w].vid)
  /\ GoOn(w, "idle", Nothing)
  /\ UNCHANGED <<assistant, expiry>>

\* The queue starts a track.
StartTrack(v) ==
  /\ Stream(v)
  /\ UNCHANGED <<assistant, pc, arg, expiry>>

-------------------------------------------------------------------------------
(* The assistant *)

\* isPlaying: whether some caller holds the gate of the live stream.
AssistantPause ==
  /\ assistantActive' = TRUE
  /\ \E isPlaying \in BOOLEAN : wasPlaying' = (wasPlaying \/ isPlaying)
  /\ UNCHANGED <<session, pc, arg, expiry>>

\* Mutant of AssistantPlay: wasPlayingBeforeAssistant is not reset.
AssistantPlayForgets ==
  /\ assistantActive' = FALSE
  /\ UNCHANGED <<wasPlaying, session, pc, arg, expiry>>

AssistantPlay ==
  /\ assistantActive' = FALSE
  /\ wasPlaying' = FALSE
  /\ UNCHANGED <<session, pc, arg, expiry>>

\* play, next, playback_finished and previous begin with this section.
QueueCommand ==
  /\ wasPlaying' = FALSE
  /\ UNCHANGED <<session, assistantActive, pc, arg, expiry>>

StopAll ==
  /\ assistantActive' = FALSE
  /\ wasPlaying' = FALSE
  /\ UNCHANGED <<session, pc, arg, expiry>>

-------------------------------------------------------------------------------
(* The expiry worker *)

\* The timeout, 30 minutes, passes.
PauseGrowsOld ==
  /\ pausedAt = "recent"
  /\ pausedAt' = "old"
  /\ UNCHANGED <<active, state, lastChunk, assistant, pc, arg, expiry>>

\* Mutant of ExpiryTick: LastChunk = 0 is taken for "not paused".
ExpiryTickSaved ==
  /\ expiry = "rest"
  /\ lastChunk > 0 /\ pausedAt = "old"
  /\ expiry' = "clear"
  /\ UNCHANGED <<session, assistant, pc, arg>>

\* A tick: it reads State and PausedAt, and releases the lock.
ExpiryTick ==
  /\ expiry = "rest"
  /\ state = "paused" /\ pausedAt = "old"
  /\ expiry' = "clear"
  /\ UNCHANGED <<session, assistant, pc, arg>>

\* ClearSession, whatever the session has become.
ExpiryClear ==
  /\ expiry = "clear"
  /\ ResetActive
  /\ state' = "idle"
  /\ lastChunk' = 0
  /\ pausedAt' = "zero"
  /\ expiry' = "rest"
  /\ UNCHANGED <<assistant, pc, arg>>

-------------------------------------------------------------------------------
Continue(w) == SavePause(w) \/ GetPausedSession(w) \/ StartResumed(w)

ExpiryWorker == ExpiryTick \/ ExpiryClear

SessionNext ==
  \/ \E w \in Workers : Continue(w) \/ Resume(w) \/ \E k \in Chunks : Pause(w, k)
  \/ \E v \in Videos : StartTrack(v)
  \/ AssistantPause \/ AssistantPlay \/ QueueCommand \/ StopAll
  \/ PauseGrowsOld \/ ExpiryWorker

SessionSpec == SessionInit /\ [][SessionNext]_sessionVars

\* Goroutines are scheduled, time passes, and the ticker ticks every 5 minutes.
SessionLiveSpec ==
  /\ SessionSpec
  /\ \A w \in Workers : WF_sessionVars(Continue(w))
  /\ WF_sessionVars(PauseGrowsOld) /\ WF_sessionVars(ExpiryWorker)

-------------------------------------------------------------------------------
(* Properties *)

\* What a command notes for the end of the conversation does not outlive it:
\* Resume, AssistantPause, AssistantPlay and StopAll read and write both flags in
\* one section, and every other command resets the one.
NotedForAssistant == wasPlaying => assistantActive

\* A pause is ended or renewed: none outlives its timeout for good.
PauseExpires == state = "paused" /\ pausedAt = "old" ~> pausedAt # "old"

===============================================================================
