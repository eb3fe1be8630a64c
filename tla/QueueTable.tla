------------------------------ MODULE QueueTable ------------------------------
(***************************************************************************)
(* The playback_queue table and its SQL statements                         *)
(* (src/internal/db/db.go, src/internal/db/media.go).  Every statement      *)
(* runs under the mutex of DB or is one SQLite statement, so each one is a  *)
(* single step.  A statement is written as a relation on the table: a       *)
(* SELECT ... LIMIT 1 is a predicate on the id it returns.                  *)
(*                                                                         *)
(* A row that is not in the table has status "ABSENT".  Title, source and   *)
(* the two timestamps of a row decide nothing and are left out; video_id is *)
(* a model value.                                                          *)
(***************************************************************************)
EXTENDS Integers

CONSTANTS
  Videos,   \* the video_ids
  NoVideo,  \* the empty video_id, and the video of an absent row
  MaxFront, \* bound: EnqueueTrackAtFront hands out no id below -MaxFront
  MaxId     \* bound: the highest id AUTOINCREMENT may hand out

ASSUME VideosAssumption == NoVideo \notin Videos
ASSUME IdsAssumption == MaxFront \in Nat \ {0} /\ MaxId \in Nat

VARIABLES
  status,  \* [Ids -> Statuses \cup {"ABSENT"}]
  video,   \* [Ids -> Videos \cup {NoVideo}]
  lastId   \* sqlite_sequence: the highest id AUTOINCREMENT has handed out

tableVars == <<status, video, lastId>>

Ids == -MaxFront .. MaxId
NoId == -MaxFront - 1

Waiting  == {"PENDING", "READY"}
Finished == {"COMPLETED", "FAILED"}
Statuses == Waiting \cup Finished \cup {"PREFETCHING", "PLAYING"}

TableTypeOK ==
  /\ status \in [Ids -> Statuses \cup {"ABSENT"}]
  /\ video \in [Ids -> Videos \cup {NoVideo}]
  /\ lastId \in 0 .. MaxId
  /\ \A i \in Ids : i > lastId => status[i] = "ABSENT"

TableInit ==
  /\ status = [i \in Ids |-> "ABSENT"]
  /\ video = [i \in Ids |-> NoVideo]
  /\ lastId = 0

-------------------------------------------------------------------------------
(* SELECT *)

Present(i) == status[i] # "ABSENT"

\* Some row has one of these statuses.
Exists(S) == \E i \in Ids : status[i] \in S

\* i is the row of SELECT ... WHERE status IN S ORDER BY id LIMIT 1.
IsFirst(i, S) ==
  /\ status[i] \in S
  /\ \A j \in Ids : status[j] \in S => i <= j

\* Mutant of IsNextPending: WHERE status != 'PLAYING'.
NotPlayingIsPending(i) == IsFirst(i, Statuses \ {"PLAYING"})

\* Mutant of IsNextPending: ORDER BY id DESC.
NewestIsPending(i) ==
  /\ status[i] \in Waiting
  /\ \A j \in Ids : status[j] \in Waiting => j <= i

IsNextPending(i)     == IsFirst(i, Waiting)
IsNextForPrefetch(i) == IsFirst(i, {"PENDING"})

\* The query has no ORDER BY; SQLite answers it from idx_queue_status
\* (status, id), so the row it returns is the one with the lowest id.
IsPlayingEntry(i)    == IsFirst(i, {"PLAYING"})
NothingPlaying       == ~Exists({"PLAYING"})

-------------------------------------------------------------------------------
(* INSERT, UPDATE, DELETE *)

Insert(i, v, s) ==
  /\ status' = [status EXCEPT ![i] = s]
  /\ video' = [video EXCEPT ![i] = v]

EnqueueTrack(v, s) ==
  /\ lastId < MaxId
  /\ Insert(lastId + 1, v, s)
  /\ lastId' = lastId + 1

\* COALESCE(MIN(id), 0) - 1 over every row, the finished ones included.  An
\* id below the surviving rows can have belonged to a row deleted earlier.
IsFrontId(i) ==
  \/ /\ ~Exists(Statuses)
     /\ i = -1
  \/ /\ i + 1 \in Ids
     /\ IsFirst(i + 1, Statuses)

EnqueueTrackAtFront(v, s) ==
  \E i \in Ids :
    /\ IsFrontId(i)
    /\ Insert(i, v, s)
    /\ UNCHANGED lastId

\* An UPDATE of a row that is gone changes nothing.
SetQueueStatus(i, s) ==
  /\ status' = [j \in Ids |-> IF j = i /\ Present(j) THEN s ELSE status[j]]
  /\ UNCHANGED <<video, lastId>>

\* DELETE ... WHERE status != 'PLAYING'.
ClearTable ==
  /\ status' = [i \in Ids |-> IF status[i] = "PLAYING" THEN "PLAYING" ELSE "ABSENT"]
  /\ video' = [i \in Ids |-> IF status[i] = "PLAYING" THEN video[i] ELSE NoVideo]
  /\ UNCHANGED lastId
===============================================================================
