------------------------------ MODULE QueueDevice ------------------------------
(***************************************************************************)
(* The play queue with the device beside it.  The device plays the stream    *)
(* whose URL it was sent last and reports the end of what it plays, once:     *)
(* PlaybackFinished is then dispatched like any command.  It knows nothing of  *)
(* rows, so a row that is PLAYING is completed by its report only while it is   *)
(* the one the device plays.                                                *)
(*                                                                         *)
(* The prefetch worker and restarts are not part of this composition: what    *)
(* they take from the rows that wait is StrandedWhere in PlayQueue.           *)
(***************************************************************************)
EXTENDS PlayQueue

VARIABLE sounding   \* the device plays, and has not reported the end of it

deviceVars == <<vars, sounding>>

DeviceInit == Init /\ sounding = FALSE

\* A command, or a statement of one.  StartStream sends the device a URL;
\* "stopped" is published at the end of StopAll, and the device may obey it.  A
\* playback_finished among the commands is a client's, or one delivered twice.
QueueStep(w) ==
  /\ Dispatch(w) \/ Continue(w)
  /\ CASE pc[w] = "start" -> sounding' = TRUE
       [] pc[w] = "clear" -> sounding' \in {sounding, FALSE}
       [] OTHER           -> UNCHANGED sounding

\* A track lasts longer than the statement that marks its row after the URL
\* was sent.
ReportEnd(w) ==
  /\ sounding
  /\ \A u \in Workers : pc[u] # "mark"
  /\ PlaybackFinished(w)
  /\ sounding' = FALSE

DeviceNext == \E w \in Workers : QueueStep(w) \/ ReportEnd(w)

\* Goroutines are scheduled, and a track that the device plays ends.
Fairness ==
  /\ \A w \in Workers : WF_deviceVars(Continue(w) /\ QueueStep(w))
  /\ WF_deviceVars(\E w \in Workers : ReportEnd(w))

LiveSpec == DeviceInit /\ [][DeviceNext]_deviceVars /\ Fairness

-------------------------------------------------------------------------------
(* Properties *)

\* A stop that is about to empty the queue and to be published as "stopped" finds
\* nothing PLAYING, and no track between its StartStream and its MarkPlaying.
StopsBetweenTracks ==
  \A w \in Workers : pc[w] = "clear" => NothingPlaying /\ \A u \in Workers : pc[u] # "mark"

===============================================================================
