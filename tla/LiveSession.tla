------------------------------ MODULE LiveSession ------------------------------
(***************************************************************************)
(* What the parts of the streamer share: the field ActiveVideoID of          *)
(* LiveSession (src/internal/streamer/session.go), which every call of       *)
(* StartStream sets and ClearSession resets.  Each access to it is a section *)
(* under the session's lock.                                                *)
(***************************************************************************)
CONSTANTS
  Videos,   \* the video_ids
  NoVideo   \* ActiveVideoID = ""

ASSUME LiveSessionAssumption == NoVideo \notin Videos

VARIABLE active   \* ActiveVideoID

MaybeVideo == Videos \cup {NoVideo}

\* The section with which StartStream begins; it sets no other field.
SetActive(v) == active' = v

\* What ClearSession does to ActiveVideoID.
ResetActive == active' = NoVideo

===============================================================================
