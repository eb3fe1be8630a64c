-------------------------------- MODULE Jukebox --------------------------------
(***************************************************************************)
(* What the play queue promises to a client that sends one command after    *)
(* the other: a jukebox.  Tickets wait in the order of their numbers, each   *)
(* with the track it was bought for.  One is played at a time; the next is   *)
(* the first that waits, unless a client has just asked for a track to be    *)
(* played now.                                                             *)
(***************************************************************************)
EXTENDS Integers

CONSTANTS
  Numbers,  \* integers
  Tracks

VARIABLES
  waiting,  \* tickets: pairs of a number and a track
  playing,  \* the ticket that is played, or none
  now       \* the ticket bought last is to be played next

vars == <<waiting, playing, now>>

Tickets == Numbers \X Tracks

Init ==
  /\ waiting = {}
  /\ playing = {}
  /\ now = FALSE

IsLast(t)  == \A u \in waiting : u[1] < t[1]
IsFirst(t) == \A u \in waiting : t[1] < u[1]

\* A ticket for the end of the queue, or for its front.
Buy(t) ==
  /\ ~now
  /\ IsLast(t) \/ IsFirst(t)
  /\ waiting' = waiting \cup {t}
  /\ UNCHANGED <<playing, now>>

\* A ticket that is to be played at once; what was playing has been stopped.
BuyNow(t) ==
  /\ ~now
  /\ playing = {}
  /\ IsLast(t)
  /\ waiting' = waiting \cup {t}
  /\ now' = TRUE
  /\ UNCHANGED playing

Begin(t) ==
  /\ playing = {}
  /\ t \in waiting
  /\ \A u \in waiting : IF now THEN u[1] <= t[1] ELSE t[1] <= u[1]
  /\ waiting' = waiting \ {t}
  /\ playing' = {t}
  /\ now' = FALSE

\* The track has ended, or is stopped.
End ==
  /\ ~now
  /\ playing' = {}
  /\ UNCHANGED <<waiting, now>>

\* The queue is emptied; the track that is played plays on.
Withdraw ==
  /\ ~now
  /\ waiting' = {}
  /\ UNCHANGED <<playing, now>>

Next ==
  \/ \E t \in Tickets : Buy(t) \/ BuyNow(t) \/ Begin(t)
  \/ End
  \/ Withdraw

Spec == Init /\ [][Next]_vars
===============================================================================
