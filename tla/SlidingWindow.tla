----------------------------- MODULE SlidingWindow -----------------------------
(***************************************************************************)
(* What a chunk ring promises to the handlers that read it: a stream of     *)
(* chunks with consecutive indices of which the last Capacity are kept.  A  *)
(* reader that asks for an index gets that chunk while it is kept, "evicted"*)
(* when it is older than all that are kept, and "done" when the stream has  *)
(* ended before it.                                                        *)
(***************************************************************************)
EXTENDS Integers

CONSTANTS Capacity, Consumers, Indices

VARIABLES
  kept,    \* the indices of the chunks that are kept
  closed,  \* the stream has ended
  reply    \* [Consumers -> what the consumer was told last]

windowVars == <<kept, closed, reply>>

NoReply  == [kind |-> "none", index |-> 0]
Chunk(i) == [kind |-> "chunk", index |-> i]
Evicted  == [kind |-> "evicted", index |-> 0]
AtEnd    == [kind |-> "done", index |-> 0]
Left     == [kind |-> "cancelled", index |-> 0]   \* the reader's request is cancelled

WindowInit ==
  /\ kept = {}
  /\ closed = FALSE
  /\ reply = [c \in Consumers |-> NoReply]

\* The next chunk: any index for the first, one more than the newest after it.
Produce(i) ==
  /\ ~closed
  /\ kept = {} \/ (i - 1 \in kept /\ i \notin kept)
  /\ kept' = {k \in kept \cup {i} : k > i - Capacity}
  /\ UNCHANGED <<closed, reply>>

Close ==
  /\ closed' = TRUE
  /\ UNCHANGED <<kept, reply>>

Ask(c) ==
  /\ reply' = [reply EXCEPT ![c] = NoReply]
  /\ UNCHANGED <<kept, closed>>

Answer(c, i) ==
  /\ reply[c] = NoReply
  /\ \/ i \in kept /\ reply' = [reply EXCEPT ![c] = Chunk(i)]
     \/ kept # {} /\ (\A k \in kept : i < k) /\ reply' = [reply EXCEPT ![c] = Evicted]
     \/ closed /\ (\A k \in kept : i > k) /\ reply' = [reply EXCEPT ![c] = AtEnd]
     \/ reply' = [reply EXCEPT ![c] = Left]
  /\ UNCHANGED <<kept, closed>>

WindowNext ==
  \/ \E i \in Indices : Produce(i)
  \/ Close
  \/ \E c \in Consumers : Ask(c) \/ \E i \in Indices : Answer(c, i)

WindowSpec == WindowInit /\ [][WindowNext]_windowVars
===============================================================================
