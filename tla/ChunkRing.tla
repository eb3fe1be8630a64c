------------------------------- MODULE ChunkRing -------------------------------
(***************************************************************************)
(* The ring of PCM chunks (src/internal/streamer/chunk_ring.go), filled by  *)
(* fillRing and runProducer (src/internal/streamer/streamer.go) and read by *)
(* the handlers of /stream/chunk.                                          *)
(*                                                                         *)
(* Add, Done and one round of the loop of Get run under ChunkRing.mu, so    *)
(* each is one step.  cond.Wait releases the mutex and sleeps until the     *)
(* next Broadcast; a reader that wakes up starts another round.  A chunk is *)
(* its index and its IsLast; the audio decides nothing.  An index is a      *)
(* uint32: at half a second a chunk it does not wrap, and MaxIndex bounds   *)
(* it here.                                                                *)
(***************************************************************************)
EXTENDS Integers

CONSTANTS
  Capacity,    \* WindowSize: the slots of the ring
  MaxIndex,    \* bound: the highest index the producer reaches
  FromChunks,  \* the chunks a stream may start at
  Consumers    \* the requests that may be in Get at the same time

Indices == 0 .. MaxIndex

ASSUME ChunkRingAssumption ==
  /\ Capacity \in Nat \ {0}
  /\ MaxIndex \in Nat
  /\ FromChunks \subseteq Indices

VARIABLES
  slots,      \* [0 .. Capacity - 1 -> the chunk stored there]
  nextWrite,  \* the index of the next chunk
  filled,     \* how many slots are in use
  done,       \* the producer has finished
  fromChunk,  \* the chunk the stream starts at
  producer,   \* fillRing, then "eof" or "broken" before Done, then "gone"
  index,      \* fillRing's index
  stopped,    \* stopProducer has cancelled the producer's context
  at,         \* [Consumers -> where the reader is]
  want,       \* [Consumers -> the index the reader asks for]
  reply,      \* [Consumers -> what Get returned last]
  left        \* the readers whose request is cancelled

ring      == <<slots, nextWrite, filled, done>>
producing == <<fromChunk, producer, index, stopped>>
reading   == <<at, want, reply, left>>
vars      == <<slots, nextWrite, filled, done, fromChunk, producer, index, stopped,
               at, want, reply, left>>

\* The reader sees the window of the chunks that are in the ring.
Window == INSTANCE SlidingWindow WITH
            kept <- nextWrite - filled .. nextWrite - 1, closed <- done

NoChunk == [index |-> -1, last |-> FALSE]
Chunks  == [index : Indices, last : BOOLEAN] \cup {NoChunk}

TypeOK ==
  /\ slots \in [0 .. Capacity - 1 -> Chunks]
  /\ nextWrite \in 0 .. MaxIndex + 1
  /\ filled \in 0 .. Capacity
  /\ done \in BOOLEAN
  /\ fromChunk \in FromChunks
  /\ producer \in {"check", "read", "eof", "broken", "gone"}
  /\ index \in 0 .. MaxIndex + 1
  /\ stopped \in BOOLEAN
  /\ at \in [Consumers -> {"out", "round", "wait"}]
  /\ want \in [Consumers -> Indices]
  /\ left \subseteq Consumers

\* startProducer: a fresh ring and a producer.
Init ==
  /\ slots = [s \in 0 .. Capacity - 1 |-> NoChunk]
  /\ nextWrite = 0
  /\ filled = 0
  /\ done = FALSE
  /\ fromChunk \in FromChunks
  /\ producer = "check"
  /\ index = fromChunk
  /\ stopped = FALSE
  /\ at = [c \in Consumers |-> "out"]
  /\ want = [c \in Consumers |-> 0]
  /\ reply = [c \in Consumers |-> Window!NoReply]
  /\ left = {}

-------------------------------------------------------------------------------
(* The producer *)

Broadcast == at' = [c \in Consumers |-> IF at[c] = "wait" THEN "round" ELSE at[c]]

\* Mutant of Add: the slot is counted from the first chunk in the ring.
AddAtFilled(i, last) ==
  /\ slots' = [slots EXCEPT ![filled % Capacity] = [index |-> i, last |-> last]]
  /\ nextWrite' = i + 1
  /\ filled' = IF filled < Capacity THEN filled + 1 ELSE filled
  /\ Broadcast
  /\ UNCHANGED done

Add(i, last) ==
  /\ slots' = [slots EXCEPT ![i % Capacity] = [index |-> i, last |-> last]]
  /\ nextWrite' = i + 1
  /\ filled' = IF filled < Capacity THEN filled + 1 ELSE filled
  /\ Broadcast
  /\ UNCHANGED done

CheckContext ==
  /\ producer = "check"
  /\ producer' = IF stopped THEN "broken" ELSE "read"
  /\ UNCHANGED <<ring, fromChunk, index, stopped, reading>>

\* io.ReadFull returns a whole chunk, a short one at the end of the stream,
\* nothing at the end of the stream, or another error with or without a short
\* chunk.  StopProducer kills ffmpeg, which may end the stream as well.
ReadFull ==
  /\ producer = "read"
  /\ \/ /\ index <= MaxIndex
        /\ \/ Add(index, FALSE) /\ producer' = "check"
           \/ Add(index, TRUE)  /\ producer' = "eof"
           \/ Add(index, FALSE) /\ producer' = "broken"
        /\ index' = index + 1
     \/ /\ producer' \in {"eof", "broken"}
        /\ UNCHANGED <<ring, index, at>>
  /\ UNCHANGED <<fromChunk, stopped, want, reply, left>>

FillRing == CheckContext \/ ReadFull

\* Mutant of Done: nobody is woken.
DoneQuietly ==
  /\ producer \in {"eof", "broken"}
  /\ producer' = "gone"
  /\ done' = TRUE
  /\ UNCHANGED <<slots, nextWrite, filled, fromChunk, index, stopped, reading>>

\* runProducer's deferred ring.Done().
Done ==
  /\ producer \in {"eof", "broken"}
  /\ producer' = "gone"
  /\ done' = TRUE
  /\ Broadcast
  /\ UNCHANGED <<slots, nextWrite, filled, fromChunk, index, stopped, want, reply, left>>

StopProducer ==
  /\ ~stopped
  /\ stopped' = TRUE
  /\ UNCHANGED <<ring, fromChunk, producer, index, reading>>

-------------------------------------------------------------------------------
(* The readers *)

Get(c, i) ==
  /\ at[c] = "out"
  /\ at' = [at EXCEPT ![c] = "round"]
  /\ want' = [want EXCEPT ![c] = i]
  /\ reply' = [reply EXCEPT ![c] = Window!NoReply]
  /\ left' = left \ {c}
  /\ UNCHANGED <<ring, producing>>

Return(c, r) ==
  /\ at' = [at EXCEPT ![c] = "out"]
  /\ reply' = [reply EXCEPT ![c] = r]

windowStart == nextWrite - filled

\* Mutant of GetRound: the oldest index but one counts as kept.
GetRoundTooOld(c) ==
  /\ at[c] = "round"
  /\ IF c \in left THEN Return(c, Window!Left)
     ELSE IF filled > 0 /\ want[c] + 1 < windowStart THEN Return(c, Window!Evicted)
     ELSE IF filled > 0 /\ want[c] < nextWrite
          THEN Return(c, Window!Chunk(slots[want[c] % Capacity].index))
     ELSE IF done /\ want[c] >= nextWrite THEN Return(c, Window!AtEnd)
     ELSE at' = [at EXCEPT ![c] = "wait"] /\ UNCHANGED reply
  /\ UNCHANGED <<ring, producing, want, left>>

GetRound(c) ==
  /\ at[c] = "round"
  /\ IF c \in left THEN Return(c, Window!Left)
     ELSE IF filled > 0 /\ want[c] < windowStart THEN Return(c, Window!Evicted)
     ELSE IF filled > 0 /\ want[c] < nextWrite
          THEN Return(c, Window!Chunk(slots[want[c] % Capacity].index))
     ELSE IF done /\ want[c] >= nextWrite THEN Return(c, Window!AtEnd)
     ELSE at' = [at EXCEPT ![c] = "wait"] /\ UNCHANGED reply
  /\ UNCHANGED <<ring, producing, want, left>>

\* The client closes the connection.
Cancel(c) ==
  /\ at[c] # "out"
  /\ left' = left \cup {c}
  /\ UNCHANGED <<ring, producing, at, want, reply>>

-------------------------------------------------------------------------------
RunProducer == FillRing \/ Done

Next ==
  \/ RunProducer
  \/ StopProducer
  \/ \E c \in Consumers : GetRound(c) \/ Cancel(c) \/ \E i \in Indices : Get(c, i)

Spec == Init /\ [][Next]_vars

\* The readers are scheduled, and the pipe the producer reads goes on or ends.
LiveSpec == Spec /\ (\A c \in Consumers : WF_vars(GetRound(c))) /\ WF_vars(RunProducer)

-------------------------------------------------------------------------------
(* Properties *)

\* The window that Get computes from nextWrite and filled is what the slots
\* hold, wherever the stream started: each index of it is in its slot.
WindowIsStored ==
  \A i \in nextWrite - filled .. nextWrite - 1 : slots[i % Capacity].index = i

\* No lost wakeup: a reader sleeps only while its chunk is still to come.
SleepersHaveToWait ==
  \A c \in Consumers : at[c] = "wait" => ~done /\ (filled = 0 \/ want[c] >= nextWrite)

\* The ring implements the sliding window: every reply is the right one at the
\* moment it is given, evictions included.
ImplementsWindow == Window!WindowSpec

\* While the producer's pipe goes on or ends, every reader gets an answer.
GetReturns == \A c \in Consumers : at[c] # "out" ~> at[c] = "out"

\* What makes the window right: the producer adds consecutive indices, stops
\* before Done, and a reader in Get has not been told anything yet.
RingInv ==
  /\ filled > 0 => nextWrite = index
  /\ filled = 0 => nextWrite = 0
  /\ filled <= nextWrite
  /\ done <=> producer = "gone"
  /\ WindowIsStored
  /\ reply = [c \in Consumers |-> reply[c]]
  /\ \A c \in Consumers : at[c] # "out" => reply[c] = Window!NoReply
===============================================================================
