--------------------------------- MODULE WsHub ---------------------------------
(***************************************************************************)
(* The WebSocket hub: src/internal/ws/server.go.                            *)
(*                                                                         *)
(* Hub.Run is one goroutine that takes a registration, a deregistration or  *)
(* a message from unbuffered channels and hands each message to the buffer  *)
(* of every registered client.  A connection has three goroutines: the HTTP *)
(* handler that registers it, readPump, which it becomes, and writePump,    *)
(* which empties the buffer into the connection.                            *)
(*                                                                         *)
(* Messages are numbered in the order in which the hub takes them.  The     *)
(* channels of the hub have no buffer, so both ends of a send are one step. *)
(* BroadcastJSON gives up when the hub is not receiving: it then changes    *)
(* nothing and is no step of this model.                                   *)
(***************************************************************************)
EXTENDS Naturals, Sequences

CONSTANTS
  Clients,      \* connections, each with a Client of its own
  Capacity,     \* the buffer of Client.send: 256
  MaxMessages   \* bound: messages the hub takes

ASSUME WsHubAssumption ==
  /\ Capacity \in Nat \ {0}
  /\ MaxMessages \in Nat

VARIABLES
  clients,  \* Hub.clients
  left,     \* clients the hub has still to offer its message; {} at the select
  taken,    \* messages the hub has taken so far, and so the number of the last
  buf,      \* [Clients -> the buffer of send]
  closes,   \* [Clients -> how often send has been closed]
  conn,     \* [Clients -> the connection]
  reader,   \* [Clients -> ServeHTTP, then readPump]
  writer,   \* [Clients -> writePump]
  hand,     \* [Clients -> messages writePump has taken and not yet flushed]
  got       \* [Clients -> the last message written to the connection]

hubVars  == <<clients, left, taken>>
pumpVars == <<reader, writer, hand, got>>
vars     == <<clients, left, taken, buf, closes, conn, reader, writer, hand, got>>

Messages == 1 .. MaxMessages

TypeOK ==
  /\ clients \subseteq Clients
  /\ left \subseteq clients
  /\ taken \in 0 .. MaxMessages
  /\ buf \in [Clients -> Seq(Messages)]
  /\ \A c \in Clients : Len(buf[c]) <= Capacity
  /\ closes \in [Clients -> Nat]
  /\ conn \in [Clients -> {"none", "up", "lost", "closed"}]
  /\ reader \in [Clients -> {"none", "join", "joined", "read", "leave", "close", "done"}]
  /\ writer \in [Clients -> {"none", "wait", "batch", "flush", "done"}]
  /\ hand \in [Clients -> Seq(Messages)]
  /\ got \in [Clients -> 0 .. MaxMessages]

Init ==
  /\ clients = {} /\ left = {} /\ taken = 0
  /\ buf = [c \in Clients |-> <<>>]
  /\ closes = [c \in Clients |-> 0]
  /\ conn = [c \in Clients |-> "none"]
  /\ reader = [c \in Clients |-> "none"]
  /\ writer = [c \in Clients |-> "none"]
  /\ hand = [c \in Clients |-> <<>>]
  /\ got = [c \in Clients |-> 0]

AtSelect == left = {}

Reader(c, from, to) ==
  /\ reader[c] = from
  /\ reader' = [reader EXCEPT ![c] = to]

\* delete(h.clients, client) and close(client.send), in either order.
Remove(c) ==
  /\ clients' = clients \ {c}
  /\ closes' = [closes EXCEPT ![c] = @ + 1]

-------------------------------------------------------------------------------
(* ServeHTTP *)

Upgrade(c) ==
  /\ Reader(c, "none", "join")
  /\ conn' = [conn EXCEPT ![c] = "up"]
  /\ UNCHANGED <<hubVars, buf, closes, writer, hand, got>>

\* got starts at the messages of before: the client is promised what comes after.
Register(c) ==
  /\ AtSelect
  /\ Reader(c, "join", "joined")
  /\ clients' = clients \cup {c}
  /\ got' = [got EXCEPT ![c] = taken]
  /\ UNCHANGED <<left, taken, buf, closes, conn, writer, hand>>

\* The hub may fill and close the buffer before the pumps run.
StartPumps(c) ==
  /\ Reader(c, "joined", "read")
  /\ writer' = [writer EXCEPT ![c] = "wait"]
  /\ UNCHANGED <<hubVars, buf, closes, conn, hand, got>>

-------------------------------------------------------------------------------
(* Hub.Run *)

Broadcast ==
  /\ AtSelect
  /\ taken < MaxMessages
  /\ taken' = taken + 1
  /\ left' = clients
  /\ UNCHANGED <<clients, buf, closes, conn, pumpVars>>

\* Mutant of Offer: the buffer takes one message too many.
OfferBeyond(c) ==
  /\ c \in left
  /\ left' = left \ {c}
  /\ \/ /\ Len(buf[c]) <= Capacity
        /\ buf' = [buf EXCEPT ![c] = Append(@, taken)]
        /\ UNCHANGED <<clients, closes>>
     \/ /\ Len(buf[c]) > Capacity
        /\ Remove(c)
        /\ UNCHANGED buf
  /\ UNCHANGED <<taken, conn, pumpVars>>

\* Mutant of Offer: the message that does not fit is dropped, the client kept.
OfferOrSkip(c) ==
  /\ c \in left
  /\ left' = left \ {c}
  /\ buf' = IF Len(buf[c]) < Capacity THEN [buf EXCEPT ![c] = Append(@, taken)] ELSE buf
  /\ UNCHANGED <<clients, taken, closes, conn, pumpVars>>

\* Mutant of Offer: the hub waits for room in the buffer.
OfferAndWait(c) ==
  /\ c \in left
  /\ left' = left \ {c}
  /\ Len(buf[c]) < Capacity
  /\ buf' = [buf EXCEPT ![c] = Append(@, taken)]
  /\ UNCHANGED <<clients, taken, closes, conn, pumpVars>>

\* A client whose buffer is full is dropped with its connection.
Offer(c) ==
  /\ c \in left
  /\ left' = left \ {c}
  /\ \/ /\ Len(buf[c]) < Capacity
        /\ buf' = [buf EXCEPT ![c] = Append(@, taken)]
        /\ UNCHANGED <<clients, closes>>
     \/ /\ Len(buf[c]) = Capacity
        /\ Remove(c)
        /\ UNCHANGED buf
  /\ UNCHANGED <<taken, conn, pumpVars>>

\* Mutant of Unregister: the channel is closed without a look at the map.
UnregisterAnyway(c) ==
  /\ AtSelect
  /\ Reader(c, "leave", "close")
  /\ Remove(c)
  /\ UNCHANGED <<left, taken, buf, conn, writer, hand, got>>

Unregister(c) ==
  /\ AtSelect
  /\ Reader(c, "leave", "close")
  /\ IF c \in clients THEN Remove(c) ELSE UNCHANGED <<clients, closes>>
  /\ UNCHANGED <<left, taken, buf, conn, writer, hand, got>>

-------------------------------------------------------------------------------
(* The connection and readPump *)

\* The peer leaves, breaks the protocol, or does not answer pings for pongWait.
Lose(c) ==
  /\ conn[c] = "up"
  /\ conn' = [conn EXCEPT ![c] = "lost"]
  /\ UNCHANGED <<hubVars, buf, closes, pumpVars>>

ReadFails(c) ==
  /\ conn[c] \in {"lost", "closed"}
  /\ Reader(c, "read", "leave")
  /\ UNCHANGED <<hubVars, buf, closes, conn, writer, hand, got>>

CloseConn(c) ==
  /\ Reader(c, "close", "done")
  /\ conn' = [conn EXCEPT ![c] = "closed"]
  /\ UNCHANGED <<hubVars, buf, closes, writer, hand, got>>

-------------------------------------------------------------------------------
(* writePump *)

TakeFirst(c) ==
  /\ writer[c] = "wait"
  /\ buf[c] # <<>>
  /\ hand' = [hand EXCEPT ![c] = <<Head(buf[c])>>]
  /\ buf' = [buf EXCEPT ![c] = Tail(@)]
  /\ writer' = [writer EXCEPT ![c] = "batch"]
  /\ UNCHANGED <<hubVars, closes, conn, reader, got>>

\* n := len(c.send) and n receives.  Nobody else receives and the hub appends
\* behind them, so they are one step.
TakeRest(c) ==
  /\ writer[c] = "batch"
  /\ conn[c] # "closed"
  /\ hand' = [hand EXCEPT ![c] = @ \o buf[c]]
  /\ buf' = [buf EXCEPT ![c] = <<>>]
  /\ writer' = [writer EXCEPT ![c] = "flush"]
  /\ UNCHANGED <<hubVars, closes, conn, reader, got>>

Flush(c) ==
  /\ writer[c] = "flush"
  /\ conn[c] # "closed"
  /\ got' = [got EXCEPT ![c] = hand[c][Len(hand[c])]]
  /\ hand' = [hand EXCEPT ![c] = <<>>]
  /\ writer' = [writer EXCEPT ![c] = "wait"]
  /\ UNCHANGED <<hubVars, buf, closes, conn, reader>>

\* writePump returns: what it holds is lost, and the connection is closed.
EndWriter(c) ==
  /\ writer' = [writer EXCEPT ![c] = "done"]
  /\ hand' = [hand EXCEPT ![c] = <<>>]
  /\ conn' = [conn EXCEPT ![c] = "closed"]
  /\ UNCHANGED <<hubVars, buf, closes, reader, got>>

\* send is closed and empty.
SayGoodbye(c) ==
  /\ writer[c] = "wait"
  /\ buf[c] = <<>> /\ closes[c] > 0
  /\ EndWriter(c)

\* NextWriter fails on a closed connection, the flush also after writeWait.
WriteFails(c) ==
  /\ \/ writer[c] = "batch" /\ conn[c] = "closed"
     \/ writer[c] = "flush"
  /\ EndWriter(c)

PingFails(c) ==
  /\ writer[c] = "wait"
  /\ EndWriter(c)

-------------------------------------------------------------------------------
ServeHTTP(c) == Upgrade(c) \/ Register(c) \/ StartPumps(c)
ReadPump(c)  == ReadFails(c) \/ Unregister(c) \/ CloseConn(c)
WritePump(c) == TakeFirst(c) \/ TakeRest(c) \/ Flush(c) \/ SayGoodbye(c) \/ WriteFails(c)

Next ==
  \/ Broadcast
  \/ \E c \in Clients :
       Offer(c) \/ ServeHTTP(c) \/ Lose(c) \/ ReadPump(c) \/ WritePump(c) \/ PingFails(c)

Spec == Init /\ [][Next]_vars

\* Goroutines run.  Go's select takes one of the channels that are ready at
\* random, so broadcasts do not keep it from a deregistration for ever: SF.
\* A ping is sure to fail on a closed connection only.
Fairness ==
  \A c \in Clients :
    /\ WF_vars(Offer(c))
    /\ WF_vars(StartPumps(c)) /\ SF_vars(Register(c))
    /\ WF_vars(ReadFails(c)) /\ SF_vars(Unregister(c)) /\ WF_vars(CloseConn(c))
    /\ WF_vars(WritePump(c))
    /\ WF_vars(conn[c] = "closed" /\ PingFails(c))

LiveSpec == Spec /\ Fairness

-------------------------------------------------------------------------------
(* Properties *)

\* A send on a closed channel, or a second close of one, panics and takes the
\* server down.  The hub closes the buffer of a client that is full, and
\* readPump deregisters the same client later: the channel of a registered
\* client is open, and no channel is closed twice.
ClosedOnce ==
  \A c \in Clients : closes[c] <= 1 /\ (c \in clients => closes[c] = 0)

\* What writePump holds and what is in the buffer.
Pipe(c) == hand[c] \o buf[c]

\* A client gets the messages in order and without a gap while its connection
\* lasts; what a registered client has not got is all on its way.  (One that
\* cannot keep up is disconnected, it never misses a message unawares.)
NoGaps ==
  \A c \in Clients : writer[c] # "done" =>
    /\ \A k \in 1 .. Len(Pipe(c)) : Pipe(c)[k] = got[c] + k
    /\ c \in clients =>
         got[c] + Len(Pipe(c)) = IF c \in left THEN taken - 1 ELSE taken

\* A client that the hub has dropped, or whose connection is gone, leaves: it is
\* no longer registered and neither of its pumps stays behind.
ClientLeaves ==
  \A c \in Clients :
    closes[c] > 0 \/ conn[c] \in {"lost", "closed"} ~>
      c \notin clients /\ reader[c] = "done" /\ writer[c] = "done"

-------------------------------------------------------------------------------
(* Inductive strengthening *)

\* A client that is not registered yet has nothing; writePump holds messages
\* between taking and flushing them only.
PumpInv ==
  \A c \in Clients :
    /\ reader[c] \in {"none", "join"} =>
         /\ c \notin clients
         /\ closes[c] = 0
         /\ buf[c] = <<>>
    /\ reader[c] \in {"none", "join", "joined"} => writer[c] = "none"
    /\ hand[c] = <<>> <=> writer[c] \notin {"batch", "flush"}

HubInv == ClosedOnce /\ PumpInv /\ NoGaps /\ (left # {} => taken > 0)
===============================================================================
