------------------------------ MODULE WsHubProofs ------------------------------
(***************************************************************************)
(* Theorems about the WebSocket hub, for any number of connections, any     *)
(* capacity of their buffers and any number of messages.                    *)
(***************************************************************************)
EXTENDS WsHub, SequenceTheorems, TLAPS

IInv == TypeOK /\ HubInv

\* What writePump holds and the buffer are one row of messages: moving a message
\* from the buffer to the empty hand changes nothing of the row.
LEMMA MoveKeepsPipe ==
  ASSUME NEW b \in Seq(Messages), b # <<>>
  PROVE  /\ <<Head(b)>> \in Seq(Messages) /\ Tail(b) \in Seq(Messages)
         /\ Len(Tail(b)) = Len(b) - 1
         /\ Len(<<Head(b)>> \o Tail(b)) = Len(b)
         /\ \A k \in 1 .. Len(b) : (<<Head(b)>> \o Tail(b))[k] = b[k]
  OBVIOUS

\* s continues the messages up to g, in order and without a gap.
Continues(s, g) == \A k \in 1 .. Len(s) : s[k] = g + k

\* A message put into the buffer continues the row.
LEMMA AppendContinues ==
  \A h, b \in Seq(Messages), m \in Messages, g \in Nat :
    Continues(h \o b, g) /\ g + Len(h \o b) = m - 1 =>
      Continues(h \o Append(b, m), g) /\ g + Len(h \o Append(b, m)) = m
<1> SUFFICES ASSUME NEW h \in Seq(Messages), NEW b \in Seq(Messages), NEW m \in Messages,
                    NEW g \in Nat
             PROVE  Continues(h \o b, g) /\ g + Len(h \o b) = m - 1 =>
                      Continues(h \o Append(b, m), g) /\ g + Len(h \o Append(b, m)) = m
  OBVIOUS
<1> DEFINE p == h \o b
           q == h \o Append(b, m)
<1>1. /\ m \in Nat /\ p \in Seq(Messages) /\ Len(p) \in Nat /\ Len(q) = Len(p) + 1
      /\ \A k \in 1 .. Len(p) : q[k] = p[k]
      /\ q[Len(p) + 1] = m
  BY DEF Messages
<1> HIDE DEF p, q
<1>2. ASSUME Continues(p, g), g + Len(p) = m - 1 PROVE Continues(q, g) /\ g + Len(q) = m
  <2>1. ASSUME NEW k \in 1 .. Len(q) PROVE q[k] = g + k
    <3>1. CASE k = Len(p) + 1
      BY <1>1, <1>2, <3>1
    <3>2. CASE k \in 1 .. Len(p)
      BY <1>1, <1>2, <3>2 DEF Continues
    <3> QED
      BY <1>1, <3>1, <3>2
  <2> QED
    BY <1>1, <1>2, <2>1 DEF Continues
<1> QED
  BY <1>2 DEF p, q

\* Nor does moving all of the buffer.
LEMMA EmptyBufferKeepsPipe ==
  ASSUME NEW h \in Seq(Messages), NEW b \in Seq(Messages)
  PROVE  /\ h \o b \in Seq(Messages)
         /\ (h \o b) \o <<>> = h \o b
         /\ <<>> \o b = b
         /\ h # <<>> => h \o b # <<>>
  OBVIOUS

\* After a flush the row continues the last message that was in the hand.
LEMMA FlushContinues ==
  ASSUME NEW h \in Seq(Messages), NEW b \in Seq(Messages), h # <<>>, NEW g \in Nat,
         Continues(h \o b, g)
  PROVE  /\ Continues(b, h[Len(h)])
         /\ h[Len(h)] + Len(b) = g + Len(h \o b)
<1>1. /\ Len(h) \in Nat \ {0} /\ Len(b) \in Nat
      /\ Len(h \o b) = Len(h) + Len(b)
      /\ (h \o b)[Len(h)] = h[Len(h)]
      /\ \A k \in 1 .. Len(b) : b[k] = (h \o b)[Len(h) + k]
  OBVIOUS
<1>2. h[Len(h)] = g + Len(h)
  BY <1>1 DEF Continues
<1>3. ASSUME NEW k \in 1 .. Len(b)
      PROVE  b[k] = h[Len(h)] + k
  <2>1. Len(h) + k \in 1 .. Len(h \o b)
    BY <1>1
  <2>2. (h \o b)[Len(h) + k] = g + (Len(h) + k)
    BY <2>1 DEF Continues
  <2> QED
    BY <1>1, <1>2, <2>2
<1> QED
  BY <1>1, <1>2, <1>3 DEF Continues

\* The last message of a hand that is not empty is a message.
LEMMA LastOfHand ==
  ASSUME NEW h \in Seq(Messages), h # <<>>
  PROVE  h[Len(h)] \in Messages
  OBVIOUS

\* The conjuncts of the invariant that speak of one client.
Own(c) ==
  /\ closes[c] <= 1 /\ (c \in clients => closes[c] = 0)
  /\ reader[c] \in {"none", "join"} => c \notin clients /\ closes[c] = 0 /\ buf[c] = <<>>
  /\ reader[c] \in {"none", "join", "joined"} => writer[c] = "none"
  /\ hand[c] = <<>> <=> writer[c] \notin {"batch", "flush"}
  /\ writer[c] # "done" =>
       /\ Continues(Pipe(c), got[c])
       /\ c \in clients =>
            got[c] + Len(Pipe(c)) = IF c \in left THEN taken - 1 ELSE taken

\* The invariant is one of each client by itself.
LEMMA OwnIsHubInv == HubInv <=> (\A c \in Clients : Own(c)) /\ (left # {} => taken > 0)
  BY DEF HubInv, ClosedOnce, PumpInv, NoGaps, Own, Continues

\* The invariant holds at the start.
LEMMA InitInv == Init => IInv
<1> SUFFICES ASSUME Init PROVE IInv
  OBVIOUS
<1> USE WsHubAssumption DEF Init
<1>1. TypeOK
  BY DEF TypeOK, Messages
<1>2. ASSUME NEW c \in Clients PROVE Own(c)
  BY DEF Own, Pipe, Continues
<1> QED
  BY <1>1, <1>2, OwnIsHubInv DEF IInv

\* The types are preserved by every step.
LEMMA TypeStep ==
  ASSUME IInv, [Next]_vars
  PROVE  TypeOK'
<1> USE WsHubAssumption
<1>0. TypeOK /\ (\A c \in Clients : Own(c)) /\ (left # {} => taken > 0)
  BY OwnIsHubInv DEF IInv
<1>1. CASE UNCHANGED vars
  BY <1>0, <1>1 DEF TypeOK, vars
<1>2. CASE Broadcast
  BY <1>0, <1>2 DEF TypeOK, Broadcast, AtSelect, pumpVars
<1>3. ASSUME NEW c \in Clients, Offer(c) PROVE TypeOK'
  <2>1. taken \in Messages
    BY <1>0, <1>3 DEF TypeOK, Offer, Messages
  <2>2. /\ Len(buf[c]) \in Nat /\ Len(Append(buf[c], taken)) = Len(buf[c]) + 1
        /\ Append(buf[c], taken) \in Seq(Messages)
    BY <1>0, <2>1, AppendProperties, LenProperties DEF TypeOK
  <2>3. CASE Len(buf[c]) < Capacity /\ buf' = [buf EXCEPT ![c] = Append(@, taken)]
             /\ UNCHANGED <<clients, closes>>
    <3>1. /\ buf' \in [Clients -> Seq(Messages)]
          /\ \A d \in Clients : Len(buf'[d]) <= Capacity
      BY <1>0, <2>2, <2>3 DEF TypeOK
    <3> QED
      BY <1>0, <1>3, <2>3, <3>1 DEF TypeOK, Offer, pumpVars
  <2>4. CASE Remove(c) /\ UNCHANGED buf
    <3>1. clients' \subseteq Clients /\ left' \subseteq clients' /\ closes' \in [Clients -> Nat]
      BY <1>0, <1>3, <2>4 DEF TypeOK, Offer, Remove
    <3> QED
      BY <1>0, <1>3, <2>4, <3>1 DEF TypeOK, Offer, pumpVars
  <2> QED
    BY <1>3, <2>3, <2>4 DEF Offer
<1>4. ASSUME NEW c \in Clients, ServeHTTP(c) \/ Lose(c) \/ ReadPump(c) PROVE TypeOK'
  <2>1. CASE Upgrade(c) \/ StartPumps(c)
    BY <1>0, <2>1 DEF TypeOK, Upgrade, StartPumps, Reader, hubVars
  <2>2. CASE Register(c)
    BY <1>0, <2>2 DEF TypeOK, Register, Reader
  <2>3. CASE Lose(c) \/ ReadFails(c) \/ CloseConn(c)
    BY <1>0, <2>3 DEF TypeOK, Lose, ReadFails, CloseConn, Reader, hubVars, pumpVars
  <2>4. CASE Unregister(c)
    <3>1. clients' \subseteq Clients /\ closes' \in [Clients -> Nat]
      <4>1. CASE c \in clients
        <5>1. Remove(c)
          BY <2>4, <4>1 DEF Unregister
        <5> QED
          BY <1>0, <5>1 DEF TypeOK, Remove
      <4>2. CASE c \notin clients
        BY <1>0, <2>4, <4>2 DEF TypeOK, Unregister
      <4> QED
        BY <4>1, <4>2
    <3>2. left' = {}
      BY <2>4 DEF Unregister, AtSelect
    <3> QED
      BY <1>0, <2>4, <3>1, <3>2 DEF TypeOK, Unregister, Reader
  <2> QED
    BY <1>4, <2>1, <2>2, <2>3, <2>4 DEF ServeHTTP, ReadPump
<1>5. ASSUME NEW c \in Clients, TakeFirst(c) PROVE TypeOK'
  <2>1. buf[c] \in Seq(Messages) /\ buf[c] # <<>>
    BY <1>0, <1>5 DEF TypeOK, TakeFirst
  <2>2. /\ <<Head(buf[c])>> \in Seq(Messages) /\ Tail(buf[c]) \in Seq(Messages)
        /\ Len(Tail(buf[c])) = Len(buf[c]) - 1
    BY <2>1, MoveKeepsPipe
  <2> QED
    BY <1>0, <1>5, <2>1, <2>2 DEF TypeOK, TakeFirst, hubVars
<1>6. ASSUME NEW c \in Clients, TakeRest(c) PROVE TypeOK'
  <2>1. hand[c] \o buf[c] \in Seq(Messages)
    BY <1>0, EmptyBufferKeepsPipe DEF TypeOK
  <2> QED
    BY <1>0, <1>6, <2>1 DEF TypeOK, TakeRest, hubVars
<1>7. ASSUME NEW c \in Clients, Flush(c) PROVE TypeOK'
  <2>1. hand[c] # <<>> /\ hand[c] \in Seq(Messages)
    BY <1>0, <1>7 DEF TypeOK, Flush, Own
  <2>2. hand[c][Len(hand[c])] \in Messages
    BY <2>1, LastOfHand
  <2> QED
    BY <1>0, <1>7, <2>2 DEF TypeOK, Flush, hubVars, Messages
<1>8. ASSUME NEW c \in Clients, EndWriter(c) PROVE TypeOK'
  BY <1>0, <1>8 DEF TypeOK, EndWriter, hubVars
<1> QED
  BY <1>1, <1>2, <1>3, <1>4, <1>5, <1>6, <1>7, <1>8
     DEF Next, WritePump, SayGoodbye, WriteFails, PingFails

\* A step of the hub or of another client that touches nothing of client c, but
\* for a message taken by the hub, leaves its conjuncts true.
LEMMA OthersKeepOwn ==
  ASSUME TypeOK, NEW c \in Clients, Own(c),
         clients' \cap {c} = clients \cap {c}, left' \cap {c} = left \cap {c}, taken' = taken,
         buf'[c] = buf[c], closes'[c] = closes[c], reader'[c] = reader[c],
         writer'[c] = writer[c], hand'[c] = hand[c], got'[c] = got[c]
  PROVE  Own(c)'
<1>1. (c \in clients' <=> c \in clients) /\ (c \in left' <=> c \in left)
  OBVIOUS
<1>2. Pipe(c)' = Pipe(c)
  BY DEF Pipe
<1> QED
  BY <1>1, <1>2 DEF Own

\* A broadcast that reaches the hub keeps it,
LEMMA OfferKeepsOwn ==
  ASSUME TypeOK, left # {} => taken > 0, NEW c \in Clients, Own(c), Offer(c)
  PROVE  Own(c)'
<1>1. /\ c \in clients /\ c \in left /\ c \notin left' /\ taken' = taken
      /\ reader' = reader /\ writer' = writer /\ hand' = hand /\ got' = got
  BY DEF TypeOK, Offer, pumpVars
<1>2. /\ taken \in Messages /\ hand[c] \in Seq(Messages) /\ buf[c] \in Seq(Messages)
      /\ got[c] \in Nat /\ closes[c] \in Nat
  BY <1>1, WsHubAssumption DEF TypeOK, Messages
<1>3. CASE buf' = [buf EXCEPT ![c] = Append(@, taken)] /\ UNCHANGED <<clients, closes>>
  <2>1. buf'[c] = Append(buf[c], taken)
    BY <1>3 DEF TypeOK
  <2>2. Pipe(c) = hand[c] \o buf[c] /\ Pipe(c)' = hand[c] \o Append(buf[c], taken)
    BY <1>1, <2>1 DEF Pipe
  <2>3. ASSUME writer[c] # "done"
        PROVE  Continues(Pipe(c)', got[c]) /\ got[c] + Len(Pipe(c)') = taken
    <3>1. Continues(Pipe(c), got[c]) /\ got[c] + Len(Pipe(c)) = taken - 1
      BY <1>1, <2>3 DEF Own
    <3>2. Continues(hand[c] \o buf[c], got[c]) /\ got[c] + Len(hand[c] \o buf[c]) = taken - 1 =>
            Continues(hand[c] \o Append(buf[c], taken), got[c])
              /\ got[c] + Len(hand[c] \o Append(buf[c], taken)) = taken
      <4>1. \A m \in Messages, g \in Nat :
              Continues(hand[c] \o buf[c], g) /\ g + Len(hand[c] \o buf[c]) = m - 1 =>
                Continues(hand[c] \o Append(buf[c], m), g)
                  /\ g + Len(hand[c] \o Append(buf[c], m)) = m
        BY <1>2, AppendContinues, Zenon
      <4> QED
        BY <1>2, <4>1, Zenon
    <3> QED
      BY <2>2, <3>1, <3>2, Zenon
  <2> QED
    BY <1>1, <1>3, <2>3 DEF Own
<1>4. CASE Remove(c) /\ UNCHANGED buf
  <2>1. c \notin clients' /\ closes'[c] = 1
    BY <1>1, <1>2, <1>4 DEF Remove, Own, TypeOK
  <2>2. Pipe(c)' = Pipe(c)
    BY <1>1, <1>4 DEF Pipe
  <2> QED
    BY <1>1, <1>4, <2>1, <2>2 DEF Own
<1> QED
  BY <1>3, <1>4 DEF Offer

\* a client that comes or goes does,
LEMMA ConnectionKeepsOwn ==
  ASSUME TypeOK, NEW c \in Clients, Own(c), ServeHTTP(c) \/ Lose(c) \/ ReadPump(c)
  PROVE  Own(c)'
<1>1. CASE Upgrade(c) \/ StartPumps(c)
  <2>1. Pipe(c)' = Pipe(c)
    BY <1>1 DEF Upgrade, StartPumps, Pipe
  <2>2. /\ clients' = clients /\ left' = left /\ taken' = taken /\ buf' = buf
        /\ closes' = closes /\ hand' = hand /\ got' = got
    BY <1>1 DEF Upgrade, StartPumps, hubVars
  <2> QED
    BY <1>1, <2>1, <2>2 DEF TypeOK, Own, Upgrade, StartPumps, Reader
<1>2. CASE Register(c)
  <2>1. c \notin left' /\ buf[c] = <<>> /\ hand[c] = <<>> /\ closes[c] = 0 /\ writer[c] = "none"
    BY <1>2 DEF Register, Reader, AtSelect, Own
  <2>2. /\ Pipe(c)' = <<>> /\ got'[c] = taken /\ reader'[c] = "joined" /\ taken' = taken
        /\ writer'[c] = "none" /\ hand'[c] = <<>> /\ buf'[c] = <<>> /\ closes'[c] = 0
    BY <1>2, <2>1 DEF TypeOK, Register, Reader, Pipe
  <2> QED
    <3>1. Continues(<<>>, taken) /\ Len(<<>>) = 0 /\ taken \in Nat
      BY WsHubAssumption DEF TypeOK, Continues
    <3>2. c \notin left'
      BY <1>2, <2>1 DEF Register
    <3> QED
      BY <2>2, <3>1, <3>2 DEF Own
<1>3. CASE Lose(c) \/ ReadFails(c) \/ CloseConn(c)
  <2>1. Pipe(c)' = Pipe(c)
    BY <1>3 DEF Lose, ReadFails, CloseConn, Pipe, pumpVars
  <2>2. /\ clients' = clients /\ left' = left /\ taken' = taken /\ buf' = buf
        /\ closes' = closes /\ hand' = hand /\ got' = got /\ writer' = writer
        /\ reader'[c] = reader[c] \/ reader'[c] \in {"leave", "done"}
    BY <1>3 DEF TypeOK, Lose, ReadFails, CloseConn, Reader, hubVars, pumpVars
  <2>3. reader[c] \in {"none", "join", "joined"} =>
          reader'[c] = reader[c]
    BY <1>3 DEF TypeOK, Lose, ReadFails, CloseConn, Reader, pumpVars
  <2> QED
    BY <2>1, <2>2, <2>3 DEF Own
<1>4. CASE Unregister(c)
  <2>1. Pipe(c)' = Pipe(c) /\ left' = left /\ taken' = taken
    BY <1>4 DEF Unregister, Pipe
  <2>2. reader'[c] = "close" /\ reader[c] = "leave"
    BY <1>4 DEF TypeOK, Unregister, Reader
  <2>3. c \notin clients' /\ closes'[c] <= 1
    BY <1>4 DEF TypeOK, Unregister, Remove, Own
  <2> QED
    BY <1>4, <2>1, <2>2, <2>3 DEF Own, Unregister
<1> QED
  BY <1>1, <1>2, <1>3, <1>4 DEF ServeHTTP, ReadPump

\* and a write pump does.
LEMMA WritePumpKeepsOwn ==
  ASSUME TypeOK, NEW c \in Clients, Own(c), WritePump(c) \/ PingFails(c)
  PROVE  Own(c)'
<1>0. /\ hand[c] \in Seq(Messages) /\ buf[c] \in Seq(Messages) /\ got[c] \in Nat
  BY WsHubAssumption DEF TypeOK
<1>1. CASE TakeFirst(c)
  <2>1. /\ buf[c] # <<>> /\ hand[c] = <<>> /\ writer[c] = "wait"
        /\ writer'[c] = "batch" /\ reader' = reader /\ closes' = closes
        /\ clients' = clients /\ left' = left /\ taken' = taken /\ got' = got
        /\ hand'[c] = <<Head(buf[c])>> /\ buf'[c] = Tail(buf[c])
    BY <1>1 DEF TypeOK, TakeFirst, Own, hubVars
  <2>2. /\ Pipe(c) = buf[c] /\ Len(Pipe(c)') = Len(Pipe(c))
        /\ \A k \in 1 .. Len(Pipe(c)) : Pipe(c)'[k] = Pipe(c)[k]
    BY <1>0, <2>1, MoveKeepsPipe, EmptyBufferKeepsPipe DEF Pipe
  <2>3. hand'[c] # <<>>
    BY <2>1
  <2> QED
    BY <2>1, <2>2, <2>3 DEF Own, Continues
<1>2. CASE TakeRest(c)
  <2>1. /\ hand[c] # <<>> /\ writer[c] = "batch"
        /\ writer'[c] = "flush" /\ reader' = reader /\ closes' = closes
        /\ clients' = clients /\ left' = left /\ taken' = taken /\ got' = got
        /\ hand'[c] = hand[c] \o buf[c] /\ buf'[c] = <<>>
    BY <1>2 DEF TypeOK, TakeRest, Own, hubVars
  <2>2. hand'[c] # <<>> /\ Pipe(c)' = Pipe(c)
    BY <1>0, <2>1, EmptyBufferKeepsPipe DEF Pipe
  <2> QED
    BY <2>1, <2>2 DEF Own
<1>3. CASE Flush(c)
  <2>1. /\ hand[c] # <<>> /\ writer[c] = "flush"
        /\ writer'[c] = "wait" /\ reader' = reader /\ closes' = closes
        /\ clients' = clients /\ left' = left /\ taken' = taken /\ buf' = buf
        /\ hand'[c] = <<>> /\ got'[c] = hand[c][Len(hand[c])]
    BY <1>3 DEF TypeOK, Flush, Own, hubVars
  <2>2. Continues(hand[c] \o buf[c], got[c])
        /\ (c \in clients => got[c] + Len(hand[c] \o buf[c])
                                = IF c \in left THEN taken - 1 ELSE taken)
    BY <2>1 DEF Own, Pipe
  <2>3. /\ Continues(buf[c], got'[c])
        /\ got'[c] + Len(buf[c]) = got[c] + Len(hand[c] \o buf[c])
    BY <1>0, <2>1, <2>2, FlushContinues
  <2>4. Pipe(c)' = buf[c]
    BY <1>0, <2>1, EmptyBufferKeepsPipe DEF Pipe
  <2> QED
    BY <2>1, <2>2, <2>3, <2>4 DEF Own
<1>4. CASE EndWriter(c) /\ writer[c] # "none"
  BY <1>4 DEF TypeOK, EndWriter, Own, hubVars
<1>5. SayGoodbye(c) \/ WriteFails(c) \/ PingFails(c) => EndWriter(c) /\ writer[c] # "none"
  BY DEF SayGoodbye, WriteFails, PingFails
<1> QED
  BY <1>1, <1>2, <1>3, <1>4, <1>5 DEF WritePump

\* What a step of client c leaves alone of the others.
LEMMA StepIsOwn ==
  ASSUME TypeOK, NEW c \in Clients, NEW d \in Clients, d # c,
         Offer(c) \/ ServeHTTP(c) \/ Lose(c) \/ ReadPump(c) \/ WritePump(c) \/ PingFails(c)
  PROVE  /\ clients' \cap {d} = clients \cap {d} /\ left' \cap {d} = left \cap {d}
         /\ taken' = taken
         /\ buf'[d] = buf[d] /\ closes'[d] = closes[d] /\ reader'[d] = reader[d]
         /\ writer'[d] = writer[d] /\ hand'[d] = hand[d] /\ got'[d] = got[d]
<1>1. CASE Offer(c)
  BY <1>1 DEF TypeOK, Offer, Remove, pumpVars
<1>2. CASE ServeHTTP(c)
  BY <1>2 DEF TypeOK, ServeHTTP, Upgrade, Register, StartPumps, Reader, hubVars
<1>3. CASE Lose(c) \/ ReadPump(c)
  BY <1>3 DEF TypeOK, Lose, ReadPump, ReadFails, Unregister, CloseConn, Reader, Remove,
     hubVars, pumpVars
<1>4. CASE TakeFirst(c) \/ TakeRest(c) \/ Flush(c)
  BY <1>4 DEF TypeOK, TakeFirst, TakeRest, Flush, hubVars
<1>5. CASE EndWriter(c)
  BY <1>5 DEF TypeOK, EndWriter, hubVars
<1> QED
  BY <1>1, <1>2, <1>3, <1>4, <1>5 DEF WritePump, SayGoodbye, WriteFails, PingFails

\* Every step keeps it.
LEMMA StepInv == IInv /\ [Next]_vars => IInv'
<1> SUFFICES ASSUME IInv, [Next]_vars PROVE IInv'
  OBVIOUS
<1>0. TypeOK /\ (\A c \in Clients : Own(c)) /\ (left # {} => taken > 0)
  BY OwnIsHubInv DEF IInv
<1>1. TypeOK'
  BY TypeStep
<1>2. CASE UNCHANGED vars
  BY <1>0, <1>2, OthersKeepOwn, OwnIsHubInv DEF IInv, vars, HubInv, ClosedOnce, PumpInv, NoGaps, Pipe, TypeOK
<1>3. CASE Broadcast
  <2>1. /\ left = {} /\ left' = clients /\ taken' = taken + 1 /\ taken \in Nat
        /\ clients' = clients /\ buf' = buf /\ closes' = closes /\ reader' = reader
        /\ writer' = writer /\ hand' = hand /\ got' = got
    BY <1>0, <1>3, WsHubAssumption DEF TypeOK, Broadcast, AtSelect, pumpVars
  <2>2. ASSUME NEW c \in Clients PROVE Own(c)'
    <3>1. Own(c) /\ Pipe(c)' = Pipe(c)
      BY <1>0, <2>1 DEF Pipe
    <3> QED
      BY <2>1, <3>1 DEF Own
  <2>3. (left # {} => taken > 0)'
    BY <2>1
  <2> QED
    BY <1>1, <2>2, <2>3, OwnIsHubInv DEF IInv, HubInv, ClosedOnce, PumpInv, NoGaps, Own, Continues
<1>4. ASSUME NEW c \in Clients,
             Offer(c) \/ ServeHTTP(c) \/ Lose(c) \/ ReadPump(c) \/ WritePump(c) \/ PingFails(c)
      PROVE  IInv'
  <2>1. Own(c)'
    BY <1>0, <1>4, OfferKeepsOwn, ConnectionKeepsOwn, WritePumpKeepsOwn
  <2>2. ASSUME NEW d \in Clients, d # c PROVE Own(d)'
    BY <1>0, <1>4, <2>2, StepIsOwn, OthersKeepOwn
  <2>3. left' \subseteq left /\ taken' = taken
    BY <1>4 DEF Offer, ServeHTTP, Upgrade, Register, StartPumps, Lose, ReadPump, ReadFails,
       Unregister, CloseConn, WritePump, TakeFirst, TakeRest, Flush, SayGoodbye, WriteFails,
       PingFails, EndWriter, hubVars
  <2>4. (\A d \in Clients : Own(d)') /\ (left' # {} => taken' > 0)
    BY <1>0, <2>1, <2>2, <2>3
  <2> QED
    BY <1>1, <2>4 DEF IInv, HubInv, ClosedOnce, PumpInv, NoGaps, Own, Continues
<1> QED
  BY <1>2, <1>3, <1>4 DEF Next

\* It holds in every state.
LEMMA Invariance == Spec => []IInv
  BY InitInv, StepInv, PTL DEF Spec

\* Every variable keeps its type, and no buffer exceeds its capacity.
THEOREM HubTypes == Spec => []TypeOK
  BY Invariance, PTL DEF IInv

\* No channel is closed twice, and none is closed while its client is registered:
\* the hub never panics on a client's channel.
THEOREM HubClosesOnce == Spec => []ClosedOnce
  BY Invariance, PTL DEF IInv, HubInv

\* A client gets the messages of the hub in order and without a gap, from its
\* registration for as long as it is connected.
THEOREM HubLeavesNoGaps == Spec => []NoGaps
  BY Invariance, PTL DEF IInv, HubInv
================================================================================
