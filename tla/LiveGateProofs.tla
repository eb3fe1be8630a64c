---------------------------- MODULE LiveGateProofs ----------------------------
(***************************************************************************)
(* Theorems about LiveGate, for every set of streams and prefetchers.       *)
(***************************************************************************)
EXTENDS LiveGate, TLAPS

\* Every queued caller waits, once.  It is what makes the hand-over of Release
\* safe: the one that gets the gate did not have it.
QueueWaits ==
  /\ \A i \in 1 .. Len(senders) : at[senders[i]] = "queued"
  /\ \A i, j \in 1 .. Len(senders) : senders[i] = senders[j] => i = j

LiveInv == TypeOK /\ LiveGateIsHeld /\ QueueWaits /\ NewestWins

-------------------------------------------------------------------------------
(* Types *)

\* The type invariant: the buffers hold one element at most.
THEOREM LiveGateTypes == Spec => []TypeOK
<1>1. Init => TypeOK
  BY DEF Init, TypeOK
<1>2. TypeOK /\ [Next]_vars => TypeOK'
  <2> SUFFICES ASSUME TypeOK, [Next]_vars PROVE TypeOK'
    OBVIOUS
  <2> USE DEF TypeOK
  <2>1. CASE UNCHANGED vars
    BY <2>1 DEF vars
  <2>2. ASSUME NEW s \in Streams, Stream(s) PROVE TypeOK'
    <3>1. CASE AcquireLiveStream(s)
      BY <3>1 DEF AcquireLiveStream, prefetch
    <3>2. CASE Send(s)
      BY <3>2 DEF Send, prefetch
    <3>3. CASE Release(s)
      BY <3>3 DEF Release, prefetch
    <3> QED BY <2>2, <3>1, <3>2, <3>3 DEF Stream
  <2>3. ASSUME NEW p \in Prefetchers, Prefetcher(p) PROVE TypeOK'
    <3> USE DEF Goto, live
    <3>1. CASE AcquirePrefetch(p)
      BY <3>1 DEF AcquirePrefetch
    <3>2. CASE Expire(p)
      BY <3>2 DEF Expire
    <3>3. CASE PollGate(p)
      BY <3>3 DEF PollGate
    <3>4. CASE SelectGate(p)
      BY <3>4 DEF SelectGate
    <3>5. CASE Recheck(p)
      BY <3>5 DEF Recheck
    <3>6. CASE ReleasePrefetch(p)
      BY <3>6 DEF ReleasePrefetch
    <3> QED BY <2>3, <3>1, <3>2, <3>3, <3>4, <3>5, <3>6 DEF Prefetcher
  <2> QED BY <2>1, <2>2, <2>3 DEF Next
<1> QED BY <1>1, <1>2, PTL DEF Spec

-------------------------------------------------------------------------------
(* The live gate *)

\* New leaves both gates empty.
LEMMA LiveInvInit == Init => LiveInv
BY DEF Init, LiveInv, TypeOK, LiveGateIsHeld, QueueWaits, NewestWins, Holds

\* The section under mu makes the caller the newest, and cancels the one before.
LEMMA AcquireKeeps ==
  ASSUME LiveInv, NEW s \in Streams, AcquireLiveStream(s)
  PROVE  LiveGateIsHeld' /\ QueueWaits' /\ NewestWins'
<1> USE DEF LiveInv, TypeOK, AcquireLiveStream
<1>1. LiveGateIsHeld'
  BY DEF LiveGateIsHeld, Holds
<1>2. QueueWaits'
  BY DEF QueueWaits
<1>3. NewestWins'
  BY LiveGateAssumption DEF NewestWins
<1> QED BY <1>1, <1>2, <1>3

\* A caller takes the gate when it is empty and joins the queue when it is full.
LEMMA SendKeeps ==
  ASSUME LiveInv, NEW s \in Streams, Send(s)
  PROVE  LiveGateIsHeld' /\ QueueWaits' /\ NewestWins'
<1> USE DEF LiveInv, TypeOK, Send
<1>1. LiveGateIsHeld'
  BY DEF LiveGateIsHeld, Holds
<1>2. QueueWaits'
  <2>1. CASE liveLen = 0
    BY <2>1 DEF QueueWaits, LiveGateIsHeld
  <2>2. CASE liveLen = 1
    <3>1. senders' = Append(senders, s) /\ at' = [at EXCEPT ![s] = "queued"]
      BY <2>2
    <3>2. \A i \in 1 .. Len(senders) : senders[i] # s
      BY DEF QueueWaits
    <3> QED BY <3>1, <3>2 DEF QueueWaits
  <2> QED BY <2>1, <2>2
<1>3. NewestWins'
  BY DEF NewestWins
<1> QED BY <1>1, <1>2, <1>3

\* A release empties the gate or hands it to the first caller of the queue.
LEMMA ReleaseKeeps ==
  ASSUME LiveInv, NEW s \in Streams, Release(s)
  PROVE  LiveGateIsHeld' /\ QueueWaits' /\ NewestWins'
<1> USE DEF LiveInv, TypeOK
<1>1. CASE senders = <<>>
  <2>1. liveLen' = 0 /\ at' = [at EXCEPT ![s] = "idle"] /\ senders' = <<>>
    BY <1>1 DEF Release
  <2> QED BY <1>1, <2>1 DEF Release, LiveGateIsHeld, QueueWaits, NewestWins, Holds
<1>2. CASE senders # <<>>
  <2> DEFINE h == Head(senders)
  <2>1. /\ senders' = Tail(senders)
        /\ at' = [at EXCEPT ![s] = "idle", ![h] = "hold"]
        /\ liveLen' = liveLen
    BY <1>2 DEF Release
  <2>2. h \in Streams /\ at[h] = "queued" /\ h # s /\ at[s] = "hold" /\ h = senders[1]
    BY <1>2 DEF Release, QueueWaits
  <2>3. LiveGateIsHeld'
    BY <1>2, <2>1, <2>2 DEF LiveGateIsHeld, Holds
  <2>4. /\ Len(Tail(senders)) = Len(senders) - 1
        /\ \A i \in 1 .. Len(Tail(senders)) : Tail(senders)[i] = senders[i + 1]
    BY <1>2
  <2>5. \A i \in 1 .. Len(senders) : senders[i] # s
    BY <2>2 DEF QueueWaits
  <2>6. QueueWaits'
    BY <1>2, <2>1, <2>2, <2>4, <2>5 DEF QueueWaits
  <2>7. NewestWins'
    BY <2>1, <2>2 DEF Release, NewestWins
  <2> QED BY <2>3, <2>6, <2>7
<1> QED BY <1>1, <1>2

\* LiveInv is kept by every step.
LEMMA LiveInvHolds == Spec => []LiveInv
<1>1. LiveInv /\ [Next]_vars /\ TypeOK' => LiveInv'
  <2> SUFFICES ASSUME LiveInv, [Next]_vars, TypeOK' PROVE LiveInv'
    OBVIOUS
  <2>1. ASSUME NEW s \in Streams, Stream(s) PROVE LiveInv'
    BY <2>1, AcquireKeeps, SendKeeps, ReleaseKeeps DEF Stream, LiveInv
  <2>2. CASE UNCHANGED live
    BY <2>2 DEF live, LiveInv, LiveGateIsHeld, QueueWaits, NewestWins, Holds
  <2>3. ASSUME NEW p \in Prefetchers, Prefetcher(p) PROVE UNCHANGED live
    BY <2>3 DEF Prefetcher, AcquirePrefetch, Expire, PollGate, SelectGate, Recheck,
                ReleasePrefetch
  <2>4. UNCHANGED vars => UNCHANGED live
    BY DEF vars, live
  <2> QED BY <2>1, <2>2, <2>3, <2>4 DEF Next
<1> QED BY <1>1, LiveInvInit, LiveGateTypes, PTL DEF Spec

\* The gate of the live stream is full exactly while one caller has it, and a
\* caller queues only behind a holder, however many overtake each other between
\* Unlock and the send.
THEOREM LiveGateKept == Spec => []LiveGateIsHeld
<1>1. LiveInv => LiveGateIsHeld
  BY DEF LiveInv
<1> QED BY <1>1, LiveInvHolds, PTL

\* Of the calls of AcquireLiveStream that have not released, only the newest is
\* not cancelled.
THEOREM NewestHoldsGate == Spec => []NewestWins
<1>1. LiveInv => NewestWins
  BY DEF LiveInv
<1> QED BY <1>1, LiveInvHolds, PTL

-------------------------------------------------------------------------------
(* The prefetch gate *)

\* No path through AcquirePrefetch returns without the gate it has taken, or
\* takes it from another.
THEOREM PrefetchGateKept == Spec => []PrefetchGateIsHeld
<1> DEFINE PrefetchInv == TypeOK /\ PrefetchGateIsHeld
<1>1. Init => PrefetchGateIsHeld
  BY DEF Init, PrefetchGateIsHeld
<1>2. PrefetchInv /\ [Next]_vars => PrefetchGateIsHeld'
  <2> SUFFICES ASSUME PrefetchInv, [Next]_vars PROVE PrefetchGateIsHeld'
    OBVIOUS
  <2>1. CASE UNCHANGED <<prefetchLen, pf>>
    BY <2>1 DEF PrefetchGateIsHeld
  <2>2. ASSUME NEW s \in Streams, Stream(s) PROVE UNCHANGED <<prefetchLen, pf>>
    BY <2>2 DEF Stream, AcquireLiveStream, Send, Release, prefetch
  <2>3. ASSUME NEW p \in Prefetchers, Prefetcher(p) PROVE PrefetchGateIsHeld'
    <3> USE DEF TypeOK, PrefetchGateIsHeld, Goto
    <3>1. CASE AcquirePrefetch(p)
      BY <3>1 DEF AcquirePrefetch
    <3>2. CASE Expire(p)
      BY <3>2 DEF Expire
    <3>3. CASE PollGate(p)
      BY <3>3 DEF PollGate
    <3>4. CASE SelectGate(p)
      BY <3>4 DEF SelectGate
    <3>5. CASE Recheck(p)
      BY <3>5 DEF Recheck
    <3>6. CASE ReleasePrefetch(p)
      BY <3>6 DEF ReleasePrefetch
    <3> QED BY <2>3, <3>1, <3>2, <3>3, <3>4, <3>5, <3>6 DEF Prefetcher
  <2>4. UNCHANGED vars => UNCHANGED <<prefetchLen, pf>>
    BY DEF vars
  <2> QED BY <2>1, <2>2, <2>3, <2>4 DEF Next
<1> QED BY <1>1, <1>2, LiveGateTypes, PTL DEF Spec
===============================================================================
