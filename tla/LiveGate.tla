------------------------------- MODULE LiveGate -------------------------------
(***************************************************************************)
(* ResourceManager (src/internal/resource/manager.go): the gate of the live *)
(* stream, where the newest caller wins, and the gate of the prefetch,      *)
(* which yields to a live stream.                                          *)
(*                                                                         *)
(* Each gate is a channel of capacity 1, modelled as the number of elements *)
(* in its buffer; a sender that finds the live gate full waits in the       *)
(* channel's queue, and the receive that empties the buffer hands over to   *)
(* the first one.  Between Unlock and the send a caller can be overtaken.   *)
(* AcquireLiveStreamCancellable does the same.                             *)
(***************************************************************************)
EXTENDS Naturals, Sequences

CONSTANTS
  Streams,      \* the calls of AcquireLiveStream that may overlap
  Brief,        \* those that release at once: Skip, StopAll and Previous;
                \* the others hold the gate until their context is cancelled
  Prefetchers,  \* the callers of AcquirePrefetch
  Nobody

ASSUME LiveGateAssumption ==
  /\ Brief \subseteq Streams
  /\ Nobody \notin Streams

VARIABLES
  liveLen,      \* len(liveStreamGate)
  senders,      \* the callers queued at liveStreamGate
  prefetchLen,  \* len(prefetchGate)
  active,       \* whose cancel function is activeCancelFunc
  cancelled,    \* the streams whose context is cancelled
  at,           \* [Streams -> where the caller is]
  pf,           \* [Prefetchers -> where the caller is]
  expired       \* the prefetchers whose context is done

live     == <<liveLen, senders, active, cancelled, at>>
prefetch == <<prefetchLen, pf, expired>>
vars     == <<liveLen, senders, active, cancelled, at, prefetchLen, pf, expired>>

TypeOK ==
  /\ liveLen \in 0 .. 1
  /\ senders \in Seq(Streams)
  /\ prefetchLen \in 0 .. 1
  /\ active \in Streams \cup {Nobody}
  /\ cancelled \subseteq Streams
  /\ at \in [Streams -> {"idle", "send", "queued", "hold"}]
  /\ pf \in [Prefetchers -> {"idle", "loop", "select", "recheck", "hold"}]
  /\ expired \subseteq Prefetchers

Init ==
  /\ liveLen = 0
  /\ senders = <<>>
  /\ prefetchLen = 0
  /\ active = Nobody
  /\ cancelled = {}
  /\ at = [s \in Streams |-> "idle"]
  /\ pf = [p \in Prefetchers |-> "idle"]
  /\ expired = {}

-------------------------------------------------------------------------------
(* AcquireLiveStream *)

\* Mutant of AcquireLiveStream: the previous stream is not cancelled.
AcquireWithoutKill(s) ==
  /\ at[s] = "idle"
  /\ cancelled' = cancelled \ {s}
  /\ active' = s
  /\ at' = [at EXCEPT ![s] = "send"]
  /\ UNCHANGED <<liveLen, senders, prefetch>>

\* The section under mu.  activeCancelFunc is never reset: it can belong to a
\* stream that has been released, whose cancellation changes nothing.
AcquireLiveStream(s) ==
  /\ at[s] = "idle"
  /\ cancelled' = (cancelled \cup ({active} \ {Nobody})) \ {s}
  /\ active' = s
  /\ at' = [at EXCEPT ![s] = "send"]
  /\ UNCHANGED <<liveLen, senders, prefetch>>

\* Mutant of Send: the gate is made with capacity 2.
SendWide(s) ==
  /\ at[s] = "send"
  /\ liveLen < 2
  /\ liveLen' = liveLen + 1
  /\ at' = [at EXCEPT ![s] = "hold"]
  /\ UNCHANGED <<senders, active, cancelled, prefetch>>

\* The send on liveStreamGate.
Send(s) ==
  /\ at[s] = "send"
  /\ \/ /\ liveLen = 0
        /\ liveLen' = 1
        /\ at' = [at EXCEPT ![s] = "hold"]
        /\ UNCHANGED senders
     \/ /\ liveLen = 1
        /\ senders' = Append(senders, s)
        /\ at' = [at EXCEPT ![s] = "queued"]
        /\ UNCHANGED liveLen
  /\ UNCHANGED <<active, cancelled, prefetch>>

\* Mutant of Release: the element of a caller that waits is not moved up.
ReleaseAll(s) ==
  /\ at[s] = "hold"
  /\ cancelled' = cancelled \cup {s}
  /\ liveLen' = 0
  /\ at' = [at EXCEPT ![s] = "idle"]
  /\ UNCHANGED <<senders, active, prefetch>>

\* releaseFunc: the receive hands the gate to the first caller of the queue.
Release(s) ==
  /\ at[s] = "hold"
  /\ cancelled' = cancelled \cup {s}
  /\ \/ /\ senders = <<>>
        /\ liveLen' = 0
        /\ at' = [at EXCEPT ![s] = "idle"]
        /\ UNCHANGED senders
     \/ /\ senders # <<>>
        /\ senders' = Tail(senders)
        /\ at' = [at EXCEPT ![s] = "idle", ![Head(senders)] = "hold"]
        /\ UNCHANGED liveLen
  /\ UNCHANGED <<active, prefetch>>

-------------------------------------------------------------------------------
(* AcquirePrefetch *)

IsLiveStreamActive == liveLen > 0

Goto(p, l) == pf' = [pf EXCEPT ![p] = l]

AcquirePrefetch(p) ==
  /\ pf[p] = "idle"
  /\ Goto(p, "loop")
  /\ expired' = expired \ {p}
  /\ UNCHANGED <<prefetchLen, live>>

Expire(p) ==
  /\ pf[p] \in {"loop", "select", "recheck"}
  /\ expired' = expired \cup {p}
  /\ UNCHANGED <<prefetchLen, pf, live>>

\* Mutant of PollGate: the loop waits for the live stream whatever its context.
PollWithoutCheck(p) ==
  /\ pf[p] = "loop"
  /\ ~IsLiveStreamActive
  /\ Goto(p, "select")
  /\ UNCHANGED <<prefetchLen, expired, live>>

\* The top of the loop: the call returns when its context is done and goes
\* round, every 100 ms, while a live stream is active.
PollGate(p) ==
  /\ pf[p] = "loop"
  /\ \/ p \in expired /\ Goto(p, "idle")
     \/ p \notin expired /\ ~IsLiveStreamActive /\ Goto(p, "select")
  /\ UNCHANGED <<prefetchLen, expired, live>>

\* The select: any case that is ready, the ticker's sooner or later.
SelectGate(p) ==
  /\ pf[p] = "select"
  /\ \/ p \in expired /\ Goto(p, "idle") /\ UNCHANGED prefetchLen
     \/ prefetchLen = 0 /\ prefetchLen' = 1 /\ Goto(p, "recheck")
     \/ Goto(p, "loop") /\ UNCHANGED prefetchLen
  /\ UNCHANGED <<expired, live>>

\* Mutant of Recheck: the error path keeps the gate.
RecheckLeaks(p) ==
  /\ pf[p] = "recheck"
  /\ \/ IsLiveStreamActive /\ prefetchLen' = 0 /\ Goto(p, "loop")
     \/ ~IsLiveStreamActive /\ p \in expired /\ Goto(p, "idle") /\ UNCHANGED prefetchLen
     \/ ~IsLiveStreamActive /\ p \notin expired /\ Goto(p, "hold") /\ UNCHANGED prefetchLen
  /\ UNCHANGED <<expired, live>>

\* The double check: a live stream that has started meanwhile sends the caller
\* back to the loop, a context that is done ends the call.
Recheck(p) ==
  /\ pf[p] = "recheck"
  /\ \/ IsLiveStreamActive /\ prefetchLen' = 0 /\ Goto(p, "loop")
     \/ ~IsLiveStreamActive /\ p \in expired /\ prefetchLen' = 0 /\ Goto(p, "idle")
     \/ ~IsLiveStreamActive /\ p \notin expired /\ Goto(p, "hold") /\ UNCHANGED prefetchLen
  /\ UNCHANGED <<expired, live>>

ReleasePrefetch(p) ==
  /\ pf[p] = "hold"
  /\ prefetchLen' = 0
  /\ Goto(p, "idle")
  /\ UNCHANGED <<expired, live>>

-------------------------------------------------------------------------------
Stream(s)     == AcquireLiveStream(s) \/ Send(s) \/ Release(s)
Prefetcher(p) == \/ AcquirePrefetch(p) \/ Expire(p) \/ PollGate(p) \/ SelectGate(p)
                 \/ Recheck(p) \/ ReleasePrefetch(p)

Next == (\E s \in Streams : Stream(s)) \/ (\E p \in Prefetchers : Prefetcher(p))

Spec == Init /\ [][Next]_vars

\* A caller goes on to its send, a brief one releases, and so does one whose
\* context is cancelled.  A prefetch is given 50 ms for the gate, and ends.
Fairness ==
  /\ \A s \in Streams :
       /\ WF_vars(Send(s))
       /\ WF_vars((s \in Brief \/ s \in cancelled) /\ Release(s))
  /\ \A p \in Prefetchers :
       WF_vars(Expire(p) /\ p \notin expired) /\ WF_vars(PollGate(p)) /\ WF_vars(SelectGate(p))
       /\ WF_vars(Recheck(p)) /\ WF_vars(ReleasePrefetch(p))

LiveSpec == Spec /\ Fairness

-------------------------------------------------------------------------------
(* Properties *)

Holds(s) == at[s] = "hold"

\* The live gate is full exactly while one caller holds it, and a caller waits
\* in its queue only behind a holder: no release is lost, none is made twice.
LiveGateIsHeld ==
  /\ liveLen = 1 <=> \E s \in Streams : Holds(s)
  /\ \A r, s \in Streams : Holds(r) /\ Holds(s) => r = s
  /\ senders # <<>> => liveLen = 1

\* "forcefully cancels any existing live stream": of the calls that have been
\* made and not released, only the newest has a context that is not cancelled.
NewestWins ==
  \A s \in Streams : at[s] # "idle" /\ s \notin cancelled => s = active

\* The prefetch gate is full exactly while one caller has it: no error path of
\* AcquirePrefetch keeps it.
PrefetchGateIsHeld ==
  /\ prefetchLen = 1 <=> \E p \in Prefetchers : pf[p] \in {"recheck", "hold"}
  /\ \A p, q \in Prefetchers :
       pf[p] \in {"recheck", "hold"} /\ pf[q] \in {"recheck", "hold"} => p = q

\* The newest caller gets the gate, or a newer one comes, however long the
\* others would have held it.
NewestGetsGate ==
  \A s \in Streams : at[s] \in {"send", "queued"} /\ active = s ~> at[s] = "hold" \/ active # s

\* AcquirePrefetch "must respect the passed ctx": it returns, with the gate or
\* without it.
PrefetchReturns ==
  \A p \in Prefetchers : pf[p] \in {"loop", "select", "recheck"} ~> pf[p] \in {"idle", "hold"}
===============================================================================
