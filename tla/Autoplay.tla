-------------------------------- MODULE Autoplay --------------------------------
(***************************************************************************)
(* The autoplay pool of queue.Manager (src/internal/queue/manager.go) and   *)
(* the goroutines that fill it.                                            *)
(*                                                                         *)
(* A track that starts leaves an enrichRecommendations behind: it notes the *)
(* videos of the pool, chooses related ones without the lock, and appends   *)
(* them.  If the pool was empty, enrichNextAutoplay follows: it reads the   *)
(* head, resolves it for up to 45 seconds, and puts the full track in its   *)
(* place, or drops it if it is over 20 minutes long and takes the next.     *)
(* Meanwhile the pool may have been emptied, played from, and filled again. *)
(*                                                                         *)
(* A slot is such a goroutine.  Sections under Manager.mu are one step.     *)
(* A candidate is related to the track, and neither in the queue nor among  *)
(* the last ten played: which ones those are is left open.  Resolve asks    *)
(* ytsearch1 for a URL in lower case (normalize), so what comes back need   *)
(* not be the video of the entry.                                          *)
(***************************************************************************)
EXTENDS Naturals, Sequences

CONSTANTS
  Videos,
  Long,        \* the videos over 20 minutes, which only Resolve finds out
  NoVideo,     \* not a video
  MaxPool,     \* maxPoolSize: 50
  Slots,       \* goroutines that may be on their way at the same time
  MaxRelated,  \* bound: related videos of a track
  MaxPlays     \* bound: tracks started

ASSUME AutoplayAssumption ==
  /\ Long \subseteq Videos
  /\ NoVideo \notin Videos
  /\ MaxPool \in Nat \ {0}
  /\ MaxRelated \in Nat
  /\ MaxPlays \in Nat

VARIABLES
  pool,          \* autoplayPool
  nextAutoplay,  \* the track the clients are shown as next
  autoplayOn,
  slot,          \* [Slots -> a goroutine and its locals]
  plays,         \* tracks started so far
  quiet          \* no track has been asked for, and no enrichment was on its
                 \* way, since stop (for the properties only)

vars == <<pool, nextAutoplay, autoplayOn, slot, plays, quiet>>

\* known: RelatedVideos is not nil, the entry is the result of a Resolve.
Tracks  == [vid : Videos, known : BOOLEAN]
NoTrack == [vid |-> NoVideo, known |-> FALSE]
Minimal(v) == [vid |-> v, known |-> FALSE]

Candidates == {s \in UNION {[1 .. n -> Videos] : n \in 0 .. MaxRelated} :
                 \A i, j \in DOMAIN s : s[i] = s[j] => i = j}

\* vid: the track that was started, or the entry that is resolved.
Steps == [at   : {"idle", "snap", "append", "head", "resolve"},
          vid  : Videos \cup {NoVideo},
          cand : Candidates]
Step(a, v, c) == [at |-> a, vid |-> v, cand |-> c]
Idle == Step("idle", NoVideo, <<>>)

TypeOK ==
  /\ pool \in Seq(Tracks) /\ Len(pool) <= MaxPool
  /\ nextAutoplay \in Tracks \cup {NoTrack}
  /\ autoplayOn \in BOOLEAN
  /\ slot \in [Slots -> Steps]
  /\ plays \in 0 .. MaxPlays
  /\ quiet \in BOOLEAN

Init ==
  /\ pool = <<>>
  /\ nextAutoplay = NoTrack
  /\ autoplayOn = TRUE
  /\ slot = [g \in Slots |-> Idle]
  /\ plays = 0
  /\ quiet = TRUE

HeadOrNone(p) == IF p = <<>> THEN NoTrack ELSE Head(p)
SetPool(p)    == pool' = p /\ nextAutoplay' = HeadOrNone(p)

Goto(g, s)    == slot' = [slot EXCEPT ![g] = s]
At(g, a)      == slot[g].at = a
OnItsWay(g)   == slot[g].at \in {"snap", "append"}

-------------------------------------------------------------------------------
(* Commands and the queue *)

\* The track is started, and enrichRecommendations with it.
Started(g, v) ==
  /\ At(g, "idle")
  /\ plays < MaxPlays
  /\ plays' = plays + 1
  /\ Goto(g, Step("snap", v, <<>>))

\* PlayNow empties the pool; what it starts enriches later.
PlayNow(g, v) ==
  /\ Started(g, v)
  /\ SetPool(<<>>)
  /\ quiet' = FALSE
  /\ UNCHANGED autoplayOn

\* A row of the queue that a client asked for: advanceQueue leaves the pool alone.
PlayQueueEntry(g, v) ==
  /\ Started(g, v)
  /\ quiet' = FALSE
  /\ UNCHANGED <<pool, nextAutoplay, autoplayOn>>

\* Mutant of PlayFromPool: nextAutoplay is left as it is.
PlayKeepsNext(g) ==
  /\ autoplayOn
  /\ pool # <<>>
  /\ Started(g, Head(pool).vid)
  /\ pool' = Tail(pool)
  /\ UNCHANGED <<nextAutoplay, autoplayOn, quiet>>

\* advanceQueue with no row that waits, then playTrackFromAutoplay.
PlayFromPool(g) ==
  /\ autoplayOn
  /\ pool # <<>>
  /\ Started(g, Head(pool).vid)
  /\ SetPool(Tail(pool))
  /\ UNCHANGED <<autoplayOn, quiet>>

\* Mutant of StopAll: the pool is kept.
StopKeepsPool ==
  /\ quiet' = \A g \in Slots : ~OnItsWay(g)
  /\ UNCHANGED <<pool, nextAutoplay, autoplayOn, slot, plays>>

StopAll ==
  /\ SetPool(<<>>)
  /\ quiet' = \A g \in Slots : ~OnItsWay(g)
  /\ UNCHANGED <<autoplayOn, slot, plays>>

SetAutoplay(on) ==
  /\ autoplayOn' = on
  /\ IF on THEN UNCHANGED <<pool, nextAutoplay>> ELSE SetPool(<<>>)
  /\ UNCHANGED <<slot, plays, quiet>>

-------------------------------------------------------------------------------
(* enrichRecommendations *)

\* The pool is read under the lock; queue and history, read after it, only
\* leave fewer candidates.
Snapshot(g) ==
  /\ At(g, "snap")
  /\ \E c \in Candidates :
       /\ \A i \in DOMAIN c : c[i] # slot[g].vid /\ \A k \in DOMAIN pool : pool[k].vid # c[i]
       /\ Goto(g, IF c = <<>> THEN Idle ELSE Step("append", NoVideo, c))
  /\ UNCHANGED <<pool, nextAutoplay, autoplayOn, plays, quiet>>

Smaller(m, n) == IF m < n THEN m ELSE n

\* The candidates that fit; nextAutoplay is set, and its enrichment started, if
\* there was none.  autoplayOn is not looked at.
AppendCandidates(g, room) ==
  /\ At(g, "append")
  /\ LET fit  == SubSeq(slot[g].cand, 1, Smaller(room, Len(slot[g].cand)))
         more == [i \in DOMAIN fit |-> Minimal(fit[i])]
     IN  /\ pool' = pool \o more
         /\ IF nextAutoplay = NoTrack /\ more # <<>>
            THEN /\ nextAutoplay' = Head(more)
                 /\ Goto(g, Step("head", NoVideo, <<>>))
            ELSE Goto(g, Idle) /\ UNCHANGED nextAutoplay
  /\ UNCHANGED <<autoplayOn, plays, quiet>>

\* Mutant of AppendRelated: the pool is measured in the snapshot.
AppendUnmeasured(g) == AppendCandidates(g, MaxPool)

AppendRelated(g) == AppendCandidates(g, MaxPool - Len(pool))

-------------------------------------------------------------------------------
(* enrichNextAutoplay *)

ReadHead(g) ==
  /\ At(g, "head")
  /\ Goto(g, IF pool = <<>> \/ Head(pool).known THEN Idle
             ELSE Step("resolve", Head(pool).vid, <<>>))
  /\ UNCHANGED <<pool, nextAutoplay, autoplayOn, plays, quiet>>

ResolveFails(g) ==
  /\ At(g, "resolve")
  /\ Goto(g, Idle)
  /\ UNCHANGED <<pool, nextAutoplay, autoplayOn, plays, quiet>>

StillHead(g) == pool # <<>> /\ Head(pool).vid = slot[g].vid

\* Mutant of DropLong: a long track at the head stays there.
KeepLong(g) ==
  /\ At(g, "resolve")
  /\ Long # {}
  /\ SetPool(pool)
  /\ Goto(g, IF pool = <<>> THEN Idle ELSE Step("head", NoVideo, <<>>))
  /\ UNCHANGED <<autoplayOn, plays, quiet>>

\* The resolved track is too long: it is dropped if it is still the head, and
\* whatever is the head by then is enriched.
DropLong(g) ==
  /\ At(g, "resolve")
  /\ Long # {}
  /\ LET rest == IF StillHead(g) THEN Tail(pool) ELSE pool
     IN  /\ SetPool(rest)
         /\ Goto(g, IF rest = <<>> THEN Idle ELSE Step("head", NoVideo, <<>>))
  /\ UNCHANGED <<autoplayOn, plays, quiet>>

\* The full track takes the place of the entry.  Its background download
\* touches nothing here.
StoreFull(g) ==
  /\ At(g, "resolve")
  /\ \E v \in Videos \ Long, k \in BOOLEAN :
       LET full == [vid |-> v, known |-> k]
       IN  /\ pool' = IF StillHead(g) THEN <<full>> \o Tail(pool) ELSE pool
           /\ nextAutoplay' = IF nextAutoplay # NoTrack /\ nextAutoplay.vid = slot[g].vid
                              THEN full ELSE nextAutoplay
  /\ Goto(g, Idle)
  /\ UNCHANGED <<autoplayOn, plays, quiet>>

-------------------------------------------------------------------------------
EnrichRecommendations(g) == Snapshot(g) \/ AppendRelated(g)
EnrichNextAutoplay(g)    == ReadHead(g) \/ ResolveFails(g) \/ DropLong(g) \/ StoreFull(g)

Next ==
  \/ \E g \in Slots :
       \/ \E v \in Videos : PlayNow(g, v) \/ PlayQueueEntry(g, v)
       \/ PlayFromPool(g)
       \/ EnrichRecommendations(g) \/ EnrichNextAutoplay(g)
  \/ StopAll
  \/ \E on \in BOOLEAN : SetAutoplay(on)

Spec == Init /\ [][Next]_vars

\* Goroutines run, and Resolve's yt-dlp has a timeout (resolver.go:251).
Fairness == \A g \in Slots : WF_vars(EnrichRecommendations(g) \/ EnrichNextAutoplay(g))

LiveSpec == Spec /\ Fairness

-------------------------------------------------------------------------------
(* Properties *)

\* The track that the clients are shown as the next one is the one advanceQueue
\* takes, whatever enrichments wrote late in the one and in the other.
NextIsHead == nextAutoplay = HeadOrNone(pool)

\* stop ends the music.  If no enrichRecommendations was on its way when stop
\* emptied the pool, it stays empty until a client asks for a track: no
\* enrichNextAutoplay that ends later brings an entry back, and autoplay has
\* nothing to start.  (One that is on its way fills the pool again.)
StopIsKept == quiet => pool = <<>>

\* Every enrichment ends: enrichNextAutoplay, which starts itself again after
\* each track that is too long, runs out of tracks.
EnrichmentEnds == \A g \in Slots : slot[g].at # "idle" ~> slot[g].at = "idle"

-------------------------------------------------------------------------------
(* Inductive strengthening *)

\* Nothing fills the pool while it is quiet.
QuietInv == quiet => pool = <<>> /\ \A g \in Slots : ~OnItsWay(g)
===============================================================================
