----------------------------- MODULE AutoplayProofs -----------------------------
(***************************************************************************)
(* Theorems about the autoplay pool, for any set of videos, any limit of    *)
(* the pool and any number of goroutines.                                  *)
(***************************************************************************)
EXTENDS Autoplay, SequenceTheorems, TLAPS

IInv == TypeOK /\ NextIsHead /\ QuietInv

\* The bounds are numbers.
LEMMA Constants ==
  /\ MaxPool \in Nat \ {0} /\ MaxRelated \in Nat /\ MaxPlays \in Nat /\ NoVideo \notin Videos
  BY AutoplayAssumption

\* No entry of the pool is mistaken for the absence of one.
LEMMA TrackIsNotNone == \A t \in Tracks : t # NoTrack
  BY Constants DEF Tracks, NoTrack

\* There may be no related video.
LEMMA EmptyIsCandidate == <<>> \in Candidates
<1>1. <<>> \in [1 .. 0 -> Videos]
  OBVIOUS
<1>2. 0 \in 0 .. MaxRelated
  BY Constants
<1> QED
  BY <1>1, <1>2 DEF Candidates

\* Candidates are sequences of videos.
LEMMA CandidateIsSeq == \A c \in Candidates : c \in Seq(Videos)
  BY DEF Candidates

\* A goroutine that has ended is well-typed.
LEMMA IdleIsStep == Idle \in Steps
  BY EmptyIsCandidate DEF Idle, Step, Steps

\* SetPool keeps the types and lets nextAutoplay follow the pool.
LEMMA SetPoolIsSound ==
  ASSUME NEW p \in Seq(Tracks), Len(p) <= MaxPool, SetPool(p)
  PROVE  /\ pool' \in Seq(Tracks) /\ Len(pool') <= MaxPool
         /\ nextAutoplay' \in Tracks \cup {NoTrack}
         /\ NextIsHead'
         /\ pool' = p
  BY HeadTailProperties DEF SetPool, NextIsHead, HeadOrNone

\* A step of a goroutine keeps the type of the slots.
LEMMA GotoKeepsType ==
  ASSUME TypeOK, NEW g \in Slots, NEW s \in Steps, Goto(g, s)
  PROVE  slot' \in [Slots -> Steps]
  BY DEF TypeOK, Goto

\* A track that is started leaves a well-typed enrichment behind.
LEMMA StartedIsSound ==
  ASSUME IInv, NEW g \in Slots, NEW v \in Videos, Started(g, v)
  PROVE  slot' \in [Slots -> Steps] /\ plays' \in 0 .. MaxPlays
<1>1. Step("snap", v, <<>>) \in Steps
  BY EmptyIsCandidate DEF Step, Steps
<1>2. slot' \in [Slots -> Steps]
  BY <1>1, GotoKeepsType DEF IInv, Started
<1> QED
  BY <1>2, Constants DEF IInv, TypeOK, Started

\* The invariant holds at the start.
LEMMA InitInv == Init => IInv
  BY Constants, IdleIsStep
     DEF Init, IInv, TypeOK, NextIsHead, HeadOrNone, QuietInv, OnItsWay, Idle, Step

\* Tracks that start, from a command or from the pool, preserve the invariant.
LEMMA PlayStep ==
  ASSUME IInv, NEW g \in Slots,
         (\E v \in Videos : PlayNow(g, v) \/ PlayQueueEntry(g, v)) \/ PlayFromPool(g)
  PROVE  IInv'
<1>1. ASSUME NEW v \in Videos, PlayNow(g, v) PROVE IInv'
  <2>1. slot' \in [Slots -> Steps] /\ plays' \in 0 .. MaxPlays
    BY <1>1, StartedIsSound DEF PlayNow
  <2>2. <<>> \in Seq(Tracks) /\ Len(<<>>) <= MaxPool /\ SetPool(<<>>)
    BY <1>1, Constants DEF PlayNow
  <2> QED
    BY <1>1, <2>1, <2>2, SetPoolIsSound DEF IInv, TypeOK, QuietInv, PlayNow
<1>2. ASSUME NEW v \in Videos, PlayQueueEntry(g, v) PROVE IInv'
  <2>1. slot' \in [Slots -> Steps] /\ plays' \in 0 .. MaxPlays
    BY <1>2, StartedIsSound DEF PlayQueueEntry
  <2> QED
    BY <1>2, <2>1 DEF IInv, TypeOK, NextIsHead, HeadOrNone, QuietInv, PlayQueueEntry
<1>3. ASSUME PlayFromPool(g) PROVE IInv'
  <2>1. pool # <<>> /\ pool \in Seq(Tracks) /\ Len(pool) <= MaxPool
    BY <1>3 DEF PlayFromPool, IInv, TypeOK
  <2>2. Head(pool) \in Tracks /\ Tail(pool) \in Seq(Tracks) /\ Len(Tail(pool)) <= MaxPool
    BY <2>1, HeadTailProperties, LenProperties, Constants
  <2>3. slot' \in [Slots -> Steps] /\ plays' \in 0 .. MaxPlays
    BY <1>3, <2>2, StartedIsSound DEF PlayFromPool, Tracks
  <2>4. quiet = FALSE /\ quiet' = quiet
    BY <1>3, <2>1 DEF PlayFromPool, IInv, QuietInv, TypeOK
  <2> QED
    BY <1>3, <2>2, <2>3, <2>4, SetPoolIsSound DEF IInv, TypeOK, QuietInv, PlayFromPool
<1> QED
  BY <1>1, <1>2, <1>3

\* So do stop and autoplay.
LEMMA CommandStep ==
  ASSUME IInv, StopAll \/ \E on \in BOOLEAN : SetAutoplay(on)
  PROVE  IInv'
<1>0. <<>> \in Seq(Tracks) /\ Len(<<>>) <= MaxPool
  BY Constants
<1>1. CASE StopAll
  <2>1. SetPool(<<>>)
    BY <1>1 DEF StopAll
  <2>2. quiet' \in BOOLEAN /\ (quiet' => \A g \in Slots : ~OnItsWay(g)')
    BY <1>1 DEF StopAll, OnItsWay
  <2> QED
    BY <1>0, <1>1, <2>1, <2>2, SetPoolIsSound DEF IInv, TypeOK, QuietInv, StopAll
<1>2. ASSUME NEW on \in BOOLEAN, SetAutoplay(on) PROVE IInv'
  <2>1. CASE on
    BY <1>2, <2>1 DEF IInv, TypeOK, NextIsHead, HeadOrNone, QuietInv, OnItsWay, SetAutoplay
  <2>2. CASE ~on
    <3>1. SetPool(<<>>)
      BY <1>2, <2>2 DEF SetAutoplay
    <3>2. \A g \in Slots : OnItsWay(g)' <=> OnItsWay(g)
      BY <1>2 DEF SetAutoplay, OnItsWay
    <3> QED
      BY <1>0, <1>2, <3>1, <3>2, SetPoolIsSound DEF IInv, TypeOK, QuietInv, SetAutoplay
  <2> QED
    BY <2>1, <2>2
<1> QED
  BY <1>1, <1>2

\* A goroutine that does not become one that is going to append leaves QuietInv.
LEMMA QuietStays ==
  ASSUME IInv, NEW g \in Slots, NEW s \in Steps, Goto(g, s), s.at \in {"idle", "head", "resolve"},
         quiet' = quiet, pool = <<>> => pool' = <<>>
  PROVE  QuietInv'
<1>1. ASSUME NEW h \in Slots PROVE OnItsWay(h)' => OnItsWay(h)
  BY DEF IInv, TypeOK, Goto, OnItsWay
<1> QED
  BY <1>1 DEF IInv, QuietInv

\* So does an enrichment that chooses its candidates,
LEMMA SnapshotStep ==
  ASSUME IInv, NEW g \in Slots, Snapshot(g)
  PROVE  IInv'
<1>1. PICK c \in Candidates :
        Goto(g, IF c = <<>> THEN Idle ELSE Step("append", NoVideo, c))
  BY DEF Snapshot
<1>2. (IF c = <<>> THEN Idle ELSE Step("append", NoVideo, c)) \in Steps
  BY IdleIsStep DEF Step, Steps
<1>3. slot' \in [Slots -> Steps]
  BY <1>1, <1>2, GotoKeepsType DEF IInv
<1>4. quiet = FALSE
  BY DEF IInv, QuietInv, Snapshot, At, OnItsWay, TypeOK
<1> QED
  BY <1>3, <1>4 DEF IInv, TypeOK, NextIsHead, HeadOrNone, QuietInv, Snapshot

\* one that appends them, as many as fit by then,
LEMMA AppendStep ==
  ASSUME IInv, NEW g \in Slots, AppendRelated(g)
  PROVE  IInv'
<1> DEFINE c    == slot[g].cand
           room == MaxPool - Len(pool)
           fit  == SubSeq(c, 1, Smaller(room, Len(c)))
           more == [i \in DOMAIN fit |-> Minimal(fit[i])]
<1>0. /\ At(g, "append") /\ pool' = pool \o more /\ quiet' = quiet /\ plays' = plays
      /\ autoplayOn' = autoplayOn
      /\ \/ /\ nextAutoplay = NoTrack /\ more # <<>>
            /\ nextAutoplay' = Head(more) /\ Goto(g, Step("head", NoVideo, <<>>))
         \/ /\ ~(nextAutoplay = NoTrack /\ more # <<>>)
            /\ nextAutoplay' = nextAutoplay /\ Goto(g, Idle)
  BY DEF AppendRelated, AppendCandidates
<1>1. /\ c \in Seq(Videos) /\ pool \in Seq(Tracks) /\ Len(pool) \in 0 .. MaxPool
  BY CandidateIsSeq, LenProperties, Constants DEF IInv, TypeOK, Steps
<1>2. /\ Smaller(room, Len(c)) \in 0 .. Len(c) /\ Smaller(room, Len(c)) <= room
  BY <1>1, Constants, LenProperties DEF Smaller
<1>3. fit \in Seq(Videos) /\ Len(fit) = Smaller(room, Len(c))
  BY <1>1, <1>2
<1> HIDE DEF fit
<1>4. more \in Seq(Tracks) /\ Len(more) = Len(fit)
  <2>1. DOMAIN fit = 1 .. Len(fit) /\ Len(fit) \in Nat
    BY <1>3, LenProperties
  <2>2. ASSUME NEW i \in DOMAIN fit PROVE Minimal(fit[i]) \in Tracks
    <3>1. fit[i] \in Videos
      BY <1>3, <2>1, ElementOfSeq
    <3> QED
      BY <3>1 DEF Minimal, Tracks
  <2>3. more \in [1 .. Len(fit) -> Tracks]
    BY <2>1, <2>2
  <2>4. more \in Seq(Tracks)
    BY <2>1, <2>3, SeqDef
  <2>5. Len(more) \in Nat /\ DOMAIN more = 1 .. Len(more)
    BY <2>4, LenProperties
  <2>6. 1 .. Len(more) = 1 .. Len(fit)
    BY <2>3, <2>5
  <2> QED
    BY <2>1, <2>4, <2>5, <2>6
<1> HIDE DEF more, room, c
<1>5. pool' \in Seq(Tracks) /\ Len(pool') = Len(pool) + Len(more)
  BY <1>0, <1>1, <1>4, ConcatProperties
<1>6. Len(pool') <= MaxPool
  BY <1>1, <1>2, <1>3, <1>4, <1>5, Constants DEF room
<1>7. nextAutoplay' \in Tracks \cup {NoTrack} /\ NextIsHead'
  <2>1. CASE pool = <<>>
    <3>1. nextAutoplay = NoTrack /\ pool' = more
      BY <1>0, <1>4, <2>1, ConcatEmptySeq DEF IInv, NextIsHead, HeadOrNone
    <3> QED
      BY <1>0, <1>4, <3>1, HeadTailProperties DEF NextIsHead, HeadOrNone
  <2>2. CASE pool # <<>>
    <3>1. nextAutoplay = Head(pool) /\ Head(pool) \in Tracks
      BY <1>1, <2>2, HeadTailProperties DEF IInv, NextIsHead, HeadOrNone
    <3>2. nextAutoplay # NoTrack /\ nextAutoplay' = nextAutoplay
      BY <1>0, <3>1, TrackIsNotNone
    <3>3. pool' # <<>> /\ Head(pool') = Head(pool)
      BY <1>0, <1>1, <1>4, <2>2
    <3> QED
      BY <3>1, <3>2, <3>3 DEF NextIsHead, HeadOrNone
  <2> QED
    BY <2>1, <2>2
<1>8. slot' \in [Slots -> Steps]
  <2>1. Step("head", NoVideo, <<>>) \in Steps
    BY EmptyIsCandidate DEF Step, Steps
  <2> QED
    BY <1>0, <2>1, IdleIsStep, GotoKeepsType DEF IInv
<1>9. quiet' = FALSE
  BY <1>0 DEF IInv, QuietInv, At, OnItsWay, TypeOK
<1> QED
  BY <1>0, <1>5, <1>6, <1>7, <1>8, <1>9 DEF IInv, TypeOK, QuietInv

\* enrichNextAutoplay that reads the head, or does not resolve it,
LEMMA ReadStep ==
  ASSUME IInv, NEW g \in Slots, ReadHead(g) \/ ResolveFails(g)
  PROVE  IInv'
<1>1. PICK s \in Steps : Goto(g, s) /\ s.at \in {"idle", "head", "resolve"}
  <2>1. CASE ResolveFails(g)
    BY <2>1, IdleIsStep DEF ResolveFails, Idle, Step
  <2>2. CASE ReadHead(g) /\ pool # <<>> /\ ~Head(pool).known
    <3>0. Head(pool) \in Tracks
      BY <2>2, HeadTailProperties DEF IInv, TypeOK
    <3>1. Head(pool).vid \in Videos
      BY <3>0 DEF Tracks
    <3>2. Step("resolve", Head(pool).vid, <<>>) \in Steps
      BY <3>1, EmptyIsCandidate DEF Step, Steps
    <3> QED
      BY <2>2, <3>2 DEF ReadHead, Step
  <2>3. CASE ReadHead(g) /\ (pool = <<>> \/ Head(pool).known)
    BY <2>3, IdleIsStep DEF ReadHead, Idle, Step
  <2> QED
    BY <2>1, <2>2, <2>3
<1>2. /\ pool' = pool /\ nextAutoplay' = nextAutoplay /\ autoplayOn' = autoplayOn
      /\ plays' = plays /\ quiet' = quiet
  BY DEF ReadHead, ResolveFails
<1>3. slot' \in [Slots -> Steps] /\ QuietInv'
  BY <1>1, <1>2, GotoKeepsType, QuietStays DEF IInv
<1> QED
  BY <1>2, <1>3 DEF IInv, TypeOK, NextIsHead, HeadOrNone

\* drops it,
LEMMA DropStep ==
  ASSUME IInv, NEW g \in Slots, DropLong(g)
  PROVE  IInv'
<1> DEFINE rest == IF StillHead(g) THEN Tail(pool) ELSE pool
           s == IF rest = <<>> THEN Idle ELSE Step("head", NoVideo, <<>>)
<1>1. SetPool(rest) /\ Goto(g, s) /\ autoplayOn' = autoplayOn /\ plays' = plays /\ quiet' = quiet
  BY DEF DropLong
<1>2. rest \in Seq(Tracks) /\ Len(rest) <= MaxPool /\ (pool = <<>> => rest = <<>>)
  BY HeadTailProperties, LenProperties, Constants DEF IInv, TypeOK, StillHead
<1>3. s \in Steps /\ s.at \in {"idle", "head", "resolve"}
  BY IdleIsStep, EmptyIsCandidate DEF Idle, Step, Steps
<1> HIDE DEF rest, s
<1>4. /\ pool' \in Seq(Tracks) /\ Len(pool') <= MaxPool /\ nextAutoplay' \in Tracks \cup {NoTrack}
      /\ NextIsHead' /\ pool' = rest
  BY <1>1, <1>2, SetPoolIsSound
<1>5. slot' \in [Slots -> Steps] /\ QuietInv'
  BY <1>1, <1>2, <1>3, <1>4, GotoKeepsType, QuietStays DEF IInv
<1> QED
  BY <1>1, <1>4, <1>5 DEF IInv, TypeOK

\* or stores the full track in pool and nextAutoplay.
LEMMA StoreStep ==
  ASSUME IInv, NEW g \in Slots, StoreFull(g)
  PROVE  IInv'
<1>1. PICK full \in Tracks :
        /\ pool' = IF StillHead(g) THEN <<full>> \o Tail(pool) ELSE pool
        /\ nextAutoplay' = IF nextAutoplay # NoTrack /\ nextAutoplay.vid = slot[g].vid
                           THEN full ELSE nextAutoplay
  BY DEF StoreFull, Tracks
<1>2. Goto(g, Idle) /\ autoplayOn' = autoplayOn /\ plays' = plays /\ quiet' = quiet
  BY DEF StoreFull
<1>3. slot' \in [Slots -> Steps]
  BY <1>2, IdleIsStep, GotoKeepsType DEF IInv
<1>4. CASE StillHead(g)
  <2>1. pool # <<>> /\ pool \in Seq(Tracks) /\ Len(pool) <= MaxPool
    BY <1>4 DEF StillHead, IInv, TypeOK
  <2>2. Tail(pool) \in Seq(Tracks) /\ Len(Tail(pool)) = Len(pool) - 1 /\ Head(pool) \in Tracks
    BY <2>1, HeadTailProperties
  <2>3. /\ pool' \in Seq(Tracks) /\ Len(pool') = Len(pool) /\ pool' # <<>> /\ Head(pool') = full
    BY <1>1, <1>4, <2>1, <2>2
  <2>4. nextAutoplay = Head(pool) /\ nextAutoplay # NoTrack
    BY <2>1, <2>2, TrackIsNotNone DEF IInv, NextIsHead, HeadOrNone
  <2>5. nextAutoplay' = full
    BY <1>1, <1>4, <2>4 DEF StillHead
  <2>6. NextIsHead'
    BY <2>3, <2>5 DEF NextIsHead, HeadOrNone
  <2>7. QuietInv'
    BY <1>2, <2>1, IdleIsStep, QuietStays DEF IInv, QuietInv, Idle, Step
  <2> QED
    BY <1>2, <1>3, <2>1, <2>3, <2>5, <2>6, <2>7 DEF IInv, TypeOK
<1>5. CASE ~StillHead(g)
  <2>1. pool' = pool
    BY <1>1, <1>5
  <2>2. nextAutoplay' = nextAutoplay
    <3>1. CASE pool = <<>>
      BY <1>1, <3>1 DEF IInv, NextIsHead, HeadOrNone
    <3>2. CASE pool # <<>>
      BY <1>1, <1>5, <3>2 DEF IInv, NextIsHead, HeadOrNone, StillHead
    <3> QED
      BY <3>1, <3>2
  <2>3. QuietInv'
    BY <1>2, <2>1, IdleIsStep, QuietStays DEF IInv, Idle, Step
  <2> QED
    BY <1>2, <1>3, <2>1, <2>2, <2>3 DEF IInv, TypeOK, NextIsHead, HeadOrNone
<1> QED
  BY <1>4, <1>5

\* The invariant holds in every state.
LEMMA Invariance == Spec => []IInv
<1>1. IInv /\ [Next]_vars => IInv'
  <2> SUFFICES ASSUME IInv, [Next]_vars PROVE IInv'
    OBVIOUS
  <2>1. CASE UNCHANGED vars
    BY <2>1 DEF IInv, TypeOK, NextIsHead, HeadOrNone, QuietInv, OnItsWay, vars
  <2>2. CASE Next
    BY <2>2, PlayStep, CommandStep, SnapshotStep, AppendStep, ReadStep, DropStep, StoreStep
       DEF Next, EnrichRecommendations, EnrichNextAutoplay
  <2> QED
    BY <2>1, <2>2
<1> QED
  BY <1>1, InitInv, PTL DEF Spec

\* Every variable keeps its type, and the pool its limit.
THEOREM AutoplayTypes == Spec => []TypeOK
  BY Invariance, PTL DEF IInv

\* What the clients are shown as the next track is what advanceQueue takes.
THEOREM ShownIsTaken == Spec => []NextIsHead
  BY Invariance, PTL DEF IInv

\* After a stop that met no enrichment on its way the pool stays empty until a
\* client asks for a track.
THEOREM StopEndsTheMusic == Spec => []StopIsKept
<1>1. IInv => StopIsKept
  BY DEF IInv, QuietInv, StopIsKept
<1> QED
  BY <1>1, Invariance, PTL
=================================================================================
