--------------------------- MODULE ChunkRingProofs ---------------------------
(***************************************************************************)
(* Theorems about ChunkRing, for every capacity, set of readers and chunk   *)
(* the stream starts at.                                                   *)
(***************************************************************************)
EXTENDS ChunkRing, TLAPS

-------------------------------------------------------------------------------
(* Slots: two indices less than a ring apart are in different slots *)

\* An index is a whole number of turns round the ring and its slot.
LEMMA Euclid ==
  ASSUME NEW c \in Nat \ {0}, NEW i \in Nat
  PROVE  \E q \in Nat : i = c * q + (i % c)
<1> WITNESS i \div c \in Nat
<1> QED OBVIOUS

\* One turn or more is at least the length of the ring.
LEMMA AtLeastOnce ==
  ASSUME NEW c \in Nat \ {0}, NEW m \in Int, m >= 1
  PROVE  c * m >= c
OBVIOUS

\* Two indices less than Capacity apart, as those of one window are, differ in
\* index % Capacity: Add overwrites no chunk of the window but the oldest.
LEMMA DifferentSlots ==
  ASSUME NEW c \in Nat \ {0}, NEW i \in Nat, NEW k \in Nat, k < i, i - k < c
  PROVE  k % c # i % c
<1> SUFFICES ASSUME k % c = i % c PROVE FALSE
  OBVIOUS
<1>1. PICK q \in Nat : i = c * q + (i % c)
  BY Euclid
<1>2. PICK p \in Nat : k = c * p + (k % c)
  BY Euclid
<1>3. i % c \in Int
  OBVIOUS
<1>4. i - k = c * q - c * p
  BY <1>1, <1>2, <1>3
<1>5. c * q - c * p = c * (q - p)
  OBVIOUS
<1>6. q - p >= 1 => c * (q - p) >= c
  BY AtLeastOnce
<1>7. q - p < 1 => c * (q - p) <= 0
  OBVIOUS
<1> QED BY <1>4, <1>5, <1>6, <1>7

\* index % Capacity is a slot.
LEMMA SlotOf ==
  ASSUME NEW i \in Nat
  PROVE  i % Capacity \in 0 .. Capacity - 1
BY ChunkRingAssumption

-------------------------------------------------------------------------------
(* Types *)

\* The type invariant: filled never exceeds the capacity, and every slot holds a
\* chunk whose index the producer has reached.
THEOREM RingTypes == Spec => []TypeOK
<1> USE ChunkRingAssumption DEF Indices
<1>1. Init => TypeOK
  <2> SUFFICES ASSUME Init PROVE TypeOK
    OBVIOUS
  <2>1. NoChunk \in Chunks
    BY DEF Chunks
  <2>2. slots \in [0 .. Capacity - 1 -> Chunks]
    BY <2>1 DEF Init
  <2>3. /\ nextWrite \in 0 .. MaxIndex + 1
        /\ filled \in 0 .. Capacity
        /\ index \in 0 .. MaxIndex + 1
        /\ want \in [Consumers -> Indices]
    BY DEF Init
  <2> QED BY <2>2, <2>3 DEF Init, TypeOK
<1>2. TypeOK /\ [Next]_vars => TypeOK'
  <2> SUFFICES ASSUME TypeOK, [Next]_vars PROVE TypeOK'
    OBVIOUS
  <2> USE DEF TypeOK, ring, producing, reading
  <2>1. CASE CheckContext
    BY <2>1 DEF CheckContext
  <2>2. CASE ReadFull
    <3>1. ASSUME NEW last \in BOOLEAN, index <= MaxIndex, Add(index, last)
          PROVE  /\ slots' \in [0 .. Capacity - 1 -> Chunks]
                 /\ nextWrite' \in 0 .. MaxIndex + 1
                 /\ filled' \in 0 .. Capacity
                 /\ done' \in BOOLEAN
                 /\ at' \in [Consumers -> {"out", "round", "wait"}]
      <4>1. index % Capacity \in 0 .. Capacity - 1 /\ [index |-> index, last |-> last] \in Chunks
        BY <3>1, SlotOf DEF Chunks
      <4> QED BY <3>1, <4>1 DEF Add, Broadcast
    <3>2. CASE index <= MaxIndex /\ (Add(index, FALSE) \/ Add(index, TRUE)) /\ index' = index + 1
      <4>1. PICK last \in BOOLEAN : Add(index, last)
        BY <3>2
      <4>2. /\ producer' \in {"check", "read", "eof", "broken", "gone"}
            /\ UNCHANGED <<fromChunk, stopped, want, left>>
        BY <2>2 DEF ReadFull
      <4>3. index' \in 0 .. MaxIndex + 1
        BY <3>2
      <4> HIDE DEF Indices
      <4> QED BY <3>1, <3>2, <4>1, <4>2, <4>3
    <3>3. CASE UNCHANGED <<ring, index, at>>
      BY <2>2, <3>3 DEF ReadFull
    <3> QED BY <2>2, <3>2, <3>3 DEF ReadFull
  <2>3. CASE Done
    BY <2>3 DEF Done, Broadcast
  <2>4. CASE StopProducer
    BY <2>4 DEF StopProducer
  <2>5. ASSUME NEW c \in Consumers, GetRound(c) PROVE TypeOK'
    BY <2>5 DEF GetRound, Return
  <2>6. ASSUME NEW c \in Consumers, Cancel(c) PROVE TypeOK'
    BY <2>6 DEF Cancel
  <2>7. ASSUME NEW c \in Consumers, NEW i \in Indices, Get(c, i) PROVE TypeOK'
    BY <2>7 DEF Get
  <2>8. CASE UNCHANGED vars
    BY <2>8 DEF vars
  <2> QED BY <2>1, <2>2, <2>3, <2>4, <2>5, <2>6, <2>7, <2>8 DEF Next, RunProducer, FillRing
<1> QED BY <1>1, <1>2, PTL DEF Spec

-------------------------------------------------------------------------------
(* The window *)

\* The slots of the window after an Add: the new chunk is in its slot, and no
\* other chunk of the window was there.
LEMMA AddStores ==
  ASSUME TypeOK, RingInv, index <= MaxIndex, NEW last, Add(index, last)
  PROVE  WindowIsStored'
<1> SUFFICES ASSUME NEW i \in nextWrite' - filled' .. nextWrite' - 1
             PROVE  slots'[i % Capacity].index = i
  BY DEF WindowIsStored
<1>1. /\ index \in Nat /\ filled \in 0 .. Capacity /\ nextWrite \in Nat
      /\ nextWrite' = index + 1
      /\ filled' = IF filled < Capacity THEN filled + 1 ELSE filled
      /\ slots' = [slots EXCEPT ![index % Capacity] = [index |-> index, last |-> last]]
      /\ filled > 0 => nextWrite = index
      /\ filled = 0 => nextWrite = 0
      /\ filled <= nextWrite
  BY ChunkRingAssumption DEF TypeOK, RingInv, Add
<1>2. i \in Nat /\ i <= index /\ index - i < Capacity
  BY <1>1, ChunkRingAssumption
<1>3. index % Capacity \in 0 .. Capacity - 1 /\ i % Capacity \in 0 .. Capacity - 1
  BY <1>1, <1>2, SlotOf
<1>4. DOMAIN slots = 0 .. Capacity - 1
  BY DEF TypeOK
<1>5. CASE i = index
  BY <1>1, <1>3, <1>4, <1>5
<1>6. CASE i < index
  <2>1. i \in nextWrite - filled .. nextWrite - 1
    BY <1>1, <1>2, <1>6, ChunkRingAssumption
  <2>2. slots[i % Capacity].index = i
    BY <2>1 DEF RingInv, WindowIsStored
  <2>3. i % Capacity # index % Capacity
    BY <1>1, <1>2, <1>6, DifferentSlots, ChunkRingAssumption
  <2> QED BY <1>1, <1>3, <1>4, <2>2, <2>3
<1> QED BY <1>1, <1>2, <1>5, <1>6

\* Steps that leave the ring and fillRing's index alone.
LEMMA RingKept ==
  ASSUME RingInv, UNCHANGED <<ring, index>>,
         done' <=> producer' = "gone",
         reply' = [c \in Consumers |-> reply'[c]],
         \A c \in Consumers : at'[c] # "out" => reply'[c] = Window!NoReply
  PROVE  RingInv'
BY DEF RingInv, WindowIsStored, ring

\* RingInv holds for the producer of startProducer and any number of readers.
LEMMA RingInvariant == Spec => []RingInv
<1>1. Init => RingInv
  BY DEF Init, RingInv, WindowIsStored
<1>2. TypeOK /\ RingInv /\ [Next]_vars => RingInv'
  <2> SUFFICES ASSUME TypeOK, RingInv, [Next]_vars PROVE RingInv'
    OBVIOUS
  <2>0. /\ reply = [c \in Consumers |-> reply[c]]
        /\ \A c \in Consumers : at[c] # "out" => reply[c] = Window!NoReply
        /\ done <=> producer = "gone"
    BY DEF RingInv
  <2> USE DEF ring, producing, reading
  <2>1. CASE CheckContext
    BY <2>0, <2>1, RingKept DEF CheckContext
  <2>2. CASE ReadFull
    <3>1. ASSUME NEW last \in BOOLEAN, index <= MaxIndex, Add(index, last), index' = index + 1
          PROVE  RingInv'
      <4>1. WindowIsStored'
        BY <3>1, AddStores
      <4>2. /\ filled' > 0 => nextWrite' = index'
            /\ filled' = 0 => nextWrite' = 0
            /\ filled' <= nextWrite'
        BY <3>1, ChunkRingAssumption DEF Add, TypeOK, RingInv
      <4>3. done' <=> producer' = "gone"
        BY <2>0, <2>2, <3>1 DEF ReadFull, Add
      <4>4. /\ reply' = reply
            /\ \A c \in Consumers : at'[c] # "out" => at[c] # "out"
        BY <2>2, <3>1 DEF ReadFull, Add, Broadcast
      <4> QED BY <2>0, <4>1, <4>2, <4>3, <4>4 DEF RingInv
    <3>2. CASE UNCHANGED <<ring, index, at>> /\ producer' \in {"eof", "broken"}
      BY <2>0, <2>2, <3>2, RingKept DEF ReadFull
    <3> QED BY <2>2, <3>1, <3>2 DEF ReadFull
  <2>3. CASE Done
    BY <2>0, <2>3 DEF Done, Broadcast, RingInv, WindowIsStored
  <2>4. CASE StopProducer
    BY <2>0, <2>4, RingKept DEF StopProducer
  <2>5. ASSUME NEW c \in Consumers, GetRound(c) PROVE RingInv'
    <3>1. UNCHANGED <<ring, index, done, producer>>
      BY <2>5 DEF GetRound
    <3>2. reply' = [b \in Consumers |-> reply'[b]]
      BY <2>0, <2>5 DEF GetRound, Return
    <3>3. \A b \in Consumers : at'[b] # "out" => reply'[b] = Window!NoReply
      <4>1. CASE \E r : Return(c, r)
        BY <2>0, <4>1 DEF Return, TypeOK
      <4>2. CASE at' = [at EXCEPT ![c] = "wait"] /\ UNCHANGED reply
        BY <2>0, <2>5, <4>2 DEF GetRound, TypeOK
      <4> QED BY <2>5, <4>1, <4>2 DEF GetRound
    <3> QED BY <2>0, <3>1, <3>2, <3>3, RingKept
  <2>6. ASSUME NEW c \in Consumers, Cancel(c) PROVE RingInv'
    BY <2>0, <2>6, RingKept DEF Cancel
  <2>7. ASSUME NEW c \in Consumers, NEW i \in Indices, Get(c, i) PROVE RingInv'
    <3>1. reply' = [b \in Consumers |-> reply'[b]]
      BY <2>0, <2>7 DEF Get
    <3>2. \A b \in Consumers : at'[b] # "out" => reply'[b] = Window!NoReply
      BY <2>0, <2>7 DEF Get, TypeOK
    <3> QED BY <2>0, <2>7, <3>1, <3>2, RingKept DEF Get
  <2>8. CASE UNCHANGED vars
    BY <2>0, <2>8, RingKept DEF vars
  <2> QED BY <2>1, <2>2, <2>3, <2>4, <2>5, <2>6, <2>7, <2>8 DEF Next, RunProducer, FillRing
<1> QED BY <1>1, <1>2, RingTypes, PTL DEF Spec

\* For every capacity and wherever the stream starts: the index the caller asks
\* for is what Get finds in the slot, for every index of the window.
THEOREM WindowStored == Spec => []WindowIsStored
<1>1. RingInv => WindowIsStored
  BY DEF RingInv
<1> QED BY <1>1, RingInvariant, PTL

-------------------------------------------------------------------------------
(* Wakeups *)

\* Whatever the producer does, no reader sleeps once its chunk is in the ring,
\* has been evicted or will never come: Add and Done wake every sleeper.
THEOREM NoSleeperIsForgotten == Spec => []SleepersHaveToWait
<1>1. Init => SleepersHaveToWait
  BY DEF Init, SleepersHaveToWait
<1>2. TypeOK /\ RingInv /\ SleepersHaveToWait /\ [Next]_vars => SleepersHaveToWait'
  <2> SUFFICES ASSUME TypeOK, RingInv, SleepersHaveToWait, [Next]_vars PROVE SleepersHaveToWait'
    OBVIOUS
  <2> USE DEF SleepersHaveToWait, ring, producing, reading
  <2>1. ASSUME Broadcast PROVE \A c \in Consumers : at'[c] # "wait"
    BY <2>1 DEF Broadcast
  <2>2. CASE CheckContext
    BY <2>2 DEF CheckContext
  <2>3. CASE ReadFull
    BY <2>1, <2>3 DEF ReadFull, Add
  <2>4. CASE Done
    BY <2>1, <2>4 DEF Done
  <2>5. CASE StopProducer
    BY <2>5 DEF StopProducer
  <2>6. ASSUME NEW c \in Consumers, GetRound(c) PROVE SleepersHaveToWait'
    <3>1. \A b \in Consumers : b # c => at'[b] = at[b]
      BY <2>6 DEF GetRound, Return, TypeOK
    <3>2. at'[c] = "wait" => ~done /\ (filled = 0 \/ want[c] >= nextWrite)
      <4> SUFFICES ASSUME at'[c] = "wait" PROVE ~done /\ (filled = 0 \/ want[c] >= nextWrite)
        OBVIOUS
      <4>1. ~ \E r : Return(c, r)
        BY DEF Return, TypeOK
      <4>2. ~(filled > 0 /\ want[c] < nextWrite) /\ ~(done /\ want[c] >= nextWrite)
        BY <2>6, <4>1 DEF GetRound
      <4>3. filled \in Nat /\ nextWrite \in Nat /\ want[c] \in Nat /\ done \in BOOLEAN
        BY ChunkRingAssumption DEF TypeOK, Indices
      <4>4. filled = 0 => nextWrite = 0
        BY DEF RingInv
      <4> QED BY <4>2, <4>3, <4>4
    <3> QED BY <2>6, <3>1, <3>2 DEF GetRound
  <2>7. ASSUME NEW c \in Consumers, Cancel(c) \/ \E i \in Indices : Get(c, i) PROVE SleepersHaveToWait'
    BY <2>7 DEF Cancel, Get, TypeOK
  <2>8. CASE UNCHANGED vars
    BY <2>8 DEF vars
  <2> QED BY <2>2, <2>3, <2>4, <2>5, <2>6, <2>7, <2>8 DEF Next, RunProducer, FillRing
<1> QED BY <1>1, <1>2, RingTypes, RingInvariant, PTL DEF Spec

-------------------------------------------------------------------------------
(* The ring implements the sliding window *)

\* The window after an Add: the last Capacity chunks, the new one included.
LEMMA AddProduces ==
  ASSUME TypeOK, RingInv, producer = "read", index <= MaxIndex, NEW last, Add(index, last),
         UNCHANGED reply
  PROVE  Window!Produce(index)
<1>1. /\ index \in Nat /\ filled \in 0 .. Capacity /\ nextWrite \in Nat
      /\ nextWrite' = index + 1
      /\ filled' = IF filled < Capacity THEN filled + 1 ELSE filled
      /\ filled > 0 => nextWrite = index
      /\ filled <= nextWrite
      /\ ~done /\ done' = done
  BY ChunkRingAssumption DEF TypeOK, RingInv, Add
<1> DEFINE old == nextWrite - filled .. nextWrite - 1
           new == nextWrite' - filled' .. nextWrite' - 1
<1>2. old = {} \/ (index - 1 \in old /\ index \notin old)
  BY <1>1
<1>3. new = {k \in old \cup {index} : k > index - Capacity}
  <2>1. \A k : k \in new <=> k \in old \cup {index} /\ k > index - Capacity
    BY <1>1, ChunkRingAssumption
  <2> QED BY <2>1
<1> QED BY <1>1, <1>2, <1>3 DEF Window!Produce

\* Each return of Get is an answer of the window at that moment.
LEMMA ReturnAnswers ==
  ASSUME TypeOK, RingInv, NEW c \in Consumers, GetRound(c)
  PROVE  [Window!WindowNext]_(Window!windowVars)
<1> DEFINE i == want[c]
<1>1. i \in Indices /\ i \in Nat /\ nextWrite \in Nat /\ filled \in Nat /\ filled <= nextWrite
      /\ at[c] = "round" /\ reply[c] = Window!NoReply
      /\ UNCHANGED <<nextWrite, filled, done, slots>>
  BY ChunkRingAssumption DEF TypeOK, RingInv, Indices, GetRound, ring
<1> DEFINE kept == nextWrite - filled .. nextWrite - 1
<1>2. kept' = kept /\ done' = done
  BY <1>1
<1>3. SUFFICES ASSUME reply' # reply
               PROVE  \/ i \in kept /\ reply' = [reply EXCEPT ![c] = Window!Chunk(i)]
                      \/ kept # {} /\ (\A k \in kept : i < k) /\ reply' = [reply EXCEPT ![c] = Window!Evicted]
                      \/ done /\ (\A k \in kept : i > k) /\ reply' = [reply EXCEPT ![c] = Window!AtEnd]
                      \/ reply' = [reply EXCEPT ![c] = Window!Left]
  BY <1>1, <1>2 DEF Window!WindowNext, Window!Answer, Window!windowVars
<1>4. CASE c \in left
  BY <1>3, <1>4 DEF GetRound, Return
<1>5. CASE c \notin left /\ filled > 0 /\ i < windowStart
  <2>1. kept # {} /\ \A k \in kept : i < k
    BY <1>1, <1>5 DEF windowStart
  <2> QED BY <1>3, <1>5, <2>1 DEF GetRound, Return
<1>6. CASE c \notin left /\ ~(filled > 0 /\ i < windowStart) /\ filled > 0 /\ i < nextWrite
  <2>1. i \in kept
    BY <1>1, <1>6 DEF windowStart
  <2>2. slots[i % Capacity].index = i
    BY <2>1 DEF RingInv, WindowIsStored
  <2> QED BY <1>3, <1>6, <2>1, <2>2 DEF GetRound, Return
<1>7. CASE /\ c \notin left
           /\ ~(filled > 0 /\ i < windowStart) /\ ~(filled > 0 /\ i < nextWrite)
           /\ done /\ i >= nextWrite
  <2>1. \A k \in kept : i > k
    BY <1>1, <1>7
  <2> QED BY <1>3, <1>7, <2>1 DEF GetRound, Return
<1>8. CASE /\ c \notin left
           /\ ~(filled > 0 /\ i < windowStart) /\ ~(filled > 0 /\ i < nextWrite)
           /\ ~(done /\ i >= nextWrite)
  BY <1>3, <1>8 DEF GetRound
<1> QED BY <1>4, <1>5, <1>6, <1>7, <1>8

\* Every behaviour of the ring is one of the sliding window: no reader is given
\* another chunk than it asked for, told that a chunk is gone that is kept, or
\* that the stream has ended before a chunk that was produced.
THEOREM RingIsWindow == Spec => ImplementsWindow
<1>1. Init => Window!WindowInit
  BY DEF Init, Window!WindowInit
<1>2. TypeOK /\ RingInv /\ [Next]_vars => [Window!WindowNext]_(Window!windowVars)
  <2> SUFFICES ASSUME TypeOK, RingInv, [Next]_vars PROVE [Window!WindowNext]_(Window!windowVars)
    OBVIOUS
  <2>1. ASSUME UNCHANGED <<ring, reply>> PROVE UNCHANGED Window!windowVars
    BY <2>1 DEF ring, Window!windowVars
  <2> USE DEF producing, reading
  <2>2. CASE CheckContext
    BY <2>1, <2>2 DEF CheckContext
  <2>3. CASE ReadFull
    <3>1. ASSUME NEW last \in BOOLEAN, index <= MaxIndex, Add(index, last) PROVE Window!WindowNext
      <4>1. Window!Produce(index)
        BY <2>3, <3>1, AddProduces DEF ReadFull
      <4>2. index \in Indices
        BY <3>1, ChunkRingAssumption DEF TypeOK, Indices
      <4> QED BY <4>1, <4>2 DEF Window!WindowNext
    <3>2. CASE UNCHANGED <<ring, index, at>>
      BY <2>1, <2>3, <3>2 DEF ReadFull
    <3> QED BY <2>3, <3>1, <3>2 DEF ReadFull
  <2>4. CASE Done
    BY <2>4 DEF Done, Window!WindowNext, Window!Close
  <2>5. CASE StopProducer
    BY <2>1, <2>5 DEF StopProducer
  <2>6. ASSUME NEW c \in Consumers, GetRound(c) PROVE [Window!WindowNext]_(Window!windowVars)
    BY <2>6, ReturnAnswers
  <2>7. ASSUME NEW c \in Consumers, Cancel(c) PROVE UNCHANGED Window!windowVars
    BY <2>1, <2>7 DEF Cancel
  <2>8. ASSUME NEW c \in Consumers, NEW i \in Indices, Get(c, i) PROVE Window!WindowNext
    BY <2>8 DEF Get, ring, Window!WindowNext, Window!Ask
  <2>9. CASE UNCHANGED vars
    BY <2>1, <2>9 DEF vars, ring
  <2> QED BY <2>2, <2>3, <2>4, <2>5, <2>6, <2>7, <2>8, <2>9 DEF Next, RunProducer, FillRing
<1> QED BY <1>1, <1>2, RingTypes, RingInvariant, PTL DEF Spec, ImplementsWindow, Window!WindowSpec
===============================================================================
