---------------------------- MODULE LogStreamProofs -----------------------------
(***************************************************************************)
(* The log buffer and its streams, for any ring, any channels, any number  *)
(* of handlers and slots, any queries, and any number of events.           *)
(*                                                                         *)
(* Everything a stream holds is said by the IDs: the i-th of size events   *)
(* in the ring, of a snapshot, of a channel is a certain event of the      *)
(* history `levels`.  The order and the completeness of what is written    *)
(* are then arithmetic on these IDs.                                       *)
(***************************************************************************)
EXTENDS LogStream, SequenceTheorems, FiniteSetTheorems, TLAPS

\* The event with ID n in a history of levels.
EventOf(n, history) == [id |-> n, level |-> history[n]]

RingHolds ==
  /\ Len(levels) = nextID
  /\ size = IF nextID < Capacity THEN nextID ELSE Capacity
  /\ \A i \in 1 .. size : Ring[i] = EventOf(nextID - size + i, levels)

-----------------------------------------------------------------------------
(* What holds of one handler.                                                *)

Written(h, n) == \E i \in DOMAIN sent[h] : sent[h][i] = n

\* The last event the ring had lost when h took its snapshot.
LostBefore(h) == IF snapAt[h] < Capacity THEN 0 ELSE snapAt[h] - Capacity

\* Of the events up to n those that h wants are written, or are in its hole.
Complete(h, n) ==
  \A m \in 1 .. n :
    m > asked[h].since /\ levels[m] >= asked[h].min =>
      Written(h, m) \/ m <= LostBefore(h) \/ (snapAt[h] < m /\ m <= joinedAt[h])

SentInv(h) ==
  /\ \A i \in DOMAIN sent[h] :
       /\ sent[h][i] \in 1 .. nextID
       /\ sent[h][i] > asked[h].since
       /\ i > 1 => sent[h][i - 1] < sent[h][i]
       /\ levels[sent[h][i]] >= asked[h].min
  /\ since[h] = IF sent[h] = <<>> THEN asked[h].since ELSE sent[h][Len(sent[h])]
  /\ sent[h] # <<>> => Complete(h, since[h])

ReplayInv(h) ==
  phase[h] = "replay" =>
    /\ snapAt[h] <= nextID
    /\ sent[h] # <<>> => since[h] <= snapAt[h]
    /\ \A i \in DOMAIN pending[h] :
         /\ LostBefore(h) + i \in 1 .. snapAt[h]
         /\ pending[h][i] = EventOf(LostBefore(h) + i, levels)
         /\ LostBefore(h) + i > since[h]
         /\ levels[LostBefore(h) + i] >= asked[h].min
    /\ \A n \in 1 .. snapAt[h] :
         n > asked[h].since /\ levels[n] >= asked[h].min =>
           Written(h, n) \/ n <= LostBefore(h) \/ n - LostBefore(h) \in DOMAIN pending[h]

\* heard is the ID of the last event that h took from its channel, or could
\* not have got.
Hears(h, heard) ==
  /\ joinedAt[h] <= heard /\ heard + Len(chan[h]) <= nextID
  /\ open[h] => heard + Len(chan[h]) = nextID
  /\ \A i \in DOMAIN chan[h] : chan[h][i] = EventOf(heard + i, levels)
  /\ sent[h] # <<>> => since[h] <= heard
  /\ Complete(h, heard)

LiveInv(h) == phase[h] = "live" => \E heard \in Nat : Hears(h, heard)

HandlerInv(h) == SentInv(h) /\ ReplayInv(h) /\ LiveInv(h)

\* A handler that has not asked has written nothing.
NewInv == \A h \in Handlers : phase[h] = "new" => sent[h] = <<>>

StreamInv ==
  /\ TypeOK
  /\ RingHolds
  /\ RegisteredIsOpen
  /\ SlotsBalanced
  /\ NewInv
  /\ \A h \in Handlers : HandlerInv(h)

-----------------------------------------------------------------------------
(* The ring.                                                                 *)

(* An index goes round the ring at most once.                                *)
LEMMA Wrap ==
  ASSUME NEW n \in 0 .. 2 * Capacity - 1
  PROVE  n % Capacity = IF n < Capacity THEN n ELSE n - Capacity
<1> Capacity \in Nat \ {0}
  BY LogAssumption
<1>1. CASE n < Capacity
  BY <1>1
<1>2. CASE n >= Capacity
  BY <1>2
<1>3. QED
  BY <1>1, <1>2

(* Store puts the new event behind the others, and drops the oldest of a     *)
(* full ring (logbuffer.go:51-59).                                           *)
LEMMA StoreRing ==
  ASSUME BufferTypeOK, NEW e \in Event, Store(e)
  PROVE  /\ events' \in [Slots -> Event] /\ start' \in Slots /\ size' \in 1 .. Capacity
         /\ size' = IF size < Capacity THEN size + 1 ELSE Capacity
         /\ Ring'[size'] = e
         /\ \A i \in 1 .. size' - 1 : Ring'[i] = Ring[i + size + 1 - size']
<1> DEFINE slot(i) == (start + i - 1) % Capacity
<1> Capacity \in Nat \ {0} /\ start \in 0 .. Capacity - 1 /\ size \in 0 .. Capacity
  BY LogAssumption DEF BufferTypeOK, Slots
<1>1. \A i \in 1 .. Capacity + 1 :
        slot(i) = IF start + i - 1 < Capacity THEN start + i - 1 ELSE start + i - 1 - Capacity
  BY Wrap
<1>2. \A i \in 1 .. Capacity + 1 : slot(i) \in Slots
  BY <1>1 DEF Slots
<1>3. \A i, j \in 1 .. Capacity : slot(i) = slot(j) => i = j
  BY <1>1
<1>4. slot(size + 1) = (start + size) % Capacity
  OBVIOUS
<1>5. events' = [events EXCEPT ![slot(size + 1)] = e]
  BY <1>4 DEF Store
<1> HIDE DEF slot
<1>6. events' \in [Slots -> Event] /\ events'[slot(size + 1)] = e
  <2>1. slot(size + 1) \in Slots
    BY <1>2
  <2>2. QED
    BY <1>5, <2>1 DEF BufferTypeOK
<1>7. \A i \in 1 .. Capacity + 1 :
        slot(i) # slot(size + 1) => events'[slot(i)] = events[slot(i)]
  BY <1>2, <1>5 DEF BufferTypeOK
<1>8. CASE size < Capacity
  <2>1. size' = size + 1 /\ start' = start
    BY <1>8 DEF Store
  <2>2. /\ \A i \in 1 .. size : Ring[i] = events[slot(i)]
        /\ \A i \in 1 .. size + 1 : Ring'[i] = events'[slot(i)]
    BY <2>1 DEF Ring, slot
  <2>3. ASSUME NEW i \in 1 .. size PROVE Ring'[i] = Ring[i]
    <3>1. slot(i) # slot(size + 1)
      BY <1>3, <1>8
    <3>2. QED
      BY <1>7, <2>2, <3>1
  <2>4. Ring'[size'] = e /\ start' \in Slots
    BY <1>6, <2>1, <2>2 DEF Slots
  <2>5. \A i \in 1 .. size' - 1 : i + size + 1 - size' = i /\ Ring'[i] = Ring[i]
    BY <2>1, <2>3
  <2>6. QED
    BY <1>6, <1>8, <2>1, <2>4, <2>5
<1>9. CASE size = Capacity
  <2>1. size' = Capacity /\ start' = (start + 1) % Capacity
    BY <1>9 DEF Store
  <2>2. start' = slot(2) /\ start' \in Slots
    BY <1>2, <2>1 DEF slot
  <2>3. \A i \in 1 .. Capacity : (start' + i - 1) % Capacity = slot(i + 1)
    BY <1>1, <2>2, Wrap DEF Slots
  <2>4. slot(Capacity + 1) = slot(size + 1)
    BY <1>9
  <2>5. /\ \A i \in 1 .. Capacity : Ring[i] = events[slot(i)]
        /\ \A i \in 1 .. Capacity : Ring'[i] = events'[slot(i + 1)]
    BY <1>9, <2>1, <2>3 DEF Ring, slot
  <2>6. \A i \in 1 .. Capacity - 1 : slot(i + 1) # slot(Capacity + 1)
    BY <1>1
  <2>7. ASSUME NEW i \in 1 .. Capacity - 1 PROVE Ring'[i] = Ring[i + 1]
    BY <1>7, <2>4, <2>5, <2>6
  <2>8. QED
    BY <1>6, <1>9, <2>1, <2>2, <2>4, <2>5, <2>7
<1>10. QED
  BY <1>8, <1>9

-----------------------------------------------------------------------------
(* The writer.                                                               *)

(* Of the history only the end changes.                                      *)
LEMMA HistoryStays ==
  ASSUME levels \in Seq(Nat), NEW level \in Nat, levels' = Append(levels, level)
  PROVE  /\ levels' \in Seq(Nat) /\ Len(levels') = Len(levels) + 1
         /\ levels'[Len(levels) + 1] = level
         /\ \A n \in 1 .. Len(levels) : levels'[n] = levels[n] /\ EventOf(n, levels') = EventOf(n, levels)
         /\ EventOf(Len(levels) + 1, levels') = [id |-> Len(levels) + 1, level |-> level]
<1>1. /\ levels' \in Seq(Nat) /\ Len(levels') = Len(levels) + 1
      /\ levels'[Len(levels) + 1] = level
      /\ \A n \in 1 .. Len(levels) : levels'[n] = levels[n]
  BY AppendProperties
<1>2. QED
  BY <1>1 DEF EventOf

LEMMA LogRing ==
  ASSUME TypeOK, RingHolds, NEW level \in Nat, levels' = Append(levels, level),
         AppendEvent(level)
  PROVE  RingHolds'
<1> DEFINE e == [id |-> nextID + 1, level |-> level]
<1>1. nextID' = nextID + 1 /\ Store(e) /\ e \in Event /\ nextID \in Nat
  BY DEF AppendEvent, TypeOK, BufferTypeOK, Event
<1>2. Len(levels) = nextID
  BY DEF RingHolds
<1>3. /\ Len(levels') = nextID + 1
      /\ \A n \in 1 .. nextID : EventOf(n, levels') = EventOf(n, levels)
      /\ EventOf(nextID + 1, levels') = e
  BY <1>2, HistoryStays DEF TypeOK
<1> HIDE DEF e
<1>4. /\ size' \in 1 .. Capacity
      /\ size' = IF size < Capacity THEN size + 1 ELSE Capacity
      /\ Ring'[size'] = e
      /\ \A i \in 1 .. size' - 1 : Ring'[i] = Ring[i + size + 1 - size']
  BY <1>1, StoreRing DEF TypeOK
<1>5. size \in 0 .. Capacity /\ Capacity \in Nat \ {0}
  BY LogAssumption DEF TypeOK, BufferTypeOK
<1>6. size' = IF nextID' < Capacity THEN nextID' ELSE Capacity
  BY <1>1, <1>4, <1>5 DEF RingHolds
<1>7. ASSUME NEW i \in 1 .. size' PROVE Ring'[i] = EventOf(nextID' - size' + i, levels')
  <2>1. CASE i = size'
    <3>1. nextID' - size' + i = nextID + 1
      BY <1>1, <1>4, <2>1
    <3>2. QED
      BY <1>3, <1>4, <2>1, <3>1
  <2>2. CASE i # size'
    <3>1. i \in 1 .. size' - 1 /\ i + size + 1 - size' \in 1 .. size
      BY <1>4, <1>5, <2>2
    <3>2. Ring'[i] = EventOf(nextID - size + (i + size + 1 - size'), levels)
      BY <1>4, <3>1 DEF RingHolds
    <3>3. nextID - size + (i + size + 1 - size') = nextID' - size' + i
      BY <1>1, <1>4, <1>5
    <3>4. nextID' - size' + i \in 1 .. nextID
      BY <1>1, <1>4, <1>5, <1>6, <3>1
    <3>5. EventOf(nextID' - size' + i, levels') = EventOf(nextID' - size' + i, levels)
      BY <1>3, <3>4
    <3>6. QED
      BY <3>2, <3>3, <3>5
  <2>3. QED
    BY <2>1, <2>2
<1>8. QED
  BY <1>1, <1>3, <1>6, <1>7 DEF RingHolds

(* A subscriber is closed when, and only when, it is removed                 *)
(* (logbuffer.go:61-68).                                                     *)
LEMMA PublishOpen ==
  ASSUME TypeOK, RegisteredIsOpen, NEW e \in Event, Publish(e)
  PROVE  /\ subs' \in SUBSET Subscribers /\ chan' \in [Subscribers -> Seq(Event)]
         /\ open' \in [Subscribers -> BOOLEAN]
         /\ RegisteredIsOpen'
         /\ \A s \in Subscribers :
              \/ open[s] /\ open'[s] /\ chan'[s] = Append(chan[s], e)
              \/ ~ open'[s] /\ chan'[s] = chan[s]
<1>1. /\ \A s \in Subscribers :
             /\ chan'[s] = IF s \in subs /\ HasRoom(s) THEN Append(chan[s], e) ELSE chan[s]
             /\ open'[s] = (open[s] /\ (s \in subs => HasRoom(s)))
             /\ chan[s] \in Seq(Event) /\ open[s] \in BOOLEAN
      /\ subs' = {s \in subs : HasRoom(s)} /\ subs \subseteq Subscribers
  BY DEF Publish, TypeOK, BufferTypeOK
<1>2. /\ chan' = [s \in Subscribers |-> chan'[s]]
      /\ open' = [s \in Subscribers |-> open'[s]]
  BY DEF Publish
<1>3. \A s \in Subscribers : chan'[s] \in Seq(Event) /\ open'[s] \in BOOLEAN
  <2>1. ASSUME NEW s \in Subscribers PROVE Append(chan[s], e) \in Seq(Event)
    BY <1>1, AppendProperties
  <2>2. QED
    BY <1>1, <2>1
<1>4. RegisteredIsOpen'
  BY <1>1 DEF RegisteredIsOpen
<1>5. \A s \in Subscribers :
        \/ open[s] /\ open'[s] /\ chan'[s] = Append(chan[s], e)
        \/ ~ open'[s] /\ chan'[s] = chan[s]
  BY <1>1 DEF RegisteredIsOpen
<1>6. QED
  BY <1>1, <1>2, <1>3, <1>4, <1>5

-----------------------------------------------------------------------------
(* A handler that does not move.                                             *)

\* Nothing of h changes but what its channel holds.
Still(h) ==
  UNCHANGED <<phase[h], asked[h], since[h], pending[h], sent[h], snapAt[h], joinedAt[h]>>

\* The history keeps what it has.
HistoryGrows ==
  /\ levels' \in Seq(Nat) /\ Len(levels') = nextID' /\ nextID' \in Nat /\ nextID <= nextID'
  /\ \A n \in 1 .. nextID : levels'[n] = levels[n]

(* What is complete stays complete.                                          *)
LEMMA CompleteStays ==
  ASSUME NEW h \in Handlers, NEW n, n \in 0 .. nextID, nextID \in Nat,
         Still(h), HistoryGrows, Complete(h, n)
  PROVE  Complete(h, n)'
BY DEF Complete, Still, HistoryGrows, Written, LostBefore

LEMMA SentStays ==
  ASSUME TypeOK, NEW h \in Handlers, Still(h), HistoryGrows, SentInv(h)
  PROVE  SentInv(h)'
<1>1. /\ asked'[h] = asked[h] /\ since'[h] = since[h] /\ sent'[h] = sent[h]
      /\ nextID \in Nat /\ sent[h] \in Seq(Nat)
  BY DEF Still, TypeOK, BufferTypeOK
<1>2. \A i \in DOMAIN sent[h] : sent[h][i] \in 1 .. nextID
  BY DEF SentInv
<1>3. ASSUME sent[h] # <<>> PROVE Complete(h, since[h])'
  <2>1. since[h] \in 1 .. nextID
    <3>1. since[h] = sent[h][Len(sent[h])] /\ Len(sent[h]) \in DOMAIN sent[h]
      BY <1>1, <1>3, EmptySeq DEF SentInv
    <3>2. QED
      BY <1>2, <3>1
  <2>2. QED
    BY <1>1, <1>3, <2>1, CompleteStays DEF SentInv
<1>4. ASSUME NEW i \in DOMAIN sent[h]
      PROVE  /\ sent[h][i] \in 1 .. nextID' /\ sent[h][i] > asked[h].since
             /\ i > 1 => sent[h][i - 1] < sent[h][i]
             /\ levels'[sent[h][i]] >= asked[h].min
  <2>1. sent[h][i] \in 1 .. nextID' /\ levels'[sent[h][i]] = levels[sent[h][i]]
    BY <1>1, <1>2 DEF HistoryGrows
  <2>2. QED
    BY <2>1 DEF SentInv
<1>5. QED
  BY <1>1, <1>3, <1>4 DEF SentInv

LEMMA ReplayStays ==
  ASSUME TypeOK, NEW h \in Handlers, Still(h), HistoryGrows, ReplayInv(h)
  PROVE  ReplayInv(h)'
<1> SUFFICES ASSUME phase[h] = "replay" PROVE ReplayInv(h)'
  BY DEF Still, ReplayInv
<1>1. snapAt[h] \in 0 .. nextID /\ nextID \in Nat
  BY DEF ReplayInv, TypeOK, BufferTypeOK
<1>2. \A n \in 1 .. snapAt[h] : levels'[n] = levels[n] /\ EventOf(n, levels') = EventOf(n, levels)
  BY <1>1 DEF HistoryGrows, EventOf
<1>3. QED
  BY <1>1, <1>2, SMTT(30) DEF ReplayInv, Still, HistoryGrows, LostBefore, Written

LEMMA LiveStays ==
  ASSUME TypeOK, NEW h \in Handlers, Still(h), LiveInv(h),
         UNCHANGED <<chan[h], open[h], nextID, levels>>
  PROVE  LiveInv(h)'
BY DEF Still, LiveInv, Hears, Complete, Written, LostBefore

(* What is logged goes into the channel of an open stream, or closes it.     *)
LEMMA LogLive ==
  ASSUME TypeOK, NEW h \in Handlers, Still(h), HistoryGrows, LiveInv(h),
         nextID' = nextID + 1, NEW e \in Event, e = EventOf(nextID + 1, levels'),
         \/ open[h] /\ open'[h] /\ chan'[h] = Append(chan[h], e)
         \/ ~ open'[h] /\ chan'[h] = chan[h]
  PROVE  LiveInv(h)'
<1> SUFFICES ASSUME phase[h] = "live" PROVE \E heard \in Nat : Hears(h, heard)'
  BY DEF Still, LiveInv
<1>1. PICK heard \in Nat : Hears(h, heard)
  BY DEF LiveInv
<1>2. chan[h] \in Seq(Event) /\ Len(chan[h]) \in Nat /\ nextID \in Nat /\ joinedAt[h] \in Nat
  BY DEF TypeOK, BufferTypeOK, Handlers
<1>3. heard \in 0 .. nextID /\ heard + Len(chan[h]) <= nextID
  BY <1>1, <1>2 DEF Hears
<1>4. Complete(h, heard)'
  BY <1>1, <1>2, <1>3, CompleteStays DEF Hears
<1>5. \A i \in 1 .. Len(chan[h]) : chan[h][i] = EventOf(heard + i, levels')
  <2> SUFFICES ASSUME NEW i \in 1 .. Len(chan[h])
               PROVE  chan[h][i] = EventOf(heard + i, levels')
    OBVIOUS
  <2>1. heard + i \in 1 .. nextID /\ chan[h][i] = EventOf(heard + i, levels)
    BY <1>1, <1>2, <1>3 DEF Hears
  <2>2. QED
    BY <2>1 DEF EventOf, HistoryGrows
<1>6. CASE open[h] /\ open'[h] /\ chan'[h] = Append(chan[h], e)
  <2>1. /\ Len(chan'[h]) = Len(chan[h]) + 1 /\ DOMAIN chan'[h] = 1 .. Len(chan[h]) + 1
        /\ \A i \in 1 .. Len(chan[h]) : chan'[h][i] = chan[h][i]
        /\ chan'[h][Len(chan[h]) + 1] = e
    BY <1>2, <1>6, AppendProperties
  <2>2. heard + Len(chan[h]) = nextID
    BY <1>1, <1>6 DEF Hears
  <2>3. ASSUME NEW i \in DOMAIN chan'[h] PROVE chan'[h][i] = EventOf(heard + i, levels')
    <3>1. CASE i \in 1 .. Len(chan[h])
      BY <1>5, <2>1, <3>1
    <3>2. CASE i = Len(chan[h]) + 1
      <4>1. heard + i = nextID + 1
        BY <1>2, <2>2, <3>2, SMTT(30)
      <4>2. QED
        BY <2>1, <3>2, <4>1
    <3>3. QED
      BY <1>2, <2>1, <3>1, <3>2
  <2>4. QED
    BY <1>1, <1>2, <1>4, <2>1, <2>2, <2>3 DEF Hears, Still
<1>7. CASE ~ open'[h] /\ chan'[h] = chan[h]
  <2>1. \A i \in DOMAIN chan'[h] : chan'[h][i] = EventOf(heard + i, levels')
    BY <1>2, <1>5, <1>7
  <2>2. Hears(h, heard)'
    BY <1>1, <1>2, <1>3, <1>4, <1>7, <2>1 DEF Hears, Still
  <2>3. QED
    BY <2>2
<1>8. QED
  BY <1>6, <1>7

LEMMA LogInv ==
  ASSUME StreamInv, Log
  PROVE  StreamInv'
<1>1. PICK level \in Levels : AppendEvent(level) /\ levels' = Append(levels, level)
  BY DEF Log
<1> DEFINE e == [id |-> nextID + 1, level |-> level]
<1>2. /\ level \in Nat /\ nextID \in Nat /\ e \in Event /\ levels \in Seq(Nat)
      /\ Len(levels) = nextID
  BY LogAssumption DEF StreamInv, TypeOK, BufferTypeOK, Event, RingHolds
<1>3. nextID' = nextID + 1 /\ Store(e) /\ Publish(e)
  BY <1>1 DEF AppendEvent
<1>4. HistoryGrows /\ e = EventOf(nextID + 1, levels') /\ levels' \in Seq(Nat)
  BY <1>1, <1>2, <1>3, HistoryStays DEF HistoryGrows
<1>5. UNCHANGED <<slots, handlerVars>>
  BY DEF Log
<1> HIDE DEF e
<1>6. RingHolds'
  BY <1>1, <1>2, LogRing DEF StreamInv
<1>7. /\ subs' \in SUBSET Subscribers /\ chan' \in [Subscribers -> Seq(Event)]
      /\ open' \in [Subscribers -> BOOLEAN]
      /\ RegisteredIsOpen'
      /\ \A s \in Subscribers :
           \/ open[s] /\ open'[s] /\ chan'[s] = Append(chan[s], e)
           \/ ~ open'[s] /\ chan'[s] = chan[s]
  BY <1>2, <1>3, PublishOpen DEF StreamInv
<1>8. events' \in [Slots -> Event] /\ start' \in Slots /\ size' \in 0 .. Capacity
  BY <1>2, <1>3, StoreRing, LogAssumption DEF StreamInv, TypeOK
<1>9. TypeOK'
  BY <1>2, <1>3, <1>4, <1>5, <1>7, <1>8 DEF StreamInv, TypeOK, BufferTypeOK, handlerVars
<1>10. SlotsBalanced' /\ NewInv'
  BY <1>5 DEF handlerVars, StreamInv, SlotsBalanced, Streaming, NewInv
<1>11. ASSUME NEW h \in Handlers PROVE HandlerInv(h)'
  <2>1. Still(h) /\ TypeOK /\ HandlerInv(h)
    BY <1>5 DEF Still, handlerVars, StreamInv
  <2>2. SentInv(h)' /\ ReplayInv(h)'
    BY <1>4, <2>1, SentStays, ReplayStays DEF HandlerInv
  <2>3. LiveInv(h)'
    BY <1>2, <1>3, <1>4, <1>7, <2>1, LogLive DEF HandlerInv, Handlers
  <2>4. QED
    BY <2>2, <2>3 DEF HandlerInv
<1>12. QED
  BY <1>6, <1>7, <1>9, <1>10, <1>11 DEF StreamInv

-----------------------------------------------------------------------------
(* The slots.                                                                *)

Streams == {h \in Handlers : Streaming(h)}

LEMMA StreamsFinite ==
  IsFiniteSet(Streams) /\ Cardinality(Streams) \in Nat
BY StreamAssumption, FS_Subset, FS_CardinalityType DEF Streams, Handlers

(* A stream begins with a free slot, one that ends gives its own back        *)
(* (admin.go:229-235).                                                       *)
LEMMA SlotTaken ==
  ASSUME SlotsBalanced, NEW h \in Handlers, ~ Streaming(h), slots < MaxSSEClients,
         slots' = slots + 1, Streaming(h)',
         \A q \in Handlers : q # h => phase'[q] = phase[q]
  PROVE  SlotsBalanced'
<1>1. Streams' = Streams \cup {h} /\ h \notin Streams
  BY DEF Streams, Streaming
<1>2. Cardinality(Streams') = Cardinality(Streams) + 1
  BY <1>1, StreamsFinite, FS_AddElement
<1>3. QED
  BY <1>2, StreamsFinite, StreamAssumption DEF SlotsBalanced, Streams

LEMMA SlotReturned ==
  ASSUME SlotsBalanced, NEW h \in Handlers, Streaming(h),
         slots' = slots - 1, ~ Streaming(h)',
         \A q \in Handlers : q # h => phase'[q] = phase[q]
  PROVE  SlotsBalanced' /\ slots' \in Nat
<1>1. Streams' = Streams \ {h} /\ h \in Streams
  BY DEF Streams, Streaming
<1>2. Cardinality(Streams') = Cardinality(Streams) - 1
  BY <1>1, StreamsFinite, FS_RemoveElement
<1>3. Cardinality(Streams) # 0
  BY <1>1, StreamsFinite, FS_EmptySet
<1>4. QED
  BY <1>2, <1>3, StreamsFinite, StreamAssumption DEF SlotsBalanced, Streams

LEMMA SlotsStay ==
  ASSUME SlotsBalanced, slots' = slots, \A q \in Handlers : Streaming(q)' = Streaming(q)
  PROVE  SlotsBalanced'
<1>1. Streams' = Streams
  BY DEF Streams
<1>2. QED
  BY <1>1 DEF SlotsBalanced, Streams

-----------------------------------------------------------------------------
(* A handler that moves, while the log and the other handlers stay.          *)

LEMMA OnlyTheMoverMatters ==
  ASSUME StreamInv, NEW h \in Handlers, UNCHANGED <<ringVars, levels>>,
         \A q \in Handlers : q # h => Still(q) /\ UNCHANGED <<chan[q], open[q]>>,
         phase'[h] # "new",
         TypeOK', RegisteredIsOpen', SlotsBalanced', HandlerInv(h)'
  PROVE  StreamInv'
<1>1. RingHolds'
  BY DEF ringVars, StreamInv, RingHolds, Ring
<1>2. NewInv'
  BY DEF StreamInv, NewInv, Still
<1>3. ASSUME NEW q \in Handlers, q # h PROVE HandlerInv(q)'
  <2>1. Still(q) /\ UNCHANGED <<chan[q], open[q], nextID, levels>> /\ TypeOK /\ HandlerInv(q)
    BY <1>3 DEF StreamInv, ringVars
  <2>2. HistoryGrows
    BY <2>1 DEF HistoryGrows, StreamInv, RingHolds, TypeOK, BufferTypeOK
  <2>3. QED
    BY <2>1, <2>2, SentStays, ReplayStays, LiveStays DEF HandlerInv
<1>4. QED
  BY <1>1, <1>2, <1>3 DEF StreamInv

(* The snapshot has what the ring has and the client wants, in order         *)
(* (logbuffer.go:72-92).                                                     *)
LEMMA ConnectInv ==
  ASSUME StreamInv, NEW h \in Handlers, Connect(h)
  PROVE  StreamInv'
<1>1. PICK q \in Queries :
        /\ asked' = [asked EXCEPT ![h] = q]
        /\ since' = [since EXCEPT ![h] = q.since]
        /\ pending' = [pending EXCEPT ![h] = SnapshotSince(q.since, q.min)]
  BY DEF Connect
<1>2. /\ phase[h] = "new" /\ slots < MaxSSEClients /\ slots' = slots + 1
      /\ snapAt' = [snapAt EXCEPT ![h] = nextID]
      /\ phase' = [phase EXCEPT ![h] = "replay"]
      /\ UNCHANGED <<bufferVars, sent, levels, joinedAt>>
  BY DEF Connect
<1>3. /\ q.since \in Nat /\ q.min \in Nat /\ q \in [since : Nat, min : Nat]
      /\ nextID \in Nat /\ size \in 0 .. Capacity /\ Capacity \in Nat \ {0}
  BY StreamAssumption, LogAssumption DEF StreamInv, TypeOK, BufferTypeOK
<1> DEFINE snap == SnapshotSince(q.since, q.min)
           lost == nextID - size
<1>4. /\ DOMAIN snap = {i \in 1 .. size : Ring[i].id > q.since /\ Ring[i].level >= q.min}
      /\ \A i \in DOMAIN snap : snap[i] = Ring[i]
  BY DEF SnapshotSince
<1>5. \A i \in 1 .. size :
        /\ Ring[i] = EventOf(lost + i, levels)
        /\ Ring[i].id = lost + i /\ Ring[i].level = levels[lost + i]
  <2>1. \A i \in 1 .. size : Ring[i] = EventOf(lost + i, levels)
    BY DEF StreamInv, RingHolds
  <2>2. \A n : EventOf(n, levels).id = n /\ EventOf(n, levels).level = levels[n]
    BY DEF EventOf
  <2>3. QED
    BY <2>1, <2>2
<1>6. \A i \in 1 .. size : lost + i \in 1 .. nextID
  BY <1>3 DEF StreamInv, RingHolds
<1>7. snap \in [DOMAIN snap -> Event] /\ DOMAIN snap \subseteq Nat
  <2>1. \A i \in 1 .. size : levels[lost + i] \in Nat
    BY <1>6, SMTT(30) DEF StreamInv, RingHolds, TypeOK
  <2>2. \A i \in 1 .. size : EventOf(lost + i, levels) \in Event
    BY <1>6, <2>1 DEF Event, EventOf
  <2>3. snap = [i \in DOMAIN snap |-> snap[i]]
    BY DEF SnapshotSince
  <2> HIDE DEF snap, lost
  <2>4. \A i \in DOMAIN snap : i \in 1 .. size /\ snap[i] = Ring[i]
    BY <1>4
  <2>5. \A i \in DOMAIN snap : snap[i] \in Event
    BY <1>5, <2>2, <2>4
  <2>6. QED
    BY <1>3, <2>3, <2>4, <2>5
<1> HIDE DEF snap
<1>8. /\ phase'[h] = "replay" /\ snapAt'[h] = nextID /\ pending'[h] = snap
      /\ since'[h] = q.since /\ asked'[h] = q /\ sent'[h] = <<>>
      /\ UNCHANGED <<nextID, levels>>
  <2>1. \A r \in Handlers : pending'[r] = IF r = h THEN snap ELSE pending[r]
    BY <1>1 DEF snap, StreamInv, TypeOK
  <2>2. QED
    BY <1>1, <1>2, <2>1 DEF StreamInv, TypeOK, NewInv, bufferVars, ringVars
<1>9. LostBefore(h)' = lost
  BY <1>3, <1>8 DEF LostBefore, StreamInv, RingHolds
<1>10. TypeOK'
  <2>1. /\ asked' \in [Handlers -> [since : Nat, min : Nat]] /\ since' \in [Handlers -> Nat]
        /\ snapAt' \in [Handlers -> Nat] /\ slots' \in Nat
        /\ phase' \in [Handlers -> {"new", "replay", "live", "done", "refused"}]
    <3>1. /\ asked \in [Handlers -> [since : Nat, min : Nat]] /\ since \in [Handlers -> Nat]
          /\ snapAt \in [Handlers -> Nat] /\ slots \in Nat
          /\ phase \in [Handlers -> {"new", "replay", "live", "done", "refused"}]
      BY DEF StreamInv, TypeOK
    <3>2. asked' \in [Handlers -> [since : Nat, min : Nat]]
      BY <1>1, <1>3, <3>1
    <3>3. since' \in [Handlers -> Nat]
      BY <1>1, <1>3, <3>1
    <3>4. snapAt' \in [Handlers -> Nat] /\ slots' \in Nat
      BY <1>2, <1>3, <3>1
    <3>5. phase' \in [Handlers -> {"new", "replay", "live", "done", "refused"}]
      BY <1>2, <3>1
    <3>6. QED
      BY <3>2, <3>3, <3>4, <3>5
  <2>2. DOMAIN pending' = Handlers /\ \A r \in Handlers : r # h => pending'[r] = pending[r]
    BY <1>1 DEF StreamInv, TypeOK
  <2>3. \A r \in Handlers :
          DOMAIN pending'[r] \subseteq Nat /\ pending'[r] \in [DOMAIN pending'[r] -> Event]
    BY <1>7, <1>8, <2>2 DEF StreamInv, TypeOK
  <2>4. QED
    BY <1>2, <2>1, <2>2, <2>3 DEF StreamInv, TypeOK, BufferTypeOK, bufferVars, ringVars, subVars
<1>11. HandlerInv(h)'
  <2>1. SentInv(h)' /\ LiveInv(h)'
    BY <1>8 DEF SentInv, LiveInv
  <2>2. \A i \in DOMAIN snap :
          /\ lost + i \in 1 .. nextID /\ snap[i] = EventOf(lost + i, levels)
          /\ lost + i > q.since /\ levels[lost + i] >= q.min
    BY <1>4, <1>5, <1>6
  <2>3. ASSUME NEW n \in 1 .. nextID, n > q.since, levels[n] >= q.min, n > lost
        PROVE  n - lost \in DOMAIN snap
    <3>1. n - lost \in 1 .. size /\ lost + (n - lost) = n
      BY <1>3, <2>3
    <3>2. QED
      BY <1>4, <1>5, <2>3, <3>1
  <2>4. ReplayInv(h)'
    BY <1>3, <1>8, <1>9, <2>2, <2>3 DEF ReplayInv
  <2>5. QED
    BY <2>1, <2>4 DEF HandlerInv
<1>12. SlotsBalanced'
  <2>1. Streaming(h)' /\ ~ Streaming(h) /\ \A r \in Handlers : r # h => phase'[r] = phase[r]
    BY <1>2, <1>8 DEF Streaming
  <2>2. QED
    BY <1>2, <2>1, SlotTaken DEF StreamInv
<1>13. QED
  <2>1. /\ UNCHANGED <<ringVars, levels>> /\ RegisteredIsOpen'
        /\ \A r \in Handlers : r # h => Still(r) /\ UNCHANGED <<chan[r], open[r]>>
    BY <1>1, <1>2 DEF Still, bufferVars, subVars, RegisteredIsOpen, StreamInv
  <2>2. QED
    BY <1>8, <1>10, <1>11, <1>12, <2>1, OnlyTheMoverMatters

LEMMA RefuseInv ==
  ASSUME StreamInv, NEW h \in Handlers, Refuse(h)
  PROVE  StreamInv'
<1>1. /\ phase[h] = "new" /\ phase' = [phase EXCEPT ![h] = "refused"]
      /\ UNCHANGED <<bufferVars, slots, asked, since, pending, sent, levels, snapAt, joinedAt>>
  BY DEF Refuse
<1>2. TypeOK' /\ RegisteredIsOpen' /\ phase'[h] = "refused"
  BY <1>1 DEF StreamInv, TypeOK, BufferTypeOK, RegisteredIsOpen, bufferVars, ringVars, subVars
<1>3. SlotsBalanced'
  <2>1. \A q \in Handlers : Streaming(q)' = Streaming(q)
    BY <1>1, <1>2 DEF Streaming
  <2>2. QED
    BY <1>1, <2>1, SlotsStay DEF StreamInv
<1>4. HandlerInv(h)'
  BY <1>1, <1>2 DEF HandlerInv, SentInv, ReplayInv, LiveInv, StreamInv, Complete, Written,
                    LostBefore, bufferVars, ringVars
<1>5. \A q \in Handlers : q # h => Still(q) /\ UNCHANGED <<chan[q], open[q]>>
  BY <1>1 DEF Still, bufferVars, subVars
<1>6. QED
  BY <1>1, <1>2, <1>3, <1>4, <1>5, OnlyTheMoverMatters DEF bufferVars

(* One more event is written: the last and the greatest of them.             *)
LEMMA WriteSent ==
  ASSUME TypeOK, Len(levels) = nextID, NEW h \in Handlers, SentInv(h),
         NEW n \in 1 .. nextID, n > since[h], levels[n] >= asked[h].min,
         sent' = [sent EXCEPT ![h] = Append(@, n)],
         since' = [since EXCEPT ![h] = n],
         UNCHANGED <<asked[h], snapAt[h], joinedAt[h], levels, nextID>>,
         \A m \in 1 .. n :
           m > asked[h].since /\ levels[m] >= asked[h].min =>
             Written(h, m) \/ m = n \/ m <= LostBefore(h) \/ (snapAt[h] < m /\ m <= joinedAt[h])
  PROVE  /\ SentInv(h)' /\ Complete(h, n)'
         /\ since'[h] = n /\ sent'[h] # <<>>
         /\ \A m : Written(h, m) \/ m = n => Written(h, m)'
         /\ sent' \in [Handlers -> Seq(Nat)] /\ since' \in [Handlers -> Nat]
<1>1. /\ sent[h] \in Seq(Nat) /\ Len(sent[h]) \in Nat /\ nextID \in Nat
      /\ asked[h].since \in Nat /\ since[h] \in Nat
  BY DEF TypeOK, BufferTypeOK
<1>2. /\ sent'[h] = Append(sent[h], n) /\ since'[h] = n
      /\ sent' \in [Handlers -> Seq(Nat)] /\ since' \in [Handlers -> Nat]
  BY <1>1, AppendProperties DEF TypeOK
<1> DEFINE last == Len(sent[h])
<1>3. /\ Len(sent'[h]) = last + 1 /\ DOMAIN sent'[h] = 1 .. last + 1
      /\ DOMAIN sent[h] = 1 .. last
      /\ sent'[h] # <<>> /\ sent'[h][last + 1] = n
      /\ \A i \in 1 .. last : sent'[h][i] = sent[h][i]
  BY <1>1, <1>2, AppendProperties
<1>4. ASSUME NEW m, Written(h, m) \/ m = n PROVE Written(h, m)'
  <2>1. DOMAIN sent[h] \subseteq DOMAIN sent'[h] /\ last + 1 \in DOMAIN sent'[h]
    BY <1>1, <1>3
  <2>2. QED
    BY <1>3, <1>4, <2>1 DEF Written
<1>5. Complete(h, n)'
  BY <1>4 DEF Complete, LostBefore
<1>6. n > asked[h].since
  <2>1. CASE sent[h] = <<>>
    BY <2>1 DEF SentInv
  <2>2. CASE sent[h] # <<>>
    <3>1. last \in DOMAIN sent[h] /\ since[h] = sent[h][last]
      BY <1>1, <2>2, EmptySeq DEF SentInv
    <3>2. since[h] > asked[h].since
      BY <3>1 DEF SentInv
    <3>3. QED
      BY <1>1, <3>2
  <2>3. QED
    BY <2>1, <2>2
<1>7. last # 0 => sent[h][last] < n
  BY <1>1, <1>3 DEF SentInv
<1>8. ASSUME NEW i \in 1 .. last + 1
      PROVE  /\ sent'[h][i] \in 1 .. nextID
             /\ sent'[h][i] > asked[h].since
             /\ i > 1 => sent'[h][i - 1] < sent'[h][i]
             /\ levels[sent'[h][i]] >= asked[h].min
  <2>1. CASE i = last + 1
    <3>1. i > 1 => last \in 1 .. last /\ i - 1 = last /\ sent'[h][i - 1] = sent[h][last]
      BY <1>1, <1>3, <2>1
    <3>2. QED
      BY <1>1, <1>3, <1>6, <1>7, <2>1, <3>1
  <2>2. CASE i # last + 1
    <3>1. i \in 1 .. last /\ sent'[h][i] = sent[h][i]
      BY <1>1, <1>3, <2>2
    <3>2. i > 1 => sent'[h][i - 1] = sent[h][i - 1]
      BY <1>1, <1>3, <3>1
    <3>3. QED
      BY <1>3, <3>1, <3>2 DEF SentInv
  <2>3. QED
    BY <2>1, <2>2
<1>9. SentInv(h)'
  BY <1>2, <1>3, <1>5, <1>8 DEF SentInv
<1>10. QED
  BY <1>2, <1>3, <1>4, <1>5, <1>9

(* Of the snapshot the least that is left is written: it is behind what is   *)
(* written, and before all that remains (admin.go:262-271).                  *)
LEMMA ReplayStep ==
  ASSUME StreamInv, NEW h \in Handlers, Replay(h)
  PROVE  StreamInv'
<1>1. PICK i \in DOMAIN pending[h] :
        /\ \A j \in DOMAIN pending[h] : i <= j
        /\ Write(h, pending[h][i])
        /\ pending' = [pending EXCEPT ![h] = [j \in DOMAIN @ \ {i} |-> @[j]]]
  BY DEF Replay
<1>2. /\ phase[h] = "replay"
      /\ UNCHANGED <<bufferVars, slots, phase, asked, levels, snapAt, joinedAt>>
  BY DEF Replay
<1>3. /\ TypeOK /\ Len(levels) = nextID /\ SentInv(h) /\ ReplayInv(h)
      /\ nextID \in Nat /\ snapAt[h] \in Nat /\ Capacity \in Nat \ {0}
      /\ LostBefore(h) \in Nat
      /\ DOMAIN pending[h] \subseteq Nat
  <2>1. Capacity \in Nat \ {0} /\ nextID \in Nat /\ snapAt[h] \in Nat
    BY LogAssumption DEF StreamInv, TypeOK, BufferTypeOK
  <2>2. LostBefore(h) \in Nat
    BY <2>1 DEF LostBefore
  <2>3. TypeOK /\ Len(levels) = nextID /\ SentInv(h) /\ ReplayInv(h)
    BY DEF StreamInv, RingHolds, HandlerInv
  <2>4. DOMAIN pending[h] \subseteq Nat
    BY <2>3 DEF TypeOK
  <2>5. QED
    BY <2>1, <2>2, <2>3, <2>4
<1> DEFINE lost == LostBefore(h)
           n == lost + i
<1>4. /\ n \in 1 .. snapAt[h] /\ snapAt[h] <= nextID /\ n > since[h]
      /\ levels[n] >= asked[h].min /\ pending[h][i] = EventOf(n, levels)
      /\ n \in 1 .. nextID
  <2>1. /\ snapAt[h] <= nextID /\ n \in 1 .. snapAt[h] /\ n > since[h]
        /\ levels[n] >= asked[h].min /\ pending[h][i] = EventOf(n, levels)
    BY <1>2, <1>3 DEF ReplayInv
  <2>2. QED
    BY <1>3, <2>1
<1>5. sent' = [sent EXCEPT ![h] = Append(@, n)] /\ since' = [since EXCEPT ![h] = n]
  BY <1>1, <1>4 DEF Write, EventOf
<1>6. ASSUME NEW m \in 1 .. n, m > asked[h].since, levels[m] >= asked[h].min
      PROVE  Written(h, m) \/ m = n \/ m <= lost
  <2>1. m \in 1 .. snapAt[h]
    BY <1>3, <1>4
  <2>2. Written(h, m) \/ m <= lost \/ m - lost \in DOMAIN pending[h]
    BY <1>2, <1>3, <1>6, <2>1 DEF ReplayInv
  <2>3. m - lost \in DOMAIN pending[h] => i <= m - lost
    BY <1>1
  <2>4. QED
    BY <1>3, <2>2, <2>3
<1>7. UNCHANGED <<asked[h], snapAt[h], joinedAt[h], levels, nextID>>
  BY <1>2 DEF bufferVars, ringVars
<1> HIDE DEF n, lost
<1>8. /\ SentInv(h)' /\ since'[h] = n
      /\ \A m : Written(h, m) \/ m = n => Written(h, m)'
      /\ sent' \in [Handlers -> Seq(Nat)] /\ since' \in [Handlers -> Nat]
  BY <1>3, <1>4, <1>5, <1>6, <1>7, WriteSent DEF lost
<1>9. /\ DOMAIN pending' = Handlers
      /\ \A q \in Handlers : q # h => pending'[q] = pending[q]
      /\ DOMAIN pending'[h] = DOMAIN pending[h] \ {i}
      /\ \A j \in DOMAIN pending[h] \ {i} : pending'[h][j] = pending[h][j]
      /\ pending'[h] = [j \in DOMAIN pending[h] \ {i} |-> pending[h][j]]
  BY <1>1, <1>3 DEF TypeOK
<1>10. TypeOK'
  <2>1. pending'[h] \in [DOMAIN pending[h] \ {i} -> Event]
    BY <1>3, <1>9 DEF TypeOK
  <2>2. \A q \in Handlers :
          DOMAIN pending'[q] \subseteq Nat /\ pending'[q] \in [DOMAIN pending'[q] -> Event]
    BY <1>3, <1>9, <2>1 DEF TypeOK
  <2>3. QED
    BY <1>2, <1>3, <1>8, <1>9, <2>2 DEF TypeOK, BufferTypeOK, bufferVars, ringVars, subVars
<1>11. ReplayInv(h)'
  <2>1. LostBefore(h)' = lost /\ snapAt'[h] <= nextID' /\ since'[h] <= snapAt'[h]
    BY <1>3, <1>4, <1>7, <1>8 DEF LostBefore, lost
  <2>2. ASSUME NEW j \in DOMAIN pending'[h]
        PROVE  /\ lost + j \in 1 .. snapAt[h]
               /\ pending'[h][j] = EventOf(lost + j, levels)
               /\ lost + j > n
               /\ levels[lost + j] >= asked[h].min
    <3>1. j \in DOMAIN pending[h] /\ j # i /\ i <= j /\ pending'[h][j] = pending[h][j]
      BY <1>1, <1>9
    <3>2. lost + j > lost + i
      BY <1>3, <3>1 DEF lost
    <3>3. QED
      BY <1>2, <1>3, <3>1, <3>2 DEF ReplayInv, lost, n
  <2>3. ASSUME NEW m \in 1 .. snapAt[h], m > asked[h].since, levels[m] >= asked[h].min
        PROVE  Written(h, m)' \/ m <= lost \/ m - lost \in DOMAIN pending'[h]
    <3>1. Written(h, m) \/ m <= lost \/ m - lost \in DOMAIN pending[h]
      BY <1>2, <1>3, <2>3 DEF ReplayInv, lost
    <3>2. m - lost = i => m = n
      BY <1>3 DEF n, lost
    <3>3. QED
      BY <1>8, <1>9, <3>1, <3>2
  <2>4. QED
    BY <1>7, <1>8, <2>1, <2>2, <2>3 DEF ReplayInv
<1>12. HandlerInv(h)'
  BY <1>2, <1>8, <1>11 DEF HandlerInv, LiveInv
<1>13. RegisteredIsOpen' /\ SlotsBalanced'
  BY <1>2 DEF StreamInv, RegisteredIsOpen, SlotsBalanced, Streaming, bufferVars, subVars
<1>14. \A q \in Handlers : q # h => Still(q) /\ UNCHANGED <<chan[q], open[q]>>
  BY <1>2, <1>3, <1>5, <1>9 DEF Still, TypeOK, bufferVars, subVars
<1>15. QED
  BY <1>2, <1>10, <1>12, <1>13, <1>14, OnlyTheMoverMatters DEF bufferVars

(* What is logged from now on comes through the channel: of what was logged  *)
(* before, the client has what it can have (admin.go:273-276).               *)
LEMMA SubscribeInv ==
  ASSUME StreamInv, NEW h \in Handlers, Subscribe(h)
  PROVE  StreamInv'
<1>1. /\ phase[h] = "replay" /\ DOMAIN pending[h] = {} /\ SubscribeAs(h)
      /\ phase' = [phase EXCEPT ![h] = "live"]
      /\ joinedAt' = [joinedAt EXCEPT ![h] = nextID]
      /\ UNCHANGED <<ringVars, slots, asked, since, pending, sent, levels, snapAt>>
  BY DEF Subscribe
<1>2. /\ subs' = subs \cup {h}
      /\ chan' = [chan EXCEPT ![h] = <<>>] /\ open' = [open EXCEPT ![h] = TRUE]
      /\ h \in Subscribers /\ nextID \in Nat /\ snapAt[h] \in Nat /\ joinedAt[h] \in Nat
      /\ Len(levels) = nextID
  BY <1>1 DEF SubscribeAs, Handlers, StreamInv, TypeOK, BufferTypeOK, RingHolds
<1>3. /\ chan'[h] = <<>> /\ open'[h] /\ phase'[h] = "live" /\ joinedAt'[h] = nextID
      /\ \A q \in Handlers : q # h => UNCHANGED <<chan[q], open[q], phase[q], joinedAt[q]>>
  BY <1>1, <1>2 DEF StreamInv, TypeOK, BufferTypeOK, Handlers
<1>4. TypeOK' /\ RegisteredIsOpen'
  BY <1>1, <1>2, EmptySeq DEF StreamInv, TypeOK, BufferTypeOK, RegisteredIsOpen, ringVars
<1>5. SlotsBalanced'
  <2>1. \A q \in Handlers : Streaming(q)' = Streaming(q)
    BY <1>1, <1>3 DEF Streaming
  <2>2. QED
    BY <1>1, <2>1, SlotsStay DEF StreamInv
<1>6. Complete(h, nextID)'
  <2>1. /\ snapAt[h] <= nextID
        /\ \A n \in 1 .. snapAt[h] :
             n > asked[h].since /\ levels[n] >= asked[h].min => Written(h, n) \/ n <= LostBefore(h)
    BY <1>1 DEF StreamInv, HandlerInv, ReplayInv
  <2>2. \A n \in 1 .. nextID : n \in 1 .. snapAt[h] \/ snapAt[h] < n
    BY <1>2
  <2>3. nextID' = nextID
    BY <1>1 DEF ringVars
  <2>4. QED
    BY <1>1, <1>2, <1>3, <2>1, <2>2, <2>3 DEF Complete, Written, LostBefore
<1>7. SentInv(h)'
  <2>1. SentInv(h) /\ (sent[h] # <<>> => since[h] <= nextID)
    BY <1>1, <1>2 DEF StreamInv, HandlerInv, ReplayInv, TypeOK
  <2>2. sent[h] # <<>> => Complete(h, since[h])'
    <3>1. nextID' = nextID /\ since' = since /\ since[h] \in Nat
      BY <1>1 DEF ringVars, StreamInv, TypeOK
    <3>2. QED
      BY <1>2, <1>6, <2>1, <3>1 DEF Complete
  <2>3. QED
    BY <1>1, <2>1, <2>2 DEF SentInv, ringVars
<1>8. HandlerInv(h)'
  <2>1. sent[h] # <<>> => since[h] <= nextID
    BY <1>1, <1>2 DEF StreamInv, HandlerInv, ReplayInv, TypeOK
  <2>2. Hears(h, nextID)'
    BY <1>1, <1>2, <1>3, <1>6, <2>1 DEF Hears, ringVars
  <2>3. (\E heard \in Nat : Hears(h, heard))'
    BY <1>1, <1>2, <2>2 DEF ringVars
  <2>4. QED
    BY <1>3, <1>7, <2>3 DEF HandlerInv, ReplayInv, LiveInv
<1>9. \A q \in Handlers : q # h => Still(q) /\ UNCHANGED <<chan[q], open[q]>>
  BY <1>1, <1>3 DEF Still
<1>10. QED
  BY <1>1, <1>3, <1>4, <1>5, <1>8, <1>9, OnlyTheMoverMatters

(* An event taken from the channel is written, or the client does not want   *)
(* it or has it (admin.go:285-297).                                          *)
LEMMA ReceiveInv ==
  ASSUME StreamInv, NEW h \in Handlers, Receive(h)
  PROVE  StreamInv'
<1>1. /\ phase[h] = "live" /\ chan[h] # <<>>
      /\ chan' = [chan EXCEPT ![h] = Tail(@)]
      /\ UNCHANGED <<ringVars, subs, open, slots, phase, asked, pending, levels, snapAt, joinedAt>>
  BY DEF Receive
<1>2. /\ TypeOK /\ SentInv(h) /\ Len(levels) = nextID /\ nextID \in Nat /\ nextID' = nextID
      /\ chan[h] \in Seq(Event) /\ h \in Subscribers
  BY <1>1 DEF StreamInv, HandlerInv, RingHolds, TypeOK, BufferTypeOK, ringVars, Handlers
<1>3. PICK heard \in Nat : Hears(h, heard)
  BY <1>1 DEF StreamInv, HandlerInv, LiveInv
<1>4. PICK n : n \in Nat /\ n = heard + 1
  OBVIOUS
<1> DEFINE e == Head(chan[h])
<1>5. /\ chan'[h] = Tail(chan[h]) /\ Tail(chan[h]) \in Seq(Event)
      /\ Len(chan[h]) \in Nat \ {0} /\ Len(Tail(chan[h])) = Len(chan[h]) - 1
      /\ \A i \in 1 .. Len(chan[h]) - 1 : Tail(chan[h])[i] = chan[h][i + 1]
      /\ e = chan[h][1] /\ e \in Event
  <2>1. chan'[h] = Tail(chan[h])
    BY <1>1, <1>2 DEF TypeOK, BufferTypeOK
  <2>2. QED
    BY <1>1, <1>2, <2>1, HeadTailProperties, EmptySeq
<1>6. /\ joinedAt[h] <= heard /\ heard + Len(chan[h]) <= nextID
      /\ \A i \in 1 .. Len(chan[h]) : chan[h][i] = EventOf(heard + i, levels)
      /\ open[h] => heard + Len(chan[h]) = nextID
      /\ sent[h] # <<>> => since[h] <= heard
      /\ Complete(h, heard)
  BY <1>2, <1>3 DEF Hears
<1>7. n \in 1 .. nextID /\ e = EventOf(n, levels) /\ e.id = n /\ e.level = levels[n]
  BY <1>2, <1>4, <1>5, <1>6 DEF EventOf
<1>8. \A m \in 1 .. n : m = n \/ m \in 1 .. heard
  BY <1>4
<1>9. \A i \in DOMAIN chan'[h] : chan'[h][i] = EventOf(n + i, levels)
  <2> SUFFICES ASSUME NEW i \in 1 .. Len(chan[h]) - 1
               PROVE  Tail(chan[h])[i] = EventOf(n + i, levels)
    BY <1>5
  <2>1. i + 1 \in 1 .. Len(chan[h]) /\ heard + (i + 1) = n + i
    BY <1>4, <1>5
  <2>2. QED
    BY <1>5, <1>6, <2>1
<1> HIDE DEF e
<1>10. /\ SentInv(h)' /\ Complete(h, n)'
       /\ sent'[h] # <<>> => since'[h] <= n
       /\ sent' \in [Handlers -> Seq(Nat)] /\ since' \in [Handlers -> Nat]
       /\ \A q \in Handlers : q # h => UNCHANGED <<sent[q], since[q]>>
  <2>1. CASE Wanted(h, e)
    <3>1. n > since[h] /\ levels[n] >= asked[h].min
      BY <1>7, <2>1 DEF Wanted
    <3>2. sent' = [sent EXCEPT ![h] = Append(@, n)] /\ since' = [since EXCEPT ![h] = n]
      BY <1>7, <2>1 DEF Receive, Write, e
    <3>3. UNCHANGED <<asked[h], snapAt[h], joinedAt[h], levels, nextID>>
      BY <1>1, <1>2
    <3>4. \A m \in 1 .. n :
            m > asked[h].since /\ levels[m] >= asked[h].min =>
              Written(h, m) \/ m = n \/ m <= LostBefore(h) \/ (snapAt[h] < m /\ m <= joinedAt[h])
      BY <1>6, <1>8 DEF Complete
    <3>5. /\ SentInv(h)' /\ Complete(h, n)' /\ since'[h] = n
          /\ sent' \in [Handlers -> Seq(Nat)] /\ since' \in [Handlers -> Nat]
      BY <1>2, <1>7, <3>1, <3>2, <3>3, <3>4, WriteSent
    <3>6. \A q \in Handlers : q # h => UNCHANGED <<sent[q], since[q]>>
      BY <1>2, <3>2 DEF TypeOK
    <3>7. QED
      BY <1>7, <3>5, <3>6
  <2>2. CASE ~ Wanted(h, e)
    <3>1. UNCHANGED <<sent, since>>
      BY <2>2 DEF Receive, e
    <3>2. SentInv(h)'
      BY <1>1, <1>2, <3>1 DEF SentInv, Complete, Written, LostBefore
    <3>3. since[h] \in Nat /\ asked[h].since \in Nat /\ levels[n] \in Nat /\ asked[h].min \in Nat
      BY <1>2, <1>7 DEF TypeOK
    <3>4. ~ (n > asked[h].since /\ levels[n] >= asked[h].min)
      <4>1. ~ (n > since[h] /\ levels[n] >= asked[h].min)
        BY <1>7, <2>2 DEF Wanted
      <4>2. CASE sent[h] = <<>>
        BY <1>2, <4>1, <4>2 DEF SentInv
      <4>3. CASE sent[h] # <<>>
        BY <1>4, <1>6, <3>3, <4>1, <4>3
      <4>4. QED
        BY <4>2, <4>3
    <3>5. Complete(h, n)
      BY <1>6, <1>8, <3>4 DEF Complete
    <3>6. Complete(h, n)'
      BY <1>1, <3>1, <3>5 DEF Complete, Written, LostBefore
    <3>7. sent'[h] # <<>> => since'[h] <= n
      BY <1>4, <1>6, <3>1, <3>3
    <3>8. QED
      BY <1>2, <3>1, <3>2, <3>6, <3>7 DEF TypeOK
  <2>3. QED
    BY <2>1, <2>2
<1>11. SentInv(h)'
  BY <1>10
<1>12. Complete(h, n)' /\ (sent'[h] # <<>> => since'[h] <= n)
  BY <1>10
<1>13. /\ sent' \in [Handlers -> Seq(Nat)] /\ since' \in [Handlers -> Nat]
       /\ \A q \in Handlers : q # h => sent'[q] = sent[q] /\ since'[q] = since[q]
  BY <1>10
<1>14. Hears(h, n)'
  <2>1. n = heard + 1 /\ n + Len(chan'[h]) = heard + Len(chan[h])
    <3>1. Len(chan'[h]) = Len(chan[h]) - 1
      BY <1>5
    <3>2. \A a \in Nat : heard + 1 + (a - 1) = heard + a
      OBVIOUS
    <3>3. heard + 1 + (Len(chan[h]) - 1) = heard + Len(chan[h])
      BY <1>5, <3>2
    <3>4. QED
      BY <1>4, <3>1, <3>3
  <2>2. joinedAt'[h] <= n /\ n + Len(chan'[h]) <= nextID'
    <3>1. joinedAt[h] \in Nat /\ joinedAt' = joinedAt
      BY <1>1, <1>2 DEF TypeOK
    <3>2. joinedAt[h] <= n
      BY <1>6, <2>1, <3>1
    <3>3. QED
      BY <1>2, <1>6, <2>1, <3>1, <3>2
  <2>3. open'[h] => n + Len(chan'[h]) = nextID'
    <3>1. open' = open
      BY <1>1
    <3>2. QED
      BY <1>2, <1>6, <2>1, <3>1
  <2>4. \A i \in DOMAIN chan'[h] : chan'[h][i] = EventOf(n + i, levels')
    BY <1>1, <1>9
  <2>5. QED
    BY <1>12, <2>2, <2>3, <2>4 DEF Hears
<1>15. HandlerInv(h)'
  <2>1. (\E q \in Nat : Hears(h, q))'
    BY <1>4, <1>14
  <2>2. ReplayInv(h)' /\ LiveInv(h)'
    BY <1>1, <2>1 DEF ReplayInv, LiveInv
  <2>3. QED
    BY <1>11, <2>2 DEF HandlerInv
<1>16. TypeOK'
  <2>1. chan' \in [Subscribers -> Seq(Event)]
    BY <1>1, <1>2, <1>5 DEF TypeOK, BufferTypeOK
  <2>2. QED
    BY <1>1, <1>2, <1>13, <2>1 DEF TypeOK, BufferTypeOK, ringVars
<1>17. RegisteredIsOpen' /\ SlotsBalanced' /\ phase'[h] # "new"
  BY <1>1 DEF StreamInv, RegisteredIsOpen, SlotsBalanced, Streaming
<1>18. \A q \in Handlers : q # h => Still(q) /\ UNCHANGED <<chan[q], open[q]>>
  BY <1>1, <1>2, <1>13 DEF Still, TypeOK, BufferTypeOK, Handlers
<1>19. QED
  BY <1>1, <1>15, <1>16, <1>17, <1>18, OnlyTheMoverMatters

(* The deferred calls, from a replay or a live stream: the subscription is   *)
(* ended once, and the slot given back (admin.go:235, 277).                  *)
LEMMA LeaveInv ==
  ASSUME StreamInv, NEW h \in Handlers, phase[h] \in {"replay", "live"}, Leave(h)
  PROVE  StreamInv'
<1>1. /\ IF phase[h] = "live" THEN CancelSub(h) ELSE UNCHANGED subVars
      /\ slots' = slots - 1
      /\ phase' = [phase EXCEPT ![h] = "done"]
      /\ pending' = [pending EXCEPT ![h] = NoEvents]
      /\ UNCHANGED <<ringVars, asked, since, sent, levels, snapAt, joinedAt>>
  BY DEF Leave, GiveBack
<1>2. TypeOK /\ RegisteredIsOpen /\ h \in Subscribers /\ phase'[h] = "done"
  BY <1>1 DEF StreamInv, Handlers, TypeOK
<1>3. /\ subs' \in SUBSET Subscribers /\ chan' \in [Subscribers -> Seq(Event)]
      /\ open' \in [Subscribers -> BOOLEAN]
      /\ RegisteredIsOpen'
      /\ \A q \in Handlers : q # h => UNCHANGED <<chan[q], open[q]>>
  <2>1. CASE phase[h] = "live"
    <3>1. /\ subs' = subs \ {h} /\ chan' = [chan EXCEPT ![h] = <<>>]
          /\ open' = [open EXCEPT ![h] = @ /\ h \notin subs]
      BY <1>1, <2>1 DEF CancelSub
    <3>2. /\ subs' \in SUBSET Subscribers /\ chan' \in [Subscribers -> Seq(Event)]
          /\ open' \in [Subscribers -> BOOLEAN]
          /\ \A q \in Handlers : q # h => UNCHANGED <<chan[q], open[q]>>
      BY <1>2, <3>1, EmptySeq DEF TypeOK, BufferTypeOK, Handlers
    <3>3. open'[h] = (open[h] /\ h \notin subs)
      BY <1>2, <3>1 DEF TypeOK, BufferTypeOK
    <3>4. RegisteredIsOpen'
      BY <1>2, <3>1, <3>2, <3>3 DEF RegisteredIsOpen, Handlers
    <3>5. QED
      BY <3>2, <3>4
  <2>2. CASE phase[h] # "live"
    BY <1>1, <1>2, <2>2 DEF subVars, TypeOK, BufferTypeOK, RegisteredIsOpen, Handlers
  <2>3. QED
    BY <2>1, <2>2
<1>4. SlotsBalanced' /\ slots' \in Nat
  <2>1. /\ Streaming(h) /\ ~ Streaming(h)'
        /\ \A q \in Handlers : q # h => phase'[q] = phase[q]
    BY <1>1, <1>2 DEF Streaming, TypeOK
  <2>2. QED
    BY <1>1, <2>1, SlotReturned DEF StreamInv
<1>5. /\ DOMAIN pending' = Handlers /\ pending'[h] = NoEvents
      /\ \A q \in Handlers : q # h => pending'[q] = pending[q]
  BY <1>1, <1>2 DEF TypeOK
<1>6. TypeOK'
  <2>1. DOMAIN NoEvents \subseteq Nat /\ NoEvents \in [DOMAIN NoEvents -> Event]
    BY DEF NoEvents
  <2>2. \A q \in Handlers :
          DOMAIN pending'[q] \subseteq Nat /\ pending'[q] \in [DOMAIN pending'[q] -> Event]
    BY <1>2, <1>5, <2>1 DEF TypeOK
  <2>3. QED
    BY <1>1, <1>2, <1>3, <1>4, <1>5, <2>2 DEF TypeOK, BufferTypeOK, ringVars
<1>7. HandlerInv(h)'
  <2>1. SentInv(h)'
    BY <1>1 DEF StreamInv, HandlerInv, SentInv, Complete, Written, LostBefore, ringVars
  <2>2. QED
    BY <1>2, <2>1 DEF HandlerInv, ReplayInv, LiveInv
<1>8. \A q \in Handlers : q # h => Still(q) /\ UNCHANGED <<chan[q], open[q]>>
  BY <1>1, <1>2, <1>3, <1>5 DEF Still, TypeOK
<1>9. QED
  BY <1>1, <1>2, <1>3, <1>4, <1>6, <1>7, <1>8, OnlyTheMoverMatters

-----------------------------------------------------------------------------
(* The invariant, and what it gives.                                         *)

LEMMA StreamInvInit ==
  Init => StreamInv
<1> SUFFICES ASSUME Init PROVE StreamInv
  OBVIOUS
<1> USE DEF Init, BufferInit
<1>1. Capacity \in Nat \ {0}
  BY LogAssumption
<1>2. TypeOK
  <2>1. BufferTypeOK
    BY <1>1 DEF BufferTypeOK, Slots, Event, Empty
  <2>2. DOMAIN NoEvents = {} /\ NoEvents \in [{} -> Event]
    BY DEF NoEvents
  <2>3. QED
    BY <2>1, <2>2, EmptySeq DEF TypeOK
<1>3. RingHolds
  BY <1>1 DEF RingHolds
<1>4. RegisteredIsOpen /\ NewInv
  BY DEF RegisteredIsOpen, NewInv
<1>5. SlotsBalanced
  <2>1. {h \in Handlers : Streaming(h)} = {}
    BY DEF Streaming
  <2>2. Cardinality({h \in Handlers : Streaming(h)}) = 0 /\ slots = 0
    BY <2>1, FS_EmptySet
  <2> HIDE DEF Init, BufferInit
  <2>3. QED
    BY <2>2, StreamAssumption DEF SlotsBalanced
<1>6. \A h \in Handlers : HandlerInv(h)
  BY DEF HandlerInv, SentInv, ReplayInv, LiveInv
<1>7. QED
  BY <1>2, <1>3, <1>4, <1>5, <1>6 DEF StreamInv

LEMMA StreamInvStep ==
  ASSUME StreamInv, [Next]_vars
  PROVE  StreamInv'
<1>1. CASE Log
  BY <1>1, LogInv
<1>2. ASSUME NEW h \in Handlers, Connect(h) \/ Refuse(h) \/ Serve(h) \/ ClientGone(h)
      PROVE  StreamInv'
  <2>1. CASE Connect(h)
    BY <2>1, ConnectInv
  <2>2. CASE Refuse(h)
    BY <2>2, RefuseInv
  <2>3. CASE Replay(h)
    BY <2>3, ReplayStep
  <2>4. CASE Subscribe(h)
    BY <2>4, SubscribeInv
  <2>5. CASE Receive(h)
    BY <2>5, ReceiveInv
  <2>6. CASE Dropped(h)
    BY <2>6, LeaveInv DEF Dropped
  <2>7. CASE ClientGone(h)
    BY <2>7, LeaveInv DEF ClientGone
  <2>8. QED
    BY <1>2, <2>1, <2>2, <2>3, <2>4, <2>5, <2>6, <2>7 DEF Serve
<1>3. CASE UNCHANGED vars
  <2>1. /\ TypeOK' /\ RingHolds' /\ RegisteredIsOpen' /\ SlotsBalanced' /\ NewInv'
    BY <1>3 DEF StreamInv, TypeOK, BufferTypeOK, RingHolds, Ring, RegisteredIsOpen,
                SlotsBalanced, Streaming, NewInv, vars, bufferVars, ringVars, subVars, handlerVars
  <2>2. ASSUME NEW h \in Handlers PROVE HandlerInv(h)'
    <3>1. HandlerInv(h)
      BY DEF StreamInv
    <3>2. QED
      BY <1>3, <3>1 DEF HandlerInv, SentInv, ReplayInv, LiveInv, Hears, Complete, Written,
                        LostBefore, vars, bufferVars, ringVars, subVars, handlerVars
  <2>3. QED
    BY <2>1, <2>2 DEF StreamInv
<1>4. QED
  BY <1>1, <1>2, <1>3 DEF Next

(* StreamInv holds in every state that can be reached.                       *)
THEOREM StreamInvariant ==
  Spec => []StreamInv
<1>1. Init => StreamInv
  BY StreamInvInit
<1>2. StreamInv /\ [Next]_vars => StreamInv'
  BY StreamInvStep
<1>3. QED
  BY <1>1, <1>2, PTL DEF Spec

(* Types.                                                                    *)
THEOREM TypesHold ==
  Spec => []TypeOK
<1>1. StreamInv => TypeOK
  BY DEF StreamInv
<1>2. QED
  BY <1>1, StreamInvariant, PTL

(* The ring holds the last events in their order, for a ring of any size and *)
(* any number of events (logbuffer.go:51-59, 80-82).                         *)
THEOREM RingHoldsTail ==
  Spec => []RingIsTail
<1>1. ASSUME StreamInv PROVE RingIsTail
  <2>1. \A n : EventOf(n, levels).id = n
    BY DEF EventOf
  <2>2. QED
    BY <1>1, <2>1 DEF StreamInv, RingHolds, RingIsTail
<1>2. QED
  BY <1>1, StreamInvariant, PTL

(* The registered subscribers are those with an open channel: nothing is     *)
(* sent to a closed one, and none is closed twice (logbuffer.go:61-68,       *)
(* 110-117).                                                                 *)
THEOREM RegisteredAreOpen ==
  Spec => []RegisteredIsOpen
<1>1. StreamInv => RegisteredIsOpen
  BY DEF StreamInv
<1>2. QED
  BY <1>1, StreamInvariant, PTL

(* The slots taken are those of the streams (admin.go:229-235).              *)
THEOREM SlotsAreBalanced ==
  Spec => []SlotsBalanced
<1>1. StreamInv => SlotsBalanced
  BY DEF StreamInv
<1>2. QED
  BY <1>1, StreamInvariant, PTL

(* Whatever the client asks and whenever it connects, its stream is in       *)
(* order, without repetition and of what it asked for (admin.go:262-300).    *)
THEOREM StreamInOrderOnce ==
  Spec => []InOrderOnce
<1>1. StreamInv => InOrderOnce
  BY DEF StreamInv, HandlerInv, SentInv, InOrderOnce
<1>2. QED
  BY <1>1, StreamInvariant, PTL

(* A stream lacks only what the ring had lost before its snapshot, and what  *)
(* was logged between the snapshot and the subscription (admin.go:262-300,   *)
(* logbuffer.go:61-68).                                                      *)
THEOREM OneHoleOnly ==
  Spec => []OnlyHandoverIsLost
<1>1. ASSUME StreamInv PROVE OnlyHandoverIsLost
  <2> SUFFICES ASSUME NEW h \in Handlers, NEW n \in 1 .. Len(levels),
                      sent[h] # <<>>, n <= sent[h][Len(sent[h])],
                      n > asked[h].since, levels[n] >= asked[h].min
               PROVE  \/ \E i \in DOMAIN sent[h] : sent[h][i] = n
                      \/ n <= snapAt[h] - Capacity
                      \/ snapAt[h] < n /\ n <= joinedAt[h]
    BY DEF OnlyHandoverIsLost
  <2>1. TypeOK /\ SentInv(h) /\ Capacity \in Nat \ {0}
    BY <1>1, LogAssumption DEF StreamInv, HandlerInv
  <2>2. since[h] = sent[h][Len(sent[h])] /\ Complete(h, since[h]) /\ since[h] \in Nat
    BY <2>1 DEF SentInv, TypeOK
  <2>3. n \in 1 .. since[h]
    BY <2>2
  <2>4. Written(h, n) \/ n <= LostBefore(h) \/ (snapAt[h] < n /\ n <= joinedAt[h])
    BY <2>2, <2>3 DEF Complete
  <2>5. n <= LostBefore(h) => n <= snapAt[h] - Capacity
    BY <2>1 DEF LostBefore, TypeOK
  <2>6. QED
    BY <2>4, <2>5 DEF Written
<1>2. QED
  BY <1>1, StreamInvariant, PTL

=============================================================================
