------------------------------- MODULE LogBuffer --------------------------------
(***************************************************************************)
(* The log buffer of internal/logging/logbuffer.go: a ring of the last     *)
(* events and the channels of those that follow it.  Every method holds    *)
(* b.mu throughout, so each is one step.  An event is its ID and its       *)
(* level.                                                                  *)
(***************************************************************************)
EXTENDS Integers, Sequences

CONSTANTS
  Capacity,    \* admin.log_buffer_lines
  Levels,      \* the levels, as numbers
  Subscribers, \* those that may subscribe: the subscription IDs
  ChanSize     \* the capacity of a subscriber's channel

\* NewWithBuffer makes no buffer of no lines; Subscribe replaces a size of 0.
ASSUME LogAssumption ==
  /\ Capacity \in Nat \ {0}
  /\ Levels \subseteq Nat
  /\ ChanSize \in Nat \ {0}

VARIABLES
  events,  \* the array
  start,
  size,
  nextID,  \* the ID of the last event
  subs,    \* the keys of the map of the same name
  chan,    \* subscriber -> what its channel holds
  open     \* subscriber -> its channel exists and is not closed

ringVars == <<events, start, size, nextID>>
subVars == <<subs, chan, open>>
bufferVars == <<ringVars, subVars>>

Slots == 0 .. Capacity - 1
Event == [id : Nat, level : Nat]
Empty == [id |-> 0, level |-> 0]

BufferInit ==
  /\ events = [i \in Slots |-> Empty]
  /\ start = 0
  /\ size = 0
  /\ nextID = 0
  /\ subs = {}
  /\ chan = [s \in Subscribers |-> <<>>]
  /\ open = [s \in Subscribers |-> FALSE]

-----------------------------------------------------------------------------
(* Append.                                                                   *)

\* Mutant: the oldest event stays the first when it is overwritten.
Store_StartStays(e) ==
  /\ events' = [events EXCEPT ![(start + size) % Capacity] = e]
  /\ size' = IF size < Capacity THEN size + 1 ELSE size
  /\ UNCHANGED start

\* Mutant: the size grows beyond the ring.
Store_SizeGrows(e) ==
  /\ events' = [events EXCEPT ![(start + size) % Capacity] = e]
  /\ size' = size + 1
  /\ UNCHANGED start

\* In a full ring the new event takes the place of the oldest.
Store(e) ==
  /\ events' = [events EXCEPT ![(start + size) % Capacity] = e]
  /\ IF size < Capacity
       THEN size' = size + 1 /\ UNCHANGED start
       ELSE start' = (start + 1) % Capacity /\ UNCHANGED size

HasRoom(s) == Len(chan[s]) < ChanSize

\* Mutant: a slow subscriber is closed and kept.
Publish_KeepsClosed(e) ==
  /\ chan' = [s \in Subscribers |->
                IF s \in subs /\ HasRoom(s) THEN Append(chan[s], e) ELSE chan[s]]
  /\ open' = [s \in Subscribers |-> open[s] /\ (s \in subs => HasRoom(s))]
  /\ UNCHANGED subs

\* Mutant: an event that finds no room is dropped, the subscriber stays.
Publish_Drops(e) ==
  /\ chan' = [s \in Subscribers |->
                IF s \in subs /\ HasRoom(s) THEN Append(chan[s], e) ELSE chan[s]]
  /\ UNCHANGED <<open, subs>>

\* A subscriber that has no room is closed and removed; it keeps what it has.
Publish(e) ==
  /\ chan' = [s \in Subscribers |->
                IF s \in subs /\ HasRoom(s) THEN Append(chan[s], e) ELSE chan[s]]
  /\ open' = [s \in Subscribers |-> open[s] /\ (s \in subs => HasRoom(s))]
  /\ subs' = {s \in subs : HasRoom(s)}

AppendEvent(level) ==
  /\ nextID' = nextID + 1
  /\ Store([id |-> nextID + 1, level |-> level])
  /\ Publish([id |-> nextID + 1, level |-> level])

-----------------------------------------------------------------------------
(* SnapshotSince: of the ring, from its oldest event on, what is wanted.      *)

Ring == [i \in 1 .. size |-> events[(start + i - 1) % Capacity]]

\* The slice it returns, each event at the place it has in the ring.
SnapshotSince(since, min) ==
  [i \in {j \in 1 .. size : Ring[j].id > since /\ Ring[j].level >= min} |-> Ring[i]]

-----------------------------------------------------------------------------
(* Subscribe, and the cancel it returns.                                     *)

SubscribeAs(s) ==
  /\ subs' = subs \cup {s}
  /\ chan' = [chan EXCEPT ![s] = <<>>]
  /\ open' = [open EXCEPT ![s] = TRUE]

\* A subscriber that the writer has already removed is left alone.  No one
\* reads the channel any more.
CancelSub(s) ==
  /\ subs' = subs \ {s}
  /\ open' = [open EXCEPT ![s] = @ /\ s \notin subs]
  /\ chan' = [chan EXCEPT ![s] = <<>>]

-----------------------------------------------------------------------------
BufferTypeOK ==
  /\ events \in [Slots -> Event]
  /\ start \in Slots
  /\ size \in 0 .. Capacity
  /\ nextID \in Nat
  /\ subs \in SUBSET Subscribers
  /\ chan \in [Subscribers -> Seq(Event)]
  /\ open \in [Subscribers -> BOOLEAN]

(* The ring holds the last events in their order: the i-th of size has the   *)
(* i-th of the last size IDs, however often it has wrapped                   *)
(* (logbuffer.go:51-59, 80-82).                                              *)
RingIsTail ==
  /\ size = IF nextID < Capacity THEN nextID ELSE Capacity
  /\ \A i \in 1 .. size : Ring[i].id = nextID - size + i

(* The writer sends to open channels only, and no channel is closed twice:   *)
(* whoever is registered is open, whether the writer or its reader ended it  *)
(* first (logbuffer.go:61-68, 110-117).  Either would panic.                 *)
RegisteredIsOpen == \A s \in Subscribers : s \in subs <=> open[s]

=============================================================================
