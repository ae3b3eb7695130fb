------------------------------- MODULE LogStream --------------------------------
(***************************************************************************)
(* The log streams of the admin server, handleLogsSSE in                   *)
(* internal/server/admin/admin.go, over the log buffer.  A handler takes a *)
(* slot, writes what the buffer holds, then subscribes and writes what its *)
(* channel brings; the writer of the log, the other handlers and its own   *)
(* client interrupt it between any two of these.                           *)
(*                                                                         *)
(* A handler is one connection; a client that comes back is another one.   *)
(* The heartbeat writes nothing a property is about.                       *)
(***************************************************************************)
EXTENDS LogBuffer, FiniteSets

CONSTANTS
  MaxSSEClients,  \* the capacity of sseSem
  Queries,        \* what clients ask for: [since, min], any number as since
  MaxEvents       \* bound: events logged

Handlers == Subscribers

ASSUME StreamAssumption ==
  /\ IsFiniteSet(Subscribers)
  /\ MaxSSEClients \in Nat \ {0}
  /\ Queries \subseteq [since : Nat, min : Levels]
  /\ MaxEvents \in Nat

VARIABLES
  slots,     \* how many are taken from sseSem
  phase,     \* handler -> where it is
  asked,     \* handler -> [since, min]: the query
  since,     \* handler -> the ID it has written last
  pending,   \* handler -> what it has yet to write of its snapshot, by place
  sent,      \* history: handler -> the IDs it has written
  levels,    \* history: the levels of the events, by ID
  snapAt,    \* history: handler -> nextID when it took the snapshot
  joinedAt   \* history: handler -> nextID when it subscribed

NoEvents == [i \in {} |-> Empty]

handlerVars == <<phase, asked, since, pending, sent, snapAt, joinedAt>>
vars == <<bufferVars, slots, handlerVars, levels>>

Init ==
  /\ BufferInit
  /\ slots = 0
  /\ phase = [h \in Handlers |-> "new"]
  /\ asked = [h \in Handlers |-> [since |-> 0, min |-> 0]]
  /\ since = [h \in Handlers |-> 0]
  /\ pending = [h \in Handlers |-> NoEvents]
  /\ sent = [h \in Handlers |-> <<>>]
  /\ levels = <<>>
  /\ snapAt = [h \in Handlers |-> 0]
  /\ joinedAt = [h \in Handlers |-> 0]

-----------------------------------------------------------------------------
\* A logger's Handle.
Log ==
  /\ nextID < MaxEvents
  /\ \E level \in Levels : AppendEvent(level) /\ levels' = Append(levels, level)
  /\ UNCHANGED <<slots, handlerVars>>

\* The slot, the query, the snapshot.
Connect(h) ==
  /\ phase[h] = "new" /\ slots < MaxSSEClients
  /\ slots' = slots + 1
  /\ \E q \in Queries :
       /\ asked' = [asked EXCEPT ![h] = q]
       /\ since' = [since EXCEPT ![h] = q.since]
       /\ pending' = [pending EXCEPT ![h] = SnapshotSince(q.since, q.min)]
  /\ snapAt' = [snapAt EXCEPT ![h] = nextID]
  /\ phase' = [phase EXCEPT ![h] = "replay"]
  /\ UNCHANGED <<bufferVars, sent, levels, joinedAt>>

\* 429 Too Many Requests.
Refuse(h) ==
  /\ phase[h] = "new" /\ slots = MaxSSEClients
  /\ phase' = [phase EXCEPT ![h] = "refused"]
  /\ UNCHANGED <<bufferVars, slots, asked, since, pending, sent, levels, snapAt, joinedAt>>

Write(h, e) ==
  /\ sent' = [sent EXCEPT ![h] = Append(@, e.id)]
  /\ since' = [since EXCEPT ![h] = e.id]

Replay(h) ==
  /\ phase[h] = "replay"
  /\ \E i \in DOMAIN pending[h] :
       /\ \A j \in DOMAIN pending[h] : i <= j
       /\ Write(h, pending[h][i])
       /\ pending' = [pending EXCEPT ![h] = [j \in DOMAIN @ \ {i} |-> @[j]]]
  /\ UNCHANGED <<bufferVars, slots, phase, asked, levels, snapAt, joinedAt>>

Subscribe(h) ==
  /\ phase[h] = "replay" /\ DOMAIN pending[h] = {}
  /\ SubscribeAs(h)
  /\ phase' = [phase EXCEPT ![h] = "live"]
  /\ joinedAt' = [joinedAt EXCEPT ![h] = nextID]
  /\ UNCHANGED <<ringVars, slots, asked, since, pending, sent, levels, snapAt>>

\* Mutant: what the client has is not left out.
Wanted_Anything(h, e) == e.level >= asked[h].min

Wanted(h, e) == e.id > since[h] /\ e.level >= asked[h].min

Receive(h) ==
  /\ phase[h] = "live" /\ chan[h] # <<>>
  /\ chan' = [chan EXCEPT ![h] = Tail(@)]
  /\ IF Wanted(h, Head(chan[h])) THEN Write(h, Head(chan[h]))
     ELSE UNCHANGED <<sent, since>>
  /\ UNCHANGED <<ringVars, subs, open, slots, phase, asked, pending, levels, snapAt, joinedAt>>

\* Mutant: a stream the writer has closed keeps its slot.
GiveBack_UnlessClosed(h) == IF phase[h] = "live" /\ ~ open[h] THEN slots ELSE slots - 1

\* The deferred release of the slot.
GiveBack(h) == slots - 1

\* The deferred calls: cancel if it has subscribed, and the slot.
Leave(h) ==
  /\ IF phase[h] = "live" THEN CancelSub(h) ELSE UNCHANGED subVars
  /\ slots' = GiveBack(h)
  /\ phase' = [phase EXCEPT ![h] = "done"]
  /\ pending' = [pending EXCEPT ![h] = NoEvents]
  /\ UNCHANGED <<ringVars, asked, since, sent, levels, snapAt, joinedAt>>

\* Its channel is closed and holds nothing more.
Dropped(h) ==
  /\ phase[h] = "live" /\ chan[h] = <<>> /\ ~ open[h]
  /\ Leave(h)

\* The request's context ends or a write fails.
ClientGone(h) ==
  /\ phase[h] \in {"replay", "live"}
  /\ Leave(h)

Serve(h) == Replay(h) \/ Subscribe(h) \/ Receive(h) \/ Dropped(h)

Next ==
  \/ Log
  \/ \E h \in Handlers : Connect(h) \/ Refuse(h) \/ Serve(h) \/ ClientGone(h)

Spec == Init /\ [][Next]_vars

\* A handler whose client reads goes on.
Fairness == \A h \in Handlers : WF_vars(Serve(h))

FairSpec == Spec /\ Fairness

-----------------------------------------------------------------------------
Streaming(h) == phase[h] \in {"replay", "live"}

(* Types.                                                                    *)
TypeOK ==
  /\ BufferTypeOK
  /\ slots \in Nat
  /\ phase \in [Handlers -> {"new", "replay", "live", "done", "refused"}]
  /\ asked \in [Handlers -> [since : Nat, min : Nat]]
  /\ since \in [Handlers -> Nat]
  /\ DOMAIN pending = Handlers
  /\ \A h \in Handlers :
       DOMAIN pending[h] \subseteq Nat /\ pending[h] \in [DOMAIN pending[h] -> Event]
  /\ sent \in [Handlers -> Seq(Nat)]
  /\ levels \in Seq(Nat)
  /\ snapAt \in [Handlers -> Nat]
  /\ joinedAt \in [Handlers -> Nat]

(* A slot is taken for every stream and for no other, and never more than    *)
(* there are, whoever ends a stream: its client, the writer, or both at the  *)
(* same time (admin.go:229-235).                                             *)
SlotsBalanced ==
  /\ slots = Cardinality({h \in Handlers : Streaming(h)})
  /\ slots <= MaxSSEClients

(* A stream is in order, without repetition, after what the client has and   *)
(* of the level it wants: over the change from snapshot to subscription, and *)
(* for a client that names an ID the buffer has not reached                  *)
(* (admin.go:262-300).                                                       *)
InOrderOnce ==
  \A h \in Handlers : \A i \in DOMAIN sent[h] :
    /\ sent[h][i] > asked[h].since
    /\ i > 1 => sent[h][i - 1] < sent[h][i]
    /\ levels[sent[h][i]] >= asked[h].min

(* A stream has one hole at most: of the events up to the last it has        *)
(* written, it lacks those the ring had lost before its snapshot and those   *)
(* logged between the snapshot and the subscription; a slow stream is ended, *)
(* not thinned out (admin.go:262-300, logbuffer.go:61-68).                   *)
OnlyHandoverIsLost ==
  \A h \in Handlers : \A n \in 1 .. Len(levels) :
    (/\ sent[h] # <<>> /\ n <= sent[h][Len(sent[h])]
     /\ n > asked[h].since /\ levels[n] >= asked[h].min) =>
      \/ \E i \in DOMAIN sent[h] : sent[h][i] = n
      \/ n <= snapAt[h] - Capacity
      \/ snapAt[h] < n /\ n <= joinedAt[h]

(* An event logged while a stream is subscribed reaches it, or the stream    *)
(* ends (admin.go:280-300).                                                  *)
EventsArrive ==
  \A h \in Handlers : \A n \in 1 .. MaxEvents :
    (phase[h] = "live" /\ joinedAt[h] < n /\ n <= nextID) ~>
      (since[h] >= n \/ phase[h] = "done"
         \/ (n <= Len(levels) /\ levels[n] < asked[h].min))

=============================================================================
