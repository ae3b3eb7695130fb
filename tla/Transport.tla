------------------------------- MODULE Transport --------------------------------
(***************************************************************************)
(* Forwarded requests of sessions over the one http.Transport of the HTTP  *)
(* listener (httpproxy/proxy.go: New, handleForward).  Each selects its    *)
(* upstream, as in Requests, and hands it to the transport in its context. *)
(* The transport reads it only when it dials: connections are kept, and    *)
(* handed to waiting requests, by target.                                  *)
(*                                                                         *)
(* The pool does not change here and no attempt is repeated: a connection  *)
(* is named by the request it was dialled for.                             *)
(***************************************************************************)
EXTENDS Rendezvous, Sequences

CONSTANTS
  Forwards,  \* the requests
  Targets,   \* the origins they are for
  Members    \* the keys in the pool, in order; there are some

VARIABLES
  ask,       \* request -> [session, target]
  phase,     \* request -> where client.Do is
  selected,  \* request -> the upstream in its context
  conn,      \* request -> the connection dialled for it: its state
  uses       \* request -> the connection it was sent on

vars == <<ask, phase, selected, conn, uses>>

Init ==
  /\ ask \in [Forwards -> [session : Sessions, target : Targets]]
  /\ phase = [r \in Forwards |-> "new"]
  /\ selected = [r \in Forwards |-> Members[1]]
  /\ conn = [r \in Forwards |-> "none"]
  /\ uses = [r \in Forwards |-> r]

SameTarget(r, c) == ask[r].target = ask[c].target

\* r is sent on connection c.
SendOn(r, c) ==
  /\ phase' = [phase EXCEPT ![r] = "sent"]
  /\ uses' = [uses EXCEPT ![r] = c]
  /\ conn' = [conn EXCEPT ![c] = "busy"]

\* handleForward's selection, and the transport's getConn: an idle connection
\* to the target, or a dial.
Do(r) ==
  /\ phase[r] = "new"
  /\ \E k \in Nodes :
       /\ PickRendezvous(ask[r].session, DOMAIN Members, Members, {}, "", k)
       /\ selected' = [selected EXCEPT ![r] = k]
  /\ \/ \E c \in Forwards : conn[c] = "idle" /\ SameTarget(r, c) /\ SendOn(r, c)
     \/ /\ ~ \E c \in Forwards : conn[c] = "idle" /\ SameTarget(r, c)
        /\ phase' = [phase EXCEPT ![r] = "waiting"]
        /\ conn' = [conn EXCEPT ![r] = "dialing"]
        /\ UNCHANGED uses
  /\ UNCHANGED ask

\* A connection nobody waits for any more goes to a request that waits for its
\* target, or is kept.
PutIdle(c) ==
  \/ \E r \in Forwards : r # c /\ phase[r] = "waiting" /\ SameTarget(r, c) /\ SendOn(r, c)
  \/ /\ ~ \E r \in Forwards : r # c /\ phase[r] = "waiting" /\ SameTarget(r, c)
     /\ conn' = [conn EXCEPT ![c] = "idle"]
     /\ UNCHANGED <<phase, uses>>

\* dialThroughSOCKS5 returns a connection through the upstream of its request.
Connected(c) ==
  /\ conn[c] = "dialing"
  /\ IF phase[c] = "waiting" THEN SendOn(c, c) ELSE PutIdle(c)
  /\ UNCHANGED <<ask, selected>>

\* It returns an error: to its request, if that has nothing else by now.
DialFails(c) ==
  /\ conn[c] = "dialing"
  /\ conn' = [conn EXCEPT ![c] = "closed"]
  /\ phase' = [phase EXCEPT ![c] = IF @ = "waiting" THEN "failed" ELSE @]
  /\ UNCHANGED <<ask, selected, uses>>

\* The response is copied to the client: done, and the connection is free.
Answered(r) ==
  /\ phase[r] = "sent"
  /\ \/ \E w \in Forwards :
          /\ phase[w] = "waiting" /\ SameTarget(w, r)
          /\ phase' = [phase EXCEPT ![r] = "done", ![w] = "sent"]
          /\ uses' = [uses EXCEPT ![w] = uses[r]]
          /\ UNCHANGED conn
     \/ /\ ~ \E w \in Forwards : phase[w] = "waiting" /\ SameTarget(w, r)
        /\ phase' = [phase EXCEPT ![r] = "done"]
        /\ conn' = [conn EXCEPT ![uses[r]] = "idle"]
        /\ UNCHANGED uses
  /\ UNCHANGED <<ask, selected>>

\* An idle connection is closed by its peer.
Closed(c) ==
  /\ conn[c] = "idle"
  /\ conn' = [conn EXCEPT ![c] = "closed"]
  /\ UNCHANGED <<ask, phase, selected, uses>>

Next == \E r \in Forwards : Do(r) \/ Connected(r) \/ DialFails(r) \/ Answered(r) \/ Closed(r)

Spec == Init /\ [][Next]_vars

-----------------------------------------------------------------------------
(* A session is pinned to a fixed egress (README.md:112): its requests leave *)
(* through the upstream it is mapped to.                                     *)
PinnedEgress ==
  \A r \in Forwards :
    phase[r] \in {"sent", "done"} => selected[uses[r]] = selected[r]

=============================================================================
