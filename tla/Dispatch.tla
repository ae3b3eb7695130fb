-------------------------------- MODULE Dispatch --------------------------------
(***************************************************************************)
(* What the listeners promise a request, whatever the pool is made of and  *)
(* however it chooses: the request is tried on members of the pool, one at *)
(* a time, no more often than its terms allow, never twice on one upstream *)
(* if it asked for soft failover, and it ends once: served by the upstream *)
(* it was tried on last, or refused.  Requests implements it.              *)
(***************************************************************************)
EXTENDS Integers, Sequences

CONSTANTS
  Clients,   \* the requests
  Keys,      \* the keys a member can have
  MaxTries   \* selection.retries + 1

VARIABLES
  members,  \* the keys in the pool
  terms,    \* request -> [tries, soft], fixed when it is accepted
  state,    \* request -> "new", "waiting", "trying", "served" or "refused"
  used      \* request -> the upstreams it was tried on, in order

dispatchVars == <<members, terms, state, used>>

DispatchInit ==
  /\ members = {}
  /\ terms = [r \in Clients |-> [tries |-> 0, soft |-> FALSE]]
  /\ state = [r \in Clients |-> "new"]
  /\ used = [r \in Clients |-> <<>>]

Renew ==
  /\ members' \in SUBSET Keys
  /\ UNCHANGED <<terms, state, used>>

Accept(r) ==
  /\ state[r] = "new"
  /\ \E n \in 1 .. MaxTries, soft \in BOOLEAN :
       terms' = [terms EXCEPT ![r] = [tries |-> n, soft |-> soft]]
  /\ state' = [state EXCEPT ![r] = "waiting"]
  /\ UNCHANGED <<members, used>>

Try(r, k) ==
  /\ state[r] = "waiting"
  /\ k \in members
  /\ Len(used[r]) < terms[r].tries
  /\ terms[r].soft => \A i \in DOMAIN used[r] : used[r][i] # k
  /\ state' = [state EXCEPT ![r] = "trying"]
  /\ used' = [used EXCEPT ![r] = Append(@, k)]
  /\ UNCHANGED <<members, terms>>

Leave(r, from, to) ==
  /\ state[r] \in from
  /\ state' = [state EXCEPT ![r] = to]
  /\ UNCHANGED <<members, terms, used>>

GiveUpOn(r) == Leave(r, {"trying"}, "waiting")
Serve(r)    == Leave(r, {"trying"}, "served")
Refuse(r)   == Leave(r, {"waiting", "trying"}, "refused")

DispatchNext ==
  \/ Renew
  \/ \E r \in Clients :
       \/ Accept(r)
       \/ \E k \in Keys : Try(r, k)
       \/ GiveUpOn(r) \/ Serve(r) \/ Refuse(r)

DispatchSpec == DispatchInit /\ [][DispatchNext]_dispatchVars

=============================================================================
