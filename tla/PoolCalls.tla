------------------------------- MODULE PoolCalls --------------------------------
(***************************************************************************)
(* The pool under every sequence of calls its users could make: the        *)
(* updater replaces the list, listeners ask for entries and report what    *)
(* happened to them, for keys that may be gone by then and with a time     *)
(* they read earlier.  Requests narrows the callers down to the real ones. *)
(***************************************************************************)
EXTENDS Pool

CONSTANTS
  Strategy,     \* selection.strategy, which every caller of Next passes
  EntryLists,   \* the lists of keys an update may deliver
  MaxTime,      \* bound: the clock stops here
  MaxFailures   \* bound: failures counted on one entry

\* Neither path of the updater calls Update with an empty list.
ASSUME CallsAssumption ==
  /\ Strategy \in Strategies
  /\ EntryLists \subseteq Seq(Keys)
  /\ \A list \in EntryLists : list # <<>> /\ DistinctKeys(list)
  /\ MaxTime \in Nat
  /\ MaxFailures \in Nat

VARIABLES
  now,    \* the clock every caller reads
  passed  \* history: key -> consecutive calls of Next that passed it over
          \* although it was eligible

callVars == <<entries, index, rr, now, passed>>

CallsInit ==
  /\ PoolInit
  /\ now = 1
  /\ passed = [k \in Keys |-> 0]

DoUpdate ==
  /\ \E list \in EntryLists : Update(list)
  /\ passed' = [k \in Keys |-> 0]
  /\ UNCHANGED now

\* The keys Next may return at time t, read off the entries.
EligibleKeys(t) == {entries[i].key : i \in {j \in DOMAIN entries : Eligible(entries[j], t)}}

DoNext ==
  /\ \E k \in Keys \cup {None} :
       /\ NextEntry(Strategy, now, k)
       /\ passed' = [q \in Keys |-> IF q \in EligibleKeys(now) /\ q # k
                                      THEN passed[q] + 1 ELSE 0]
  /\ UNCHANGED now

DoMarkSuccess ==
  /\ \E k \in Keys : MarkSuccess(k)
  /\ UNCHANGED <<now, passed>>

DoMarkFailure ==
  /\ \E k \in Keys, t \in 1 .. now :
       /\ k \in DOMAIN index => entries[index[k]].failures < MaxFailures
       /\ MarkFailure(k, t)
  /\ UNCHANGED <<now, passed>>

Tick ==
  /\ now < MaxTime
  /\ now' = now + 1
  /\ UNCHANGED <<entries, index, rr, passed>>

CallsNext ==
  \/ DoUpdate
  \/ DoNext
  \/ DoMarkSuccess
  \/ DoMarkFailure
  \/ Tick

CallsSpec == CallsInit /\ [][CallsNext]_callVars

-----------------------------------------------------------------------------
(* The type invariant of the pool, its clock and its history.                *)
TypeOK ==
  /\ PoolTypeOK
  /\ now \in Nat \ {0}
  /\ passed \in [Keys -> Nat]

(* No upstream is locked out for longer than the larger of the two backoffs  *)
(* from now, however many failures are reported and however old the time     *)
(* they carry (pool.go:164-172).                                             *)
PenaltyBounded ==
  \A i \in DOMAIN entries :
    \/ entries[i].until <= now + BaseBackoff
    \/ entries[i].until <= now + MaxBackoff

(* Round robin starves no one: an upstream that stays eligible is returned   *)
(* by one of any Len(entries) consecutive calls of Next, whatever is         *)
(* disabled around it (pool.go:99-108).                                      *)
NoStarvation ==
  Strategy = "round_robin" =>
    \A i \in DOMAIN entries : passed[entries[i].key] < Len(entries)

-----------------------------------------------------------------------------
(* The pool implements the map from members to health of UpstreamHealth: an  *)
(* operation changes the record of the key it names and of no other, a draw  *)
(* changes none, an update forgets all of them.                              *)
Health ==
  INSTANCE UpstreamHealth WITH
    health <- [k \in DOMAIN index |->
                 [failures |-> entries[index[k]].failures,
                  until |-> entries[index[k]].until]]

ImplementsHealth == Health!HealthSpec

=============================================================================
