----------------------------- MODULE UpstreamHealth -----------------------------
(***************************************************************************)
(* What the pool promises about its members' health, without positions,    *)
(* index or cursor: a map from the members' keys to their record, in which *)
(* a failure disables a member for a time between the two configured       *)
(* backoffs, a success clears it, and a new list of members starts clean.  *)
(* Pool implements it (PoolCalls!Health).                                  *)
(***************************************************************************)
EXTENDS Integers

CONSTANTS Keys, BaseBackoff, MaxBackoff

VARIABLES
  health,  \* member key -> [failures, until]
  now

healthVars == <<health, now>>

Clean == [failures |-> 0, until |-> 0]

\* A penalty is never shorter than the smaller backoff, never longer than the
\* larger one.
Penalty ==
  IF BaseBackoff <= MaxBackoff
    THEN BaseBackoff .. MaxBackoff
    ELSE MaxBackoff .. BaseBackoff

HealthInit == health = [k \in {} |-> Clean] /\ now = 1

Replace ==
  /\ \E members \in SUBSET Keys : health' = [k \in members |-> Clean]
  /\ UNCHANGED now

Succeed(k) ==
  /\ health' = [health EXCEPT ![k] = Clean]
  /\ UNCHANGED now

\* t is the time the reporter believes it is.
Fail(k, t) ==
  /\ \E d \in Penalty :
       health' = [health EXCEPT ![k] = [failures |-> @.failures + 1,
                                        until |-> t + d]]
  /\ UNCHANGED now

Pass == now' = now + 1 /\ UNCHANGED health

HealthNext ==
  \/ Replace
  \/ \E k \in DOMAIN health : Succeed(k) \/ \E t \in 1 .. now : Fail(k, t)
  \/ Pass

HealthSpec == HealthInit /\ [][HealthNext]_healthVars

=============================================================================
