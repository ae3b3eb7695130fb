------------------------------- MODULE MCRequests -------------------------------
(***************************************************************************)
(* Instances of Requests.  Three upstreams, two sessions that rank them in *)
(* opposite orders, the second with a collision; the mixes of requests a   *)
(* run puts in competition.                                                *)
(***************************************************************************)
EXTENDS Requests

CONSTANTS a, b, c, s, t

MCKeys == {a, b, c}
MCSessions == {s, t}
MCScore ==
  [x \in MCSessions |->
     IF x = s THEN [k \in MCKeys |-> IF k = a THEN 3 ELSE IF k = b THEN 2 ELSE 1]
     ELSE [k \in MCKeys |-> IF k = a THEN 1 ELSE 2]]

Ask(strategy, kind, force, session, failover, again) ==
  [strategy |-> strategy, kind |-> kind, force |-> force, session |-> session,
   failover |-> failover, again |-> again]

\* Round robin picks, beside two that force an upstream, which an update may
\* take away; one of them must not be sent twice.
PlainProfiles ==
  {Ask("round_robin", "connect", None, None, "soft", TRUE),
   Ask("round_robin", "socks", None, None, "soft", TRUE),
   Ask("round_robin", "connect", a, None, "soft", TRUE),
   Ask("round_robin", "forward", b, None, "soft", FALSE)}

\* Both sessions, both kinds of failover, and a random draw that competes with
\* them.
StickyProfiles ==
  {Ask("random", "connect", None, s, "soft", TRUE),
   Ask("random", "forward", None, t, "hard", TRUE),
   Ask("random", "socks", None, None, "soft", TRUE)}

\* One program has one strategy: no mix takes from both.
AllProfiles == PlainProfiles \cup StickyProfiles

ConnectProfiles == {Ask("round_robin", "connect", None, None, "soft", TRUE)}

AllOrTwo == {<<a, b, c>>, <<c, a>>}
Both == {<<a, b>>}

\* Requests are interchangeable: of the mixes that differ only in which is
\* which, one is enough.  Two ask for the same only if they share a session.
Place == CHOOSE f \in [Clients -> 1 .. Cardinality(Clients)] :
           \A r, q \in Clients : f[r] = f[q] => r = q
KindOrder == [connect |-> 1, forward |-> 2, socks |-> 3]
Rank(p) == 2 * KindOrder[p.kind] + (IF p.force = None THEN 0 ELSE 1)
MixInit ==
  /\ Init
  /\ \A r, q \in Clients :
       Place[r] < Place[q] =>
         \/ Rank(profile[r]) < Rank(profile[q])
         \/ profile[r] = profile[q] /\ profile[r].session # None

\* The clock of the mixes that draw at random stops one tick before MaxTime.
RandomHorizon == MaxTime - 1
MixNext ==
  /\ Next
  /\ (\E r \in Clients : profile[r].strategy = "random") => now' <= RandomHorizon

MixSpec == MixInit /\ [][MixNext]_vars /\ Fairness

=============================================================================
