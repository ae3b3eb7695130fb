-------------------------------- MODULE Affinity ---------------------------------
(***************************************************************************)
(* Sessions on a changing set of upstreams: what rendezvous hashing is     *)
(* chosen for.  The members are listed in the order the last update        *)
(* delivered them, which an update may change: runOnceLegacy lists its     *)
(* addresses as their health checks finish.                                *)
(***************************************************************************)
EXTENDS Rendezvous, Sequences

CONSTANT MemberLists  \* the lists of nodes an update may deliver

\* Two nodes have one score with probability 2^-64; Requests has the ties.
ASSUME AffinityAssumption ==
  /\ MemberLists \subseteq Seq(Nodes)
  /\ \A list \in MemberLists : \A i, j \in DOMAIN list : list[i] = list[j] => i = j
  /\ \A s \in Sessions, m, n \in Nodes : Score[s][m] = Score[s][n] => m = n

VARIABLE members

AffinityInit == members \in MemberLists

AffinityNext == members' \in MemberLists

AffinitySpec == AffinityInit /\ [][AffinityNext]_members

\* The nodes a new request of session s may be sent to, all of them enabled.
SentTo(s, list) ==
  {list[i] : i \in {j \in DOMAIN list : IsBest(s, DOMAIN list, list, {}, j)}}

Listed(list) == {list[i] : i \in DOMAIN list}

\* A step moves a session only if its node left or its new one just came.
MovesForAReason ==
  \A s \in Sessions :
    \A m \in SentTo(s, members), n \in SentTo(s, members') :
      m # n => m \notin Listed(members') \/ n \notin Listed(members)

(* Sessions keep their upstream when others appear and disappear             *)
(* (README.md:113): one that is moved has lost its upstream, or is moved to  *)
(* one that has just appeared; a new order of the list moves none            *)
(* (sticky.go:125-165).                                                      *)
MinimalDisruption == [][MovesForAReason]_members

=============================================================================
