------------------------------- MODULE Rendezvous -------------------------------
(***************************************************************************)
(* Highest-random-weight selection, internal/server/httpproxy/sticky.go.   *)
(* The 64-bit hash of a session and a node is an arbitrary score: two      *)
(* nodes may collide, and then the earlier candidate wins.                 *)
(***************************************************************************)
EXTENDS Integers

CONSTANTS
  Sessions,  \* the session keys requests carry
  Nodes,     \* the keys of the candidates
  Score      \* hrwScore: session -> node -> 64-bit score

ASSUME ScoreAssumption == Score \in [Sessions -> [Nodes -> Nat]]

\* Mutant: only the excluded are considered.
Remaining_Inverted(candidates, keyOf, excluded) ==
  {i \in candidates : keyOf[i] \in excluded}

\* candidates is a set of positions in the order the loop visits them, keyOf
\* gives the key at a position; excluded keys are passed over.
Remaining(candidates, keyOf, excluded) ==
  {i \in candidates : keyOf[i] \notin excluded}

\* Mutant: the last of the candidates wins, whatever it scores.
Beats_Last(s, keyOf, i, j) == i >= j

\* The loop replaces its best only by a strictly higher score.
Beats(s, keyOf, i, j) ==
  \/ Score[s][keyOf[i]] > Score[s][keyOf[j]]
  \/ Score[s][keyOf[i]] = Score[s][keyOf[j]] /\ i <= j

IsBest(s, candidates, keyOf, excluded, i) ==
  /\ i \in Remaining(candidates, keyOf, excluded)
  /\ \A j \in Remaining(candidates, keyOf, excluded) : Beats(s, keyOf, i, j)

\* Mutant: with no candidate left it waits for one.
PickRendezvous_Waits(s, candidates, keyOf, excluded, none, k) ==
  \E i \in candidates : IsBest(s, candidates, keyOf, excluded, i) /\ k = keyOf[i]

\* k is the key of the entry pickRendezvous returns, none if it finds nothing.
PickRendezvous(s, candidates, keyOf, excluded, none, k) ==
  \/ \E i \in candidates : IsBest(s, candidates, keyOf, excluded, i) /\ k = keyOf[i]
  \/ Remaining(candidates, keyOf, excluded) = {} /\ k = none

=============================================================================
